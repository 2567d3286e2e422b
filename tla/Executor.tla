------------------------------ MODULE Executor ------------------------------
(***************************************************************************)
(* How osh-daemon executes commands on one connection (osh-daemon/src/     *)
(* pty_manager.rs, cmd_executor.rs, daemon.rs 229-347 and 556-645).  A PTY *)
(* process has two threads: the waiter reports its end, the reader its     *)
(* output; with the main loop they share a table of processes behind a     *)
(* mutex.  A command without a PTY is a task that reports everything when  *)
(* the command has ended.  Events go through a bounded channel to a task   *)
(* that forwards them to the bounded channel of the task that writes to    *)
(* the socket, where the main loop puts its own messages.                  *)
(*                                                                         *)
(* The tables, threads and channels belong to one connection and are made  *)
(* anew for the next one, so one connection is modelled; its threads and   *)
(* processes outlive it.  The daemon is approved (Daemon models that it    *)
(* only then executes commands).  An action is a step between two points   *)
(* where a thread or task may wait.  A task that holds a message which it  *)
(* cannot pass on is one more place of its channel.  Contents of output    *)
(* and input, RESIZE, and commands on a request that is not in the table   *)
(* change nothing here and are left out.                                   *)
(***************************************************************************)
EXTENDS Naturals, Sequences, FiniteSets

CONSTANTS
    Ptys,      \* requests with a PTY
    Cmds,      \* requests without one
    Cap,       \* capacity of a channel (100 in the code)
    OutputCap, \* how much output a PTY holds for its reader
    None

Reqs == Ptys \cup Cmds

ASSUME RequestsAssumption == Ptys \cap Cmds = {} /\ None \notin Reqs
ASSUME CapAssumption == Cap \in Nat \ {0} /\ OutputCap \in Nat \ {0}

VARIABLES
    loop,     \* the main loop: "idle", "reply" or "input" while it waits, "down"
    typing,   \* the request whose input the main loop writes
    reply,    \* the message the main loop sends
    open,     \* the channels whose receiving task lives
    queue,    \* the channels: PTY events, command events, messages for the socket
    table,    \* PtyManager.processes
    exited,   \* the flag that tells a reader to stop
    proc,     \* the processes the waiters wait for
    output,   \* output a PTY holds
    waiter,   \* waiter threads
    reader,   \* reader threads
    cmd,      \* tasks of commands without a PTY
    report,   \* what such a task has still to send
    ended,    \* history: final messages the relay got, up to Many
    late      \* history: output the relay got after a final message, up to Many

loopVars    == <<loop, typing, reply>>
channelVars == <<open, queue>>
tableVars   == <<table, exited>>
procVars    == <<proc, output>>
threadVars  == <<waiter, reader>>
cmdVars     == <<cmd, report>>
history     == <<ended, late>>
executorVars == <<loopVars, channelVars, tableVars, procVars, threadVars, cmdVars, history>>

Channels == {"pty", "cmd", "ws"}
Message  == [req : Reqs, kind : {"data", "exit", "error"}] \cup {[req |-> None, kind |-> "pong"]}
Final    == {"exit", "error"}
Many     == 2

ExecutorTypeOK ==
    /\ loop   \in {"idle", "reply", "input", "down"}
    /\ typing \in Ptys \cup {None}
    /\ reply  \in Message \cup {None}
    /\ open   \in SUBSET Channels
    /\ DOMAIN queue = Channels
    /\ \A ch \in Channels : Len(queue[ch]) <= Cap /\ \A i \in 1..Len(queue[ch]) : queue[ch][i] \in Message
    /\ table  \in SUBSET Ptys
    /\ exited \in SUBSET Ptys
    /\ proc   \in [Ptys -> {"none", "running", "gone"}]
    /\ output \in [Ptys -> 0..OutputCap]
    /\ waiter \in [Ptys -> {"none", "wait", "remove", "send", "done"}]
    /\ reader \in [Ptys -> {"none", "flag", "table", "read", "send", "done", "failed"}]
    /\ cmd    \in [Cmds -> {"none", "run", "report"}]
    /\ \A r \in Cmds : Len(report[r]) <= 3
    /\ ended  \in [Reqs -> 0..Many]
    /\ late   \in [Reqs -> 0..Many]

ExecutorInit ==
    /\ loop = "idle" /\ typing = None /\ reply = None
    /\ open = Channels
    /\ queue = [ch \in Channels |-> <<>>]
    /\ table = {} /\ exited = {}
    /\ proc = [r \in Ptys |-> "none"]
    /\ output = [r \in Ptys |-> 0]
    /\ waiter = [r \in Ptys |-> "none"]
    /\ reader = [r \in Ptys |-> "none"]
    /\ cmd = [r \in Cmds |-> "none"]
    /\ report = [r \in Cmds |-> <<>>]
    /\ ended = [r \in Reqs |-> 0]
    /\ late = [r \in Reqs |-> 0]

-----------------------------------------------------------------------------
(* Channels.  A send waits for room; to a channel without a receiver it    *)
(* fails, which every sender ignores.                                      *)

\* mutant: channels without a bound.
RoomAlways(ch) == TRUE

Room(ch) == ch \in open => Len(queue[ch]) < Cap

Put(ch, m) == queue' = IF ch \in open THEN [queue EXCEPT ![ch] = Append(@, m)] ELSE queue

\* The tasks that forward PTY events and command events to the socket's channel.
Forward(ch) ==
    /\ ch \in open /\ queue[ch] # <<>>
    /\ "ws" \in open /\ Room("ws")
    /\ queue' = [queue EXCEPT ![ch] = Tail(@), !["ws"] = Append(@, Head(queue[ch]))]
    /\ UNCHANGED <<loopVars, open, tableVars, procVars, threadVars, cmdVars, history>>

ForwardEnds(ch) ==
    /\ ch \in open /\ queue[ch] # <<>>
    /\ "ws" \notin open
    /\ open' = open \ {ch}
    /\ queue' = [queue EXCEPT ![ch] = <<>>]
    /\ UNCHANGED <<loopVars, tableVars, procVars, threadVars, cmdVars, history>>

AtMostMany(n) == IF n < Many THEN n ELSE Many

Received(m) ==
    IF m.kind \in Final
      THEN /\ ended' = [ended EXCEPT ![m.req] = AtMostMany(@ + 1)]
           /\ UNCHANGED late
      ELSE /\ late' = IF m.kind = "data" /\ ended[m.req] > 0
                        THEN [late EXCEPT ![m.req] = AtMostMany(@ + 1)] ELSE late
           /\ UNCHANGED ended

WsSend ==
    /\ queue["ws"] # <<>>
    /\ Received(Head(queue["ws"]))
    /\ queue' = [queue EXCEPT !["ws"] = Tail(@)]
    /\ UNCHANGED <<loopVars, open, tableVars, procVars, threadVars, cmdVars>>

WsFails ==
    /\ queue["ws"] # <<>>
    /\ open' = open \ {"ws"}
    /\ queue' = [queue EXCEPT !["ws"] = <<>>]
    /\ UNCHANGED <<loopVars, tableVars, procVars, threadVars, cmdVars, history>>

-----------------------------------------------------------------------------
(* The main loop.                                                          *)

TableFree == loop # "input"

Send(m) ==
    /\ loop' = "reply"
    /\ reply' = m
    /\ UNCHANGED typing

Ping ==
    /\ loop = "idle"
    /\ Send([req |-> None, kind |-> "pong"])
    /\ UNCHANGED <<channelVars, tableVars, procVars, threadVars, cmdVars, history>>

\* mutant: the loop waits for the socket's task to come back.
ReplySendInsists ==
    /\ loop = "reply"
    /\ "ws" \in open /\ Room("ws")
    /\ Put("ws", reply)
    /\ loop' = "idle" /\ reply' = None
    /\ UNCHANGED <<typing, open, tableVars, procVars, threadVars, cmdVars, history>>

ReplySend ==
    /\ loop = "reply"
    /\ Room("ws")
    /\ Put("ws", reply)
    /\ loop' = "idle" /\ reply' = None
    /\ UNCHANGED <<typing, open, tableVars, procVars, threadVars, cmdVars, history>>

\* A request id is fresh: the relay sends one SPAWN for each.
SpawnPty(r) ==
    /\ loop = "idle"
    /\ waiter[r] = "none" /\ ended[r] = 0
    /\ proc' = [proc EXCEPT ![r] = "running"]
    /\ table' = table \cup {r}
    /\ waiter' = [waiter EXCEPT ![r] = "wait"]
    /\ reader' = [reader EXCEPT ![r] = "flag"]
    /\ UNCHANGED <<loopVars, channelVars, exited, output, cmdVars, history>>

\* No PTY or no process: ERROR, through the main loop.  The process may run by
\* then, without threads or an entry, if its reader or writer cannot be made; its
\* PTY is closed with the pair.
SpawnFails(r) ==
    /\ loop = "idle"
    /\ waiter[r] = "none" /\ ended[r] = 0
    /\ \E p \in {"none", "running"} : proc' = [proc EXCEPT ![r] = p]
    /\ waiter' = [waiter EXCEPT ![r] = "done"]
    /\ reader' = [reader EXCEPT ![r] = "done"]
    /\ Send([req |-> r, kind |-> "error"])
    /\ UNCHANGED <<channelVars, tableVars, output, cmdVars, history>>

SpawnCmd(r) ==
    /\ loop = "idle"
    /\ cmd[r] = "none"
    /\ cmd' = [cmd EXCEPT ![r] = "run"]
    /\ UNCHANGED <<loopVars, channelVars, tableVars, procVars, threadVars, report, history>>

\* DATA that the PTY cannot take at once: the loop waits in write_all, with the
\* table locked, until the process reads, which it may never do (a process that
\* waits for its own output to be read does not), or the write fails.
Input(r) ==
    /\ loop = "idle"
    /\ r \in table
    /\ loop' = "input" /\ typing' = r
    /\ UNCHANGED <<reply, channelVars, tableVars, procVars, threadVars, cmdVars, history>>

InputTaken ==
    /\ loop = "input"
    /\ loop' = "idle" /\ typing' = None
    /\ UNCHANGED <<reply, channelVars, tableVars, procVars, threadVars, cmdVars, history>>

\* mutant: the process stays in the table.
KillFlags(r) ==
    /\ loop = "idle"
    /\ r \in table
    /\ exited' = exited \cup {r}
    /\ UNCHANGED <<loopVars, channelVars, table, procVars, threadVars, cmdVars, history>>

\* KILL and INVALID_REQ_ID: the process is forgotten and its reader told to stop.
Kill(r) ==
    /\ loop = "idle"
    /\ r \in table
    /\ table' = table \ {r}
    /\ exited' = exited \cup {r}
    /\ UNCHANGED <<loopVars, channelVars, procVars, threadVars, cmdVars, history>>

\* The loop breaks, whatever for: kill_all, and the tasks are aborted with what
\* their channels hold.
End ==
    /\ loop = "idle"
    /\ loop' = "down"
    /\ exited' = exited \cup table
    /\ table' = {}
    /\ open' = {}
    /\ queue' = [ch \in Channels |-> <<>>]
    /\ UNCHANGED <<typing, reply, procVars, threadVars, cmdVars, history>>

-----------------------------------------------------------------------------
(* Processes with a PTY.  Who has the terminal open may write, also the     *)
(* descendants of a process that has ended, until the daemon holds no end   *)
(* of the PTY any more.                                                     *)

PtyOpen(r) == r \in table \/ reader[r] \notin {"none", "done", "failed"}

ProcWrites(r) ==
    /\ PtyOpen(r)
    /\ output[r] < OutputCap
    /\ output' = [output EXCEPT ![r] = @ + 1]
    /\ UNCHANGED <<loopVars, channelVars, tableVars, proc, threadVars, cmdVars, history>>

ProcEnds(r) ==
    /\ proc[r] = "running"
    /\ proc' = [proc EXCEPT ![r] = "gone"]
    /\ UNCHANGED <<loopVars, channelVars, tableVars, output, threadVars, cmdVars, history>>

-----------------------------------------------------------------------------
(* The waiter thread: child.wait(), then the flag, the table, and EXIT.    *)

WaiterFlags(r) ==
    /\ waiter[r] = "wait"
    /\ exited' = exited \cup {r}
    /\ waiter' = [waiter EXCEPT ![r] = "remove"]
    /\ UNCHANGED <<loopVars, channelVars, table, procVars, reader, cmdVars, history>>

WaiterSees(r) == proc[r] = "gone" /\ WaiterFlags(r)

\* An error of wait() is taken for an exit with code 0.
WaitFails(r) == WaiterFlags(r)

WaiterRemoves(r) ==
    /\ waiter[r] = "remove"
    /\ TableFree
    /\ table' = table \ {r}
    /\ waiter' = [waiter EXCEPT ![r] = "send"]
    /\ UNCHANGED <<loopVars, channelVars, exited, procVars, reader, cmdVars, history>>

\* mutant: EXIT is dropped when the channel is full.
WaiterTries(r) ==
    /\ waiter[r] = "send"
    /\ IF Room("pty") THEN Put("pty", [req |-> r, kind |-> "exit"]) ELSE UNCHANGED queue
    /\ waiter' = [waiter EXCEPT ![r] = "done"]
    /\ UNCHANGED <<loopVars, open, tableVars, procVars, reader, cmdVars, history>>

WaiterSends(r) ==
    /\ waiter[r] = "send"
    /\ Room("pty")
    /\ Put("pty", [req |-> r, kind |-> "exit"])
    /\ waiter' = [waiter EXCEPT ![r] = "done"]
    /\ UNCHANGED <<loopVars, open, tableVars, procVars, reader, cmdVars, history>>

-----------------------------------------------------------------------------
(* The reader thread: the flag, the table, one read, one DATA.             *)

ReaderGoto(r, pc) == reader' = [reader EXCEPT ![r] = pc]

ReaderFlag(r) ==
    /\ reader[r] = "flag"
    /\ ReaderGoto(r, IF r \in exited THEN "done" ELSE "table")
    /\ UNCHANGED <<loopVars, channelVars, tableVars, procVars, waiter, cmdVars, history>>

ReaderTable(r) ==
    /\ reader[r] = "table"
    /\ TableFree
    /\ ReaderGoto(r, IF r \in table THEN "read" ELSE "done")
    /\ UNCHANGED <<loopVars, channelVars, tableVars, procVars, waiter, cmdVars, history>>

ReaderReads(r) ==
    /\ reader[r] = "read"
    /\ output[r] > 0
    /\ output' = [output EXCEPT ![r] = @ - 1]
    /\ ReaderGoto(r, "send")
    /\ UNCHANGED <<loopVars, channelVars, tableVars, proc, waiter, cmdVars, history>>

\* mutant: the reader takes the end of the output for the end of the process.
ReaderFailsReporting(r) ==
    /\ reader[r] = "read"
    /\ Room("pty")
    /\ Put("pty", [req |-> r, kind |-> "exit"])
    /\ ReaderGoto(r, "done")
    /\ UNCHANGED <<loopVars, open, tableVars, procVars, waiter, cmdVars, history>>

\* The end of the output, or an error, at any time: try again, or give up after five
\* errors in a row (on Windows after a broken pipe), whether or not the process has
\* ended.
ReaderFails(r) ==
    /\ reader[r] = "read"
    /\ \E pc \in {"flag", "failed"} : ReaderGoto(r, pc)
    /\ UNCHANGED <<loopVars, channelVars, tableVars, procVars, waiter, cmdVars, history>>

\* mutant: reads on as long as there is output.
AfterSendOn(r) == IF output[r] > 0 THEN "read" ELSE "flag"

AfterSend(r) == "flag"

\* mutant: waits for a receiver.
ReaderSendsInsists(r) ==
    /\ reader[r] = "send"
    /\ "pty" \in open /\ Room("pty")
    /\ Put("pty", [req |-> r, kind |-> "data"])
    /\ ReaderGoto(r, AfterSend(r))
    /\ UNCHANGED <<loopVars, open, tableVars, procVars, waiter, cmdVars, history>>

ReaderSends(r) ==
    /\ reader[r] = "send"
    /\ Room("pty")
    /\ Put("pty", [req |-> r, kind |-> "data"])
    /\ ReaderGoto(r, AfterSend(r))
    /\ UNCHANGED <<loopVars, open, tableVars, procVars, waiter, cmdVars, history>>

-----------------------------------------------------------------------------
(* Commands without a PTY.                                                 *)

\* mutant: the exit code is sent first.
ReportsEagerly ==
    {<<"exit">>, <<"exit", "data">>, <<"exit", "data", "data">>, <<"error">>}

\* Standard error, standard output, and the exit code; or the error.
Reports == {<<"exit">>, <<"data", "exit">>, <<"data", "data", "exit">>, <<"error">>}

CmdEnds(r) ==
    /\ cmd[r] = "run"
    /\ cmd' = [cmd EXCEPT ![r] = "report"]
    /\ \E rep \in Reports : report' = [report EXCEPT ![r] = rep]
    /\ UNCHANGED <<loopVars, channelVars, tableVars, procVars, threadVars, history>>

CmdSends(r) ==
    /\ report[r] # <<>>
    /\ Room("cmd")
    /\ Put("cmd", [req |-> r, kind |-> Head(report[r])])
    /\ report' = [report EXCEPT ![r] = Tail(@)]
    /\ UNCHANGED <<loopVars, open, tableVars, procVars, threadVars, cmd, history>>

-----------------------------------------------------------------------------
LoopStep ==
    \/ Ping \/ ReplySend \/ InputTaken \/ End
    \/ \E r \in Ptys : SpawnPty(r) \/ SpawnFails(r) \/ Input(r) \/ Kill(r)
    \/ \E r \in Cmds : SpawnCmd(r)

ProcStep(r)   == ProcWrites(r) \/ ProcEnds(r)
WaiterStep(r) == WaiterSees(r) \/ WaitFails(r) \/ WaiterRemoves(r) \/ WaiterSends(r)
ReaderStep(r) ==
    \/ ReaderFlag(r) \/ ReaderTable(r) \/ ReaderReads(r) \/ ReaderSends(r)
    \/ ReaderFails(r)
CmdStep(r)    == CmdEnds(r) \/ CmdSends(r)

ExecutorNext ==
    \/ LoopStep
    \/ \E r \in Ptys : ProcStep(r) \/ WaiterStep(r) \/ ReaderStep(r)
    \/ \E r \in Cmds : CmdStep(r)
    \/ \E ch \in {"pty", "cmd"} : Forward(ch) \/ ForwardEnds(ch)
    \/ WsSend \/ WsFails

ExecutorSpec == ExecutorInit /\ [][ExecutorNext]_executorVars

\* Threads and tasks that can run do, and who waits for a channel or the table
\* gets it in turn (SF).  A write to the socket ends or fails, and a read returns
\* when there is output.  Nothing else is assumed of reads, which may block for
\* ever if some process keeps the terminal open, of processes, or of the main loop.
WaiterRuns(r) == WaiterSees(r) \/ WaiterRemoves(r) \/ WaiterSends(r)
ReaderRuns(r) == ReaderFlag(r) \/ ReaderTable(r) \/ ReaderReads(r) \/ ReaderSends(r)

ExecutorFairness ==
    /\ WF_executorVars(WsSend)
    /\ SF_executorVars(ReplySend)
    /\ \A ch \in {"pty", "cmd"} : SF_executorVars(Forward(ch) \/ ForwardEnds(ch))
    /\ \A r \in Ptys : SF_executorVars(WaiterRuns(r)) /\ SF_executorVars(ReaderRuns(r))
    /\ \A r \in Cmds : SF_executorVars(CmdSends(r))

FairExecutorSpec == ExecutorSpec /\ ExecutorFairness

-----------------------------------------------------------------------------
(* Properties.                                                             *)

\* The relay gets one EXIT or ERROR for a request: end of output, a kill and
\* the end of the process are seen by different threads, and only the waiter
\* reports (pty_manager.rs 190-200).
OneFinal == \A r \in Reqs : ended[r] <= 1

\* A reader may be past its look at the flag when the process ends, and hold
\* output in its hands; but it looks again before it reads more.  So at most one
\* DATA follows EXIT (pty_manager.rs 181-194, 213-262).
LateOutputBounded == \A r \in Ptys : late[r] <= 1

\* Nothing of a command without a PTY follows its final message, through two
\* channels and two tasks (cmd_executor.rs 35-66, daemon.rs 311-347).
CommandEndsLast == \A r \in Cmds : late[r] = 0

\* A process in the table has a waiter that will take it out; and its reader has
\* not stopped at the flag or the table unless the waiter is about to: neither a
\* kill nor the end of the output leaves a process that nobody reads from.  Only a
\* read that fails does (pty_manager.rs 119-150, 213-227, 338-349).
TableWatched ==
    \A r \in table :
        /\ waiter[r] \in {"wait", "remove"}
        /\ reader[r] = "done" => waiter[r] = "remove"

Ended(r) == IF r \in Ptys THEN proc[r] = "gone" ELSE cmd[r] = "report"

\* The end of a process or command reaches the relay although channels fill up,
\* unless the connection ends or an input blocks the table for good
\* (pty_manager.rs 168-194).
ExitReported ==
    []<>TableFree => \A r \in Reqs : Ended(r) ~> ended[r] > 0 \/ "ws" \notin open

\* A reader that was told to stop, by its waiter or by a kill, stops, whether or not
\* somebody still receives its events, unless a read never returns because a process
\* keeps the terminal open in silence (pty_manager.rs 213-303).
ReaderStops ==
    []<>TableFree =>
        \A r \in Ptys :
            []<>(reader[r] # "read") => (r \in exited ~> reader[r] \in {"done", "failed"})

\* The main loop comes back from the full channel of the socket, also when the
\* task that empties it has ended (daemon.rs 459-463).
ReplyReturns == loop = "reply" ~> loop # "reply"
=============================================================================
