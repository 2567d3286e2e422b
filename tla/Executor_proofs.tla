--------------------------- MODULE Executor_proofs ---------------------------
(***************************************************************************)
(* Theorems about Executor, for any processes, commands and capacities.    *)
(***************************************************************************)
EXTENDS Executor, SequenceTheorems, TLAPS

-----------------------------------------------------------------------------
(* Threads and the table.                                                  *)

\* The flag of a process that is still in the table was set by its waiter; and only
\* processes that were spawned have one.
FlagOfWaiter ==
    \A r \in Ptys :
        /\ r \in exited \cap table => waiter[r] = "remove"
        /\ waiter[r] = "none" => r \notin exited

\* The threads and processes keep their types, whatever the channels hold.
ThreadsOK ==
    /\ table  \in SUBSET Ptys
    /\ exited \in SUBSET Ptys
    /\ proc   \in [Ptys -> {"none", "running", "gone"}]
    /\ waiter \in [Ptys -> {"none", "wait", "remove", "send", "done"}]
    /\ reader \in [Ptys -> {"none", "flag", "table", "read", "send", "done", "failed"}]

\* Threads and flags are as they should be, and so is the table.
LEMMA ThreadsHold == ExecutorSpec => [](ThreadsOK /\ FlagOfWaiter /\ TableWatched)
<1> DEFINE IInv == ThreadsOK /\ FlagOfWaiter /\ TableWatched
<1>1. ExecutorInit => IInv
  BY DEF ExecutorInit, ThreadsOK, FlagOfWaiter, TableWatched
<1>2. IInv /\ [ExecutorNext]_executorVars => IInv'
  <2> SUFFICES ASSUME ThreadsOK, FlagOfWaiter, TableWatched, [ExecutorNext]_executorVars
               PROVE  ThreadsOK' /\ FlagOfWaiter' /\ TableWatched'
    OBVIOUS
  <2> USE DEF ThreadsOK, FlagOfWaiter, TableWatched, tableVars, procVars, threadVars
  <2>1. CASE Ping \/ ReplySend \/ InputTaken
    BY <2>1 DEF Ping, ReplySend, InputTaken
  <2>2. CASE End
    BY <2>2 DEF End
  <2>3. ASSUME NEW r \in Ptys, SpawnPty(r)
        PROVE  ThreadsOK' /\ FlagOfWaiter' /\ TableWatched'
    BY <2>3 DEF SpawnPty
  <2>4. ASSUME NEW r \in Ptys, SpawnFails(r)
        PROVE  ThreadsOK' /\ FlagOfWaiter' /\ TableWatched'
    BY <2>4 DEF SpawnFails
  <2>5. ASSUME NEW r \in Ptys, Input(r) \/ Kill(r)
        PROVE  ThreadsOK' /\ FlagOfWaiter' /\ TableWatched'
    BY <2>5 DEF Input, Kill
  <2>6. ASSUME NEW r \in Cmds, SpawnCmd(r) \/ CmdStep(r)
        PROVE  ThreadsOK' /\ FlagOfWaiter' /\ TableWatched'
    BY <2>6 DEF SpawnCmd, CmdStep, CmdEnds, CmdSends
  <2>7. ASSUME NEW r \in Ptys, ProcStep(r)
        PROVE  ThreadsOK' /\ FlagOfWaiter' /\ TableWatched'
    BY <2>7 DEF ProcStep, ProcWrites, ProcEnds
  <2>8. ASSUME NEW r \in Ptys, WaiterStep(r)
        PROVE  ThreadsOK' /\ FlagOfWaiter' /\ TableWatched'
    BY <2>8 DEF WaiterStep, WaiterSees, WaitFails, WaiterFlags, WaiterRemoves, WaiterSends
  <2>9. ASSUME NEW r \in Ptys, ReaderFlag(r) \/ ReaderTable(r)
        PROVE  ThreadsOK' /\ FlagOfWaiter' /\ TableWatched'
    BY <2>9 DEF ReaderFlag, ReaderTable, ReaderGoto
  <2>10. ASSUME NEW r \in Ptys, ReaderReads(r) \/ ReaderFails(r) \/ ReaderSends(r)
         PROVE  ThreadsOK' /\ FlagOfWaiter' /\ TableWatched'
    BY <2>10 DEF ReaderReads, ReaderFails, ReaderSends, ReaderGoto, AfterSend
  <2>11. CASE \/ \E ch \in {"pty", "cmd"} : Forward(ch) \/ ForwardEnds(ch)
              \/ WsSend \/ WsFails
    BY <2>11 DEF Forward, ForwardEnds, WsSend, WsFails
  <2>12. CASE UNCHANGED executorVars
    BY <2>12 DEF executorVars
  <2> QED
    BY <2>1, <2>2, <2>3, <2>4, <2>5, <2>6, <2>7, <2>8, <2>9, <2>10, <2>11, <2>12
    DEF ExecutorNext, LoopStep, ReaderStep
<1> QED  BY <1>1, <1>2, PTL DEF ExecutorSpec

\* No process is left in the table without a thread that takes it out; and its reader
\* stops at the flag or the table only when that thread is about to, for any number of
\* kills, failing reads and failing waits (pty_manager.rs 119-150, 213-227, 338-349).
THEOREM ProcessesWatched == ExecutorSpec => []TableWatched
  BY ThreadsHold, PTL

-----------------------------------------------------------------------------
(* Types.                                                                  *)

\* What each sender puts into its channel.
PtyEvent == [req : Ptys, kind : {"data", "exit"}]
CmdEvent == [req : Cmds, kind : {"data"} \cup Final]
Own      == [req : Ptys, kind : {"error"}] \cup {[req |-> None, kind |-> "pong"]}

\* What is left of a report.
Rests == Reports \cup {<<>>}

QueuesOK ==
    /\ queue \in [Channels -> Seq(Message)]
    /\ queue["pty"] \in Seq(PtyEvent)
    /\ queue["cmd"] \in Seq(CmdEvent)
    /\ \A ch \in Channels : Len(queue[ch]) <= Cap

RoutesOK ==
    /\ loop \in {"idle", "reply", "input", "down"}
    /\ typing \in Ptys \cup {None}
    /\ IF loop = "reply" THEN reply \in Own ELSE reply = None
    /\ open \in SUBSET Channels
    /\ output \in [Ptys -> 0 .. OutputCap]
    /\ cmd \in [Cmds -> {"none", "run", "report"}]
    /\ report \in [Cmds -> Rests]
    /\ \A r \in Cmds : report[r] # <<>> => cmd[r] = "report"
    /\ ended \in [Reqs -> 0 .. Many]
    /\ late \in [Reqs -> 0 .. Many]

Typed == ThreadsOK /\ QueuesOK /\ RoutesOK

LEMMA Events ==
    /\ PtyEvent \subseteq Message
    /\ CmdEvent \subseteq Message
    /\ Own \subseteq Message
    /\ None \notin Reqs
    /\ \A m \in Message : m.kind \in Final \cup {"data"} => m.req \in Reqs
    /\ \A m \in Message : m.req \in Reqs \cup {None} /\ m.kind \in Final \cup {"data", "pong"}
  BY RequestsAssumption DEF PtyEvent, CmdEvent, Own, Message, Reqs, Final

LEMMA RestProperties ==
    ASSUME NEW rest \in Rests, rest # <<>>
    PROVE  /\ Head(rest) \in {"data"} \cup Final
           /\ Tail(rest) \in Rests
           /\ Head(rest) \in Final <=> Tail(rest) = <<>>
<1>1. rest \in Reports
  BY DEF Rests
<1>2. CASE rest = <<"exit">>
  <2>1. Head(rest) = "exit" /\ Tail(rest) = <<>>
    BY <1>2
  <2> QED  BY <2>1 DEF Final, Rests
<1>3. CASE rest = <<"error">>
  <2>1. Head(rest) = "error" /\ Tail(rest) = <<>>
    BY <1>3
  <2> QED  BY <2>1 DEF Final, Rests
<1>4. CASE rest = <<"data", "exit">>
  <2>1. Head(rest) = "data" /\ Tail(rest) = <<"exit">> /\ Tail(rest) # <<>>
    BY <1>4
  <2> QED  BY <2>1 DEF Final, Rests, Reports
<1>5. CASE rest = <<"data", "data", "exit">>
  <2>1. Head(rest) = "data" /\ Tail(rest) = <<"data", "exit">> /\ Tail(rest) # <<>>
    BY <1>5
  <2> QED  BY <2>1 DEF Final, Rests, Reports
<1> QED  BY <1>1, <1>2, <1>3, <1>4, <1>5 DEF Reports

LEMMA RestLength ==
    ASSUME NEW rest \in Rests
    PROVE  Len(rest) <= 3
<1>1. CASE rest = <<>>  BY <1>1
<1>2. CASE rest = <<"exit">>  BY <1>2
<1>3. CASE rest = <<"error">>  BY <1>3
<1>4. CASE rest = <<"data", "exit">>  BY <1>4
<1>5. CASE rest = <<"data", "data", "exit">>  BY <1>5
<1> QED  BY <1>1, <1>2, <1>3, <1>4, <1>5 DEF Rests, Reports

\* The channels stay what they are when a message is put into one of them ...
LEMMA PutType ==
    ASSUME QueuesOK, NEW ch \in Channels, NEW m \in Message,
           ch = "pty" => m \in PtyEvent,
           ch = "cmd" => m \in CmdEvent,
           Room(ch), Put(ch, m)
    PROVE  QueuesOK'
<1>1. CASE ch \notin open
  BY <1>1 DEF Put, QueuesOK
<1>2. CASE ch \in open
  <2>1. queue' = [queue EXCEPT ![ch] = Append(queue[ch], m)]
    BY <1>2 DEF Put, QueuesOK
  <2>2. /\ Append(queue[ch], m) \in Seq(Message)
        /\ Len(Append(queue[ch], m)) = Len(queue[ch]) + 1
    BY AppendProperties DEF QueuesOK
  <2>3. Len(queue[ch]) \in Nat
    BY LenProperties DEF QueuesOK
  <2>4. Len(queue[ch]) < Cap /\ Cap \in Nat
    BY <1>2, CapAssumption DEF Room
  <2>5. queue'["pty"] \in Seq(PtyEvent)
    BY <2>1, AppendProperties DEF QueuesOK, Channels
  <2>6. queue'["cmd"] \in Seq(CmdEvent)
    BY <2>1, AppendProperties DEF QueuesOK, Channels
  <2> QED  BY <2>1, <2>2, <2>3, <2>4, <2>5, <2>6 DEF QueuesOK
<1> QED  BY <1>1, <1>2

\* ... taken out of one ...
LEMMA TakeType ==
    ASSUME QueuesOK, NEW ch \in Channels, queue[ch] # <<>>,
           queue' = [queue EXCEPT ![ch] = Tail(@)]
    PROVE  QueuesOK'
<1>1. /\ Tail(queue[ch]) \in Seq(Message)
      /\ Len(Tail(queue[ch])) = Len(queue[ch]) - 1
  BY HeadTailProperties DEF QueuesOK
<1>2. Len(queue[ch]) \in Nat /\ Len(queue[ch]) <= Cap /\ Cap \in Nat
  BY LenProperties, CapAssumption DEF QueuesOK
<1>3. queue'["pty"] \in Seq(PtyEvent)
  BY HeadTailProperties DEF QueuesOK, Channels
<1>4. queue'["cmd"] \in Seq(CmdEvent)
  BY HeadTailProperties DEF QueuesOK, Channels
<1> QED  BY <1>1, <1>2, <1>3, <1>4 DEF QueuesOK

\* ... moved from one to another ...
LEMMA ForwardType ==
    ASSUME QueuesOK, NEW ch \in {"pty", "cmd"}, Forward(ch)
    PROVE  QueuesOK' /\ Head(queue[ch]) \in Message
<1>1. /\ queue' = [queue EXCEPT ![ch] = Tail(queue[ch]), !["ws"] = Append(queue["ws"], Head(queue[ch]))]
      /\ queue[ch] # <<>> /\ "ws" \in open /\ Room("ws")
      /\ ch \in Channels /\ "ws" \in Channels /\ ch # "ws"
  BY DEF Forward, QueuesOK, Channels
<1>2. /\ Tail(queue[ch]) \in Seq(Message)
      /\ Len(Tail(queue[ch])) = Len(queue[ch]) - 1
      /\ Head(queue[ch]) \in Message
  BY <1>1, HeadTailProperties DEF QueuesOK
<1>3. /\ Append(queue["ws"], Head(queue[ch])) \in Seq(Message)
      /\ Len(Append(queue["ws"], Head(queue[ch]))) = Len(queue["ws"]) + 1
  BY <1>1, <1>2, AppendProperties DEF QueuesOK
<1>4. /\ Len(queue[ch]) \in Nat /\ Len(queue["ws"]) \in Nat
      /\ Len(queue[ch]) <= Cap /\ Len(queue["ws"]) < Cap /\ Cap \in Nat
  BY <1>1, LenProperties, CapAssumption DEF QueuesOK, Room
<1>5. /\ queue'[ch] = Tail(queue[ch])
      /\ queue'["ws"] = Append(queue["ws"], Head(queue[ch]))
      /\ \A c \in Channels \ {ch, "ws"} : queue'[c] = queue[c]
      /\ queue' \in [Channels -> Seq(Message)]
  BY <1>1, <1>2, <1>3 DEF QueuesOK
<1>6. \A c \in Channels : Len(queue'[c]) <= Cap
  <2>1. Len(queue'[ch]) <= Cap  BY <1>2, <1>4, <1>5
  <2>2. Len(queue'["ws"]) <= Cap  BY <1>3, <1>4, <1>5
  <2> QED  BY <1>5, <2>1, <2>2 DEF QueuesOK
<1>7. ch = "pty" => Tail(queue[ch]) \in Seq(PtyEvent)
  BY <1>1, HeadTailProperties DEF QueuesOK
<1>8. ch = "cmd" => Tail(queue[ch]) \in Seq(CmdEvent)
  BY <1>1, HeadTailProperties DEF QueuesOK
<1>9. queue'["pty"] \in Seq(PtyEvent) /\ queue'["cmd"] \in Seq(CmdEvent)
  BY <1>5, <1>7, <1>8 DEF QueuesOK, Channels
<1> QED  BY <1>2, <1>5, <1>6, <1>9 DEF QueuesOK

\* ... or thrown away.
LEMMA DropType ==
    ASSUME QueuesOK, NEW C \in SUBSET Channels,
           queue' = [ch \in Channels |-> IF ch \in C THEN <<>> ELSE queue[ch]]
    PROVE  QueuesOK'
<1>1. /\ <<>> \in Seq(Message) /\ <<>> \in Seq(PtyEvent) /\ <<>> \in Seq(CmdEvent)
      /\ Len(<<>>) = 0 /\ Cap \in Nat
  BY EmptySeq, CapAssumption
<1> QED  BY <1>1 DEF QueuesOK, Channels

\* What a step does to the channels, if anything.
LEMMA QueuesStep ==
    ASSUME QueuesOK, RoutesOK, [ExecutorNext]_executorVars
    PROVE  QueuesOK'
<1> USE DEF loopVars, channelVars, tableVars, procVars, threadVars, cmdVars, history
<1>1. ASSUME UNCHANGED queue  PROVE QueuesOK'
  BY <1>1 DEF QueuesOK
<1>2. CASE ReplySend
  <2>1. reply \in Own /\ reply \in Message
    BY <1>2, Events DEF ReplySend, RoutesOK
  <2> QED  BY <1>2, <2>1, PutType DEF ReplySend, Channels
<1>3. CASE End
  BY <1>3, DropType DEF End
<1>4. CASE Ping \/ InputTaken
  BY <1>1, <1>4 DEF Ping, InputTaken
<1>5. ASSUME NEW r \in Ptys, SpawnPty(r) \/ SpawnFails(r) \/ Input(r) \/ Kill(r)
      PROVE  QueuesOK'
  BY <1>1, <1>5 DEF SpawnPty, SpawnFails, Input, Kill
<1>6. ASSUME NEW r \in Cmds, SpawnCmd(r) \/ CmdEnds(r)
      PROVE  QueuesOK'
  BY <1>1, <1>6 DEF SpawnCmd, CmdEnds
<1>7. ASSUME NEW r \in Cmds, CmdSends(r)
      PROVE  QueuesOK'
  <2>1. Head(report[r]) \in {"data"} \cup Final
    BY <1>7, RestProperties DEF CmdSends, RoutesOK
  <2>2. [req |-> r, kind |-> Head(report[r])] \in CmdEvent
    BY <2>1 DEF CmdEvent
  <2> QED  BY <1>7, <2>2, Events, PutType DEF CmdSends, Channels
<1>8. ASSUME NEW r \in Ptys, ProcStep(r)
      PROVE  QueuesOK'
  BY <1>1, <1>8 DEF ProcStep, ProcWrites, ProcEnds
<1>9. ASSUME NEW r \in Ptys, WaiterSees(r) \/ WaitFails(r) \/ WaiterRemoves(r)
      PROVE  QueuesOK'
  BY <1>1, <1>9 DEF WaiterSees, WaitFails, WaiterFlags, WaiterRemoves
<1>10. ASSUME NEW r \in Ptys, WaiterSends(r)
       PROVE  QueuesOK'
  <2>1. [req |-> r, kind |-> "exit"] \in PtyEvent
    BY DEF PtyEvent
  <2> QED  BY <1>10, <2>1, Events, PutType DEF WaiterSends, Channels
<1>11. ASSUME NEW r \in Ptys, ReaderFlag(r) \/ ReaderTable(r) \/ ReaderReads(r) \/ ReaderFails(r)
       PROVE  QueuesOK'
  BY <1>1, <1>11 DEF ReaderFlag, ReaderTable, ReaderReads, ReaderFails
<1>12. ASSUME NEW r \in Ptys, ReaderSends(r)
       PROVE  QueuesOK'
  <2>1. [req |-> r, kind |-> "data"] \in PtyEvent
    BY DEF PtyEvent
  <2> QED  BY <1>12, <2>1, Events, PutType DEF ReaderSends, Channels
<1>13. ASSUME NEW ch \in {"pty", "cmd"}, Forward(ch)
       PROVE  QueuesOK'
  BY <1>13, ForwardType
<1>14. ASSUME NEW ch \in {"pty", "cmd"}, ForwardEnds(ch)
       PROVE  QueuesOK'
  <2>1. queue' = [c \in Channels |-> IF c \in {ch} THEN <<>> ELSE queue[c]]
    BY <1>14 DEF ForwardEnds, QueuesOK
  <2> QED  BY <2>1, DropType DEF Channels
<1>15. CASE WsSend
  BY <1>15, TakeType DEF WsSend, Channels
<1>16. CASE WsFails
  <2>1. queue' = [c \in Channels |-> IF c \in {"ws"} THEN <<>> ELSE queue[c]]
    BY <1>16 DEF WsFails, QueuesOK
  <2> QED  BY <2>1, DropType DEF Channels
<1>17. CASE UNCHANGED executorVars
  BY <1>1, <1>17 DEF executorVars
<1> QED
  BY <1>2, <1>3, <1>4, <1>5, <1>6, <1>7, <1>8, <1>9, <1>10, <1>11, <1>12, <1>13, <1>14,
     <1>15, <1>16, <1>17
  DEF ExecutorNext, LoopStep, ReaderStep, WaiterStep, CmdStep

LEMMA RoutesStep ==
    ASSUME ThreadsOK, QueuesOK, RoutesOK, [ExecutorNext]_executorVars
    PROVE  RoutesOK'
<1> USE DEF RoutesOK, loopVars, channelVars, tableVars, procVars, threadVars, cmdVars, history
<1>1. CASE Ping \/ InputTaken
  BY <1>1 DEF Ping, Send, InputTaken, Own
<1>2. CASE ReplySend
  BY <1>2 DEF ReplySend
<1>3. CASE End
  BY <1>3 DEF End
<1>4. ASSUME NEW r \in Ptys, SpawnPty(r)
      PROVE  RoutesOK'
  BY <1>4 DEF SpawnPty
<1>5. ASSUME NEW r \in Ptys, SpawnFails(r)
      PROVE  RoutesOK'
  BY <1>5 DEF SpawnFails, Send, Own
<1>6. ASSUME NEW r \in Ptys, Input(r) \/ Kill(r)
      PROVE  RoutesOK'
  BY <1>6 DEF Input, Kill
<1>7. ASSUME NEW r \in Cmds, SpawnCmd(r) \/ CmdEnds(r)
      PROVE  RoutesOK'
  BY <1>7 DEF SpawnCmd, CmdEnds, Rests
<1>8. ASSUME NEW r \in Cmds, CmdSends(r)
      PROVE  RoutesOK'
  <2>1. Tail(report[r]) \in Rests
    BY <1>8, RestProperties DEF CmdSends
  <2> QED  BY <1>8, <2>1 DEF CmdSends
<1>9. ASSUME NEW r \in Ptys, ProcStep(r)
      PROVE  RoutesOK'
  BY <1>9, CapAssumption DEF ProcStep, ProcWrites, ProcEnds
<1>10. ASSUME NEW r \in Ptys, WaiterStep(r)
       PROVE  RoutesOK'
  BY <1>10 DEF WaiterStep, WaiterSees, WaitFails, WaiterFlags, WaiterRemoves, WaiterSends
<1>11. ASSUME NEW r \in Ptys, ReaderStep(r)
       PROVE  RoutesOK'
  BY <1>11, CapAssumption
  DEF ReaderStep, ReaderFlag, ReaderTable, ReaderReads, ReaderFails, ReaderSends
<1>12. ASSUME NEW ch \in {"pty", "cmd"}, Forward(ch) \/ ForwardEnds(ch)
       PROVE  RoutesOK'
  BY <1>12 DEF Forward, ForwardEnds
<1>13. CASE WsSend
  <2>1. \A n \in 0 .. Many : AtMostMany(n + 1) \in 0 .. Many
    BY DEF AtMostMany, Many
  <2>2. Head(queue["ws"]) \in Message
    BY <1>13, HeadTailProperties DEF WsSend, QueuesOK, Channels
  <2>3. Received(Head(queue["ws"]))
    BY <1>13 DEF WsSend
  <2> DEFINE m == Head(queue["ws"])
  <2>4. m.kind \in Final \cup {"data"} => m.req \in Reqs
    BY <2>2, Events
  <2>5. ended' \in [Reqs -> 0 .. Many] /\ late' \in [Reqs -> 0 .. Many]
    <3> HIDE DEF m
    <3>1. CASE m.kind \in Final
      <4>1. m.req \in Reqs /\ late' = late
        BY <2>3, <2>4, <3>1 DEF Received, m
      <4>2. ended' = [ended EXCEPT ![m.req] = AtMostMany(ended[m.req] + 1)]
        BY <2>3, <3>1, <4>1 DEF Received, m
      <4>3. AtMostMany(ended[m.req] + 1) \in 0 .. Many
        BY <2>1, <4>1
      <4> QED  BY <4>1, <4>2, <4>3
    <3>2. CASE m.kind \notin Final
      <4>1. ended' = ended
        BY <2>3, <3>2 DEF Received, m
      <4>2. CASE m.kind = "data" /\ ended[m.req] > 0
        <5>1. m.req \in Reqs
          BY <2>4, <4>2
        <5>2. late' = [late EXCEPT ![m.req] = AtMostMany(late[m.req] + 1)]
          BY <2>3, <3>2, <4>2, <5>1 DEF Received, m
        <5>3. AtMostMany(late[m.req] + 1) \in 0 .. Many
          BY <2>1, <5>1
        <5> QED  BY <4>1, <5>1, <5>2, <5>3
      <4>3. CASE ~(m.kind = "data" /\ ended[m.req] > 0)
        BY <2>3, <3>2, <4>1, <4>3 DEF Received, m
      <4> QED  BY <4>2, <4>3
    <3> QED  BY <3>1, <3>2
  <2> QED  BY <1>13, <2>5 DEF WsSend
<1>14. CASE WsFails
  BY <1>14 DEF WsFails
<1>15. CASE UNCHANGED executorVars
  BY <1>15 DEF executorVars
<1> QED
  BY <1>1, <1>2, <1>3, <1>4, <1>5, <1>6, <1>7, <1>8, <1>9, <1>10, <1>11, <1>12, <1>13, <1>14,
     <1>15
  DEF ExecutorNext, LoopStep, CmdStep

LEMMA TypesHold == ExecutorSpec => []Typed
<1>1. ExecutorInit => QueuesOK /\ RoutesOK
  <2>1. /\ <<>> \in Seq(Message) /\ <<>> \in Seq(PtyEvent) /\ <<>> \in Seq(CmdEvent)
        /\ Len(<<>>) = 0 /\ Cap \in Nat /\ OutputCap \in Nat
    BY EmptySeq, CapAssumption
  <2> QED  BY <2>1 DEF ExecutorInit, QueuesOK, RoutesOK, Channels, Rests, Many
<1>2. ThreadsOK /\ QueuesOK /\ RoutesOK /\ [ExecutorNext]_executorVars => QueuesOK' /\ RoutesOK'
  BY QueuesStep, RoutesStep
<1> QED  BY <1>1, <1>2, ThreadsHold, PTL DEF ExecutorSpec, Typed

\* Threads, tasks, channels and what the relay got are what they should be, and
\* no channel holds more than its capacity.
THEOREM TypeCorrect == ExecutorSpec => []ExecutorTypeOK
<1>1. Typed => ExecutorTypeOK
  <2> SUFFICES ASSUME Typed  PROVE ExecutorTypeOK
    OBVIOUS
  <2>1. \A ch \in Channels : \A i \in 1 .. Len(queue[ch]) : queue[ch][i] \in Message
    BY ElementOfSeq DEF Typed, QueuesOK
  <2>2. \A r \in Cmds : Len(report[r]) <= 3
    BY RestLength DEF Typed, RoutesOK
  <2>3. reply \in Message \cup {None}
    BY Events DEF Typed, RoutesOK
  <2> QED
    BY <2>1, <2>2, <2>3 DEF Typed, ThreadsOK, QueuesOK, RoutesOK, ExecutorTypeOK
<1> QED  BY <1>1, TypesHold, PTL

-----------------------------------------------------------------------------
(* What the channels hold of a request.                                    *)

Pos == Nat \ {0}

Data == {"data"}

\* The i-th message in a channel is one of r's, of a kind in K.
Holds(ch, r, K, i) ==
    /\ i \in 1 .. Len(queue[ch])
    /\ queue[ch][i].req = r
    /\ queue[ch][i].kind \in K

LEMMA HoldsWithin ==
    ASSUME QueuesOK, NEW ch \in Channels
    PROVE  /\ Len(queue[ch]) \in Nat
           /\ \A r, K, i : Holds(ch, r, K, i) => i <= Len(queue[ch]) /\ i \in Pos
  BY LenProperties DEF QueuesOK, Holds, Pos

LEMMA SameHolds ==
    ASSUME UNCHANGED queue
    PROVE  \A ch, r, K, i : Holds(ch, r, K, i)' <=> Holds(ch, r, K, i)
  BY DEF Holds

LEMMA PutHolds ==
    ASSUME QueuesOK, NEW ch \in Channels, NEW m \in Message, Put(ch, m)
    PROVE  \A c \in Channels, i \in Pos : \A r, K :
             Holds(c, r, K, i)' <=>
               \/ Holds(c, r, K, i)
               \/ /\ c = ch /\ ch \in open /\ i = Len(queue[ch]) + 1
                  /\ m.req = r /\ m.kind \in K
<1>1. CASE ch \notin open
  BY <1>1, SameHolds DEF Put
<1>2. CASE ch \in open
  <2>1. /\ queue'[ch] = Append(queue[ch], m)
        /\ \A c \in Channels \ {ch} : queue'[c] = queue[c]
    BY <1>2 DEF Put, QueuesOK
  <2>2. /\ Len(queue[ch]) \in Nat
        /\ Len(queue'[ch]) = Len(queue[ch]) + 1
        /\ \A i \in 1 .. Len(queue[ch]) : queue'[ch][i] = queue[ch][i]
        /\ queue'[ch][Len(queue[ch]) + 1] = m
    BY <2>1, AppendProperties, LenProperties DEF QueuesOK
  <2>3. ASSUME NEW i \in Pos, NEW r, NEW K
        PROVE  Holds(ch, r, K, i)' <=>
                 \/ Holds(ch, r, K, i)
                 \/ i = Len(queue[ch]) + 1 /\ m.req = r /\ m.kind \in K
    <3>1. CASE i \in 1 .. Len(queue[ch])
      BY <2>2, <3>1 DEF Holds
    <3>2. CASE i = Len(queue[ch]) + 1
      BY <2>2, <3>2 DEF Holds
    <3>3. CASE i > Len(queue[ch]) + 1
      BY <2>2, <3>3 DEF Holds
    <3> QED  BY <2>2, <3>1, <3>2, <3>3 DEF Pos
  <2>4. ASSUME NEW c \in Channels \ {ch}, NEW i \in Pos, NEW r, NEW K
        PROVE  Holds(c, r, K, i)' <=> Holds(c, r, K, i)
    BY <2>1 DEF Holds
  <2> QED  BY <1>2, <2>3, <2>4
<1> QED  BY <1>1, <1>2

LEMMA TakeHolds ==
    ASSUME QueuesOK, NEW ch \in Channels, queue[ch] # <<>>,
           queue'[ch] = Tail(queue[ch])
    PROVE  \A i \in Pos : \A r, K : Holds(ch, r, K, i)' <=> Holds(ch, r, K, i + 1)
<1>1. /\ Len(queue[ch]) \in Nat
      /\ Len(queue'[ch]) = Len(queue[ch]) - 1
      /\ \A i \in 1 .. Len(queue'[ch]) : queue'[ch][i] = queue[ch][i + 1]
  BY HeadTailProperties, LenProperties DEF QueuesOK
<1> SUFFICES ASSUME NEW i \in Pos, NEW r, NEW K
             PROVE  Holds(ch, r, K, i)' <=> Holds(ch, r, K, i + 1)
  OBVIOUS
<1>2. i \in 1 .. Len(queue'[ch]) <=> i + 1 \in 1 .. Len(queue[ch])
  BY <1>1 DEF Pos
<1> QED  BY <1>1, <1>2 DEF Holds

LEMMA HeadHolds ==
    ASSUME QueuesOK, NEW ch \in Channels, queue[ch] # <<>>
    PROVE  \A r, K : Holds(ch, r, K, 1) <=> Head(queue[ch]).req = r /\ Head(queue[ch]).kind \in K
<1>1. Len(queue[ch]) \in Nat \ {0} /\ Head(queue[ch]) = queue[ch][1]
  BY EmptySeq DEF QueuesOK
<1> QED  BY <1>1 DEF Holds

LEMMA ForwardHolds ==
    ASSUME QueuesOK, NEW ch \in {"pty", "cmd"}, Forward(ch)
    PROVE  \A i \in Pos : \A r, K :
             /\ Holds(ch, r, K, i)' <=> Holds(ch, r, K, i + 1)
             /\ Holds("ws", r, K, i)' <=>
                  \/ Holds("ws", r, K, i)
                  \/ i = Len(queue["ws"]) + 1 /\ Holds(ch, r, K, 1)
             /\ \A c \in Channels \ {ch, "ws"} : Holds(c, r, K, i)' <=> Holds(c, r, K, i)
<1>1. /\ queue'[ch] = Tail(queue[ch])
      /\ queue'["ws"] = Append(queue["ws"], Head(queue[ch]))
      /\ \A c \in Channels \ {ch, "ws"} : queue'[c] = queue[c]
      /\ queue[ch] # <<>>
      /\ ch \in Channels /\ "ws" \in Channels
  BY DEF Forward, QueuesOK, Channels
<1>2. \A i \in Pos : \A r, K : Holds(ch, r, K, i)' <=> Holds(ch, r, K, i + 1)
  BY <1>1, TakeHolds
<1>3. ASSUME NEW i \in Pos, NEW r, NEW K
      PROVE  Holds("ws", r, K, i)' <=>
               \/ Holds("ws", r, K, i)
               \/ i = Len(queue["ws"]) + 1 /\ Holds(ch, r, K, 1)
  <2>1. /\ Len(queue["ws"]) \in Nat
        /\ Len(queue'["ws"]) = Len(queue["ws"]) + 1
        /\ \A j \in 1 .. Len(queue["ws"]) : queue'["ws"][j] = queue["ws"][j]
        /\ queue'["ws"][Len(queue["ws"]) + 1] = Head(queue[ch])
    BY <1>1, ForwardType, AppendProperties, LenProperties DEF QueuesOK
  <2>2. Holds(ch, r, K, 1) <=> Head(queue[ch]).req = r /\ Head(queue[ch]).kind \in K
    BY <1>1, HeadHolds
  <2>3. CASE i \in 1 .. Len(queue["ws"])
    BY <2>1, <2>3 DEF Holds
  <2>4. CASE i = Len(queue["ws"]) + 1
    BY <2>1, <2>2, <2>4 DEF Holds
  <2>5. CASE i > Len(queue["ws"]) + 1
    BY <2>1, <2>5 DEF Holds
  <2> QED  BY <2>1, <2>3, <2>4, <2>5 DEF Pos
<1>4. ASSUME NEW i \in Pos, NEW r, NEW K, NEW c \in Channels \ {ch, "ws"}
      PROVE  Holds(c, r, K, i)' <=> Holds(c, r, K, i)
  BY <1>1 DEF Holds
<1> QED  BY <1>2, <1>3, <1>4

LEMMA DropHolds ==
    ASSUME QueuesOK, NEW C \in SUBSET Channels,
           queue' = [ch \in Channels |-> IF ch \in C THEN <<>> ELSE queue[ch]]
    PROVE  \A ch \in Channels : \A r, K, i :
             Holds(ch, r, K, i)' <=> ch \notin C /\ Holds(ch, r, K, i)
  BY DEF Holds

\* The relay gets the first message of the channel of the socket.
LEMMA SendHolds ==
    ASSUME Typed, NEW r \in Reqs, WsSend
    PROVE  /\ \A i \in Pos : \A K :
                /\ Holds("ws", r, K, i)' <=> Holds("ws", r, K, i + 1)
                /\ \A c \in Channels \ {"ws"} : Holds(c, r, K, i)' <=> Holds(c, r, K, i)
           /\ Holds("ws", r, Final, 1) =>
                ended'[r] = AtMostMany(ended[r] + 1) /\ late'[r] = late[r]
           /\ ~Holds("ws", r, Final, 1) =>
                /\ ended'[r] = ended[r]
                /\ late'[r] = IF Holds("ws", r, Data, 1) /\ ended[r] > 0
                                THEN AtMostMany(late[r] + 1) ELSE late[r]
<1> DEFINE m == Head(queue["ws"])
<1>1. queue'["ws"] = Tail(queue["ws"]) /\ queue["ws"] # <<>> /\ "ws" \in Channels
  BY DEF WsSend, Typed, QueuesOK, Channels
<1>2. ASSUME NEW c \in Channels \ {"ws"}  PROVE queue'[c] = queue[c]
  BY DEF WsSend, Typed, QueuesOK, Channels
<1>3. \A i \in Pos : \A K : Holds("ws", r, K, i)' <=> Holds("ws", r, K, i + 1)
  BY <1>1, TakeHolds DEF Typed
<1>4. ASSUME NEW i \in Pos, NEW K, NEW c \in Channels \ {"ws"}
      PROVE  Holds(c, r, K, i)' <=> Holds(c, r, K, i)
  BY <1>2 DEF Holds
<1>5. \A K : Holds("ws", r, K, 1) <=> m.req = r /\ m.kind \in K
  BY <1>1, HeadHolds DEF Typed
<1>6. /\ Received(m)
      /\ ended \in [Reqs -> 0 .. Many] /\ late \in [Reqs -> 0 .. Many]
  BY DEF WsSend, Typed, RoutesOK
<1> HIDE DEF m
<1>7. CASE Holds("ws", r, Final, 1)
  <2>1. ended'[r] = AtMostMany(ended[r] + 1) /\ late'[r] = late[r]
    BY <1>5, <1>6, <1>7 DEF Received
  <2> QED  BY <1>3, <1>4, <1>7, <2>1
<1>8. CASE ~Holds("ws", r, Final, 1)
  <2>1. ended'[r] = ended[r]
    BY <1>5, <1>6, <1>8 DEF Received
  <2>2. CASE m.req = r
    <3>1. m.kind \notin Final /\ (Holds("ws", r, Data, 1) <=> m.kind = "data")
      BY <1>5, <1>8, <2>2 DEF Data
    <3>2. late'[r] = IF m.kind = "data" /\ ended[r] > 0 THEN AtMostMany(late[r] + 1) ELSE late[r]
      BY <1>6, <2>2, <3>1 DEF Received
    <3> QED  BY <3>1, <3>2, <2>1, <1>3, <1>4, <1>8
  <2>3. CASE m.req # r
    <3>1. ~Holds("ws", r, Data, 1) /\ late'[r] = late[r]
      BY <1>5, <1>6, <2>3 DEF Received
    <3> QED  BY <3>1, <2>1, <1>3, <1>4, <1>8
  <2> QED  BY <2>2, <2>3
<1> QED  BY <1>7, <1>8

-----------------------------------------------------------------------------
(* One final message.                                                      *)

\* Nobody will report the end of r any more.
Spent(r) == IF r \in Ptys THEN waiter[r] = "done" ELSE cmd[r] = "report" /\ report[r] = <<>>

\* The main loop is about to report that r could not be spawned.
Replies(r) == loop = "reply" /\ reply.req = r

\* Who reports the end has spent the right to do so, and the report is in one
\* place: with the main loop, in a channel, or with the relay.
FinalOnce(r) ==
    /\ \A c, d \in Channels, i, j \in Pos :
         Holds(c, r, Final, i) /\ Holds(d, r, Final, j) => c = d /\ i = j
    /\ \A c \in Channels, i \in Pos :
         Holds(c, r, Final, i) => ended[r] = 0 /\ ~Replies(r) /\ Spent(r)
    /\ Replies(r) => Spent(r) /\ ended[r] = 0
    /\ ended[r] > 0 => Spent(r) /\ ended[r] = 1
    /\ late[r] > 0 => ended[r] > 0

\* A step that reports no end.
LEMMA FinalKept ==
    ASSUME NEW r \in Reqs, FinalOnce(r),
           \A c \in Channels, i \in Pos : Holds(c, r, Final, i)' => Holds(c, r, Final, i),
           ended'[r] = ended[r], late'[r] = late[r],
           Spent(r) => Spent(r)', Replies(r)' => Replies(r)
    PROVE  FinalOnce(r)'
  BY DEF FinalOnce

\* A step that reports the end of r in a channel.
LEMMA FinalPut ==
    ASSUME NEW r \in Reqs, FinalOnce(r), NEW ch \in Channels, NEW n \in Pos,
           ~Spent(r),
           \A c \in Channels, i \in Pos :
             Holds(c, r, Final, i)' => Holds(c, r, Final, i) \/ (c = ch /\ i = n),
           ended[r] \in Nat,
           ended'[r] = ended[r], late'[r] = late[r],
           Spent(r)', Replies(r)' => Replies(r)
    PROVE  FinalOnce(r)'
  BY DEF FinalOnce

LEMMA FinalStep ==
    ASSUME Typed, [ExecutorNext]_executorVars, NEW r \in Reqs, FinalOnce(r)
    PROVE  FinalOnce(r)'
<1> USE DEF loopVars, channelVars, tableVars, procVars, threadVars, cmdVars, history
<1> DEFINE Quiet == \A c \in Channels, i \in Pos : Holds(c, r, Final, i)' => Holds(c, r, Final, i)
<1>1. ASSUME UNCHANGED queue  PROVE Quiet
  BY <1>1, SameHolds
<1>2. CASE Ping \/ InputTaken
  <2>1. Replies(r)' => Replies(r)
    BY <1>2, RequestsAssumption DEF Ping, InputTaken, Send, Replies
  <2>2. Spent(r) => Spent(r)'
    BY <1>2 DEF Ping, InputTaken, Spent
  <2> QED  BY <1>1, <1>2, <2>1, <2>2, FinalKept DEF Ping, InputTaken
<1>3. CASE ReplySend
  <2>1. reply \in Own /\ reply \in Message
    BY <1>3, Events DEF ReplySend, Typed, RoutesOK
  <2>2. \A c \in Channels, i \in Pos :
          Holds(c, r, Final, i)' <=>
            \/ Holds(c, r, Final, i)
            \/ /\ c = "ws" /\ "ws" \in open /\ i = Len(queue["ws"]) + 1
               /\ reply.req = r /\ reply.kind \in Final
    BY <1>3, <2>1, PutHolds DEF ReplySend, Channels, Typed
  <2>3. /\ Replies(r) <=> reply.req = r
        /\ ~Replies(r)'
        /\ Spent(r)' <=> Spent(r)
        /\ ended' = ended /\ late' = late
    BY <1>3 DEF ReplySend, Replies, Spent
  <2> QED  BY <2>2, <2>3 DEF FinalOnce
<1>4. CASE End
  <2>1. Quiet
    BY <1>4, DropHolds DEF End, Typed
  <2>2. (Spent(r) => Spent(r)') /\ (Replies(r)' => Replies(r))
    BY <1>4 DEF End, Spent, Replies
  <2> QED  BY <1>4, <2>1, <2>2, FinalKept DEF End
<1>5. ASSUME NEW p \in Ptys, SpawnPty(p)
      PROVE  FinalOnce(r)'
  <2>1. (Spent(r) => Spent(r)') /\ (Replies(r)' => Replies(r))
    BY <1>5 DEF SpawnPty, Spent, Replies, Typed, ThreadsOK
  <2> QED  BY <1>1, <1>5, <2>1, FinalKept DEF SpawnPty
<1>6. ASSUME NEW p \in Ptys, SpawnFails(p)
      PROVE  FinalOnce(r)'
  <2>1. /\ Spent(r) => Spent(r)'
        /\ p = r => ~Spent(r) /\ Spent(r)' /\ ended[r] = 0
        /\ Replies(r)' => p = r
    BY <1>6 DEF SpawnFails, Send, Spent, Replies, Typed, ThreadsOK
  <2>2. Quiet /\ ended' = ended /\ late' = late
    BY <1>1, <1>6 DEF SpawnFails
  <2>3. CASE p = r
    BY <2>1, <2>2, <2>3 DEF FinalOnce
  <2> QED  BY <2>1, <2>2, <2>3, FinalKept
<1>7. ASSUME NEW p \in Ptys, Input(p) \/ Kill(p) \/ ProcStep(p)
      PROVE  FinalOnce(r)'
  <2>1. (Spent(r) => Spent(r)') /\ (Replies(r)' => Replies(r))
    BY <1>7 DEF Input, Kill, ProcStep, ProcWrites, ProcEnds, Spent, Replies
  <2> QED
    BY <1>1, <1>7, <2>1, FinalKept DEF Input, Kill, ProcStep, ProcWrites, ProcEnds
<1>8. ASSUME NEW p \in Cmds, SpawnCmd(p) \/ CmdEnds(p)
      PROVE  FinalOnce(r)'
  <2>1. Spent(r) => Spent(r)'
    <3>1. CASE r \in Ptys
      BY <1>8, <3>1 DEF SpawnCmd, CmdEnds, Spent
    <3>2. CASE r \notin Ptys /\ r # p
      <4>1. r \in Cmds /\ cmd \in [Cmds -> {"none", "run", "report"}] /\ report \in [Cmds -> Rests]
        BY <3>2 DEF Reqs, Typed, RoutesOK
      <4>2. cmd'[r] = cmd[r] /\ report'[r] = report[r]
        BY <1>8, <3>2, <4>1 DEF SpawnCmd, CmdEnds
      <4> QED  BY <3>2, <4>2 DEF Spent
    <3>3. CASE r \notin Ptys /\ r = p
      BY <1>8, <3>3 DEF SpawnCmd, CmdEnds, Spent
    <3> QED  BY <3>1, <3>2, <3>3
  <2>2. Replies(r)' => Replies(r)
    BY <1>8 DEF SpawnCmd, CmdEnds, Replies
  <2> QED  BY <1>1, <1>8, <2>1, <2>2, FinalKept DEF SpawnCmd, CmdEnds
<1>9. ASSUME NEW p \in Cmds, CmdSends(p)
      PROVE  FinalOnce(r)'
  <2> DEFINE m == [req |-> p, kind |-> Head(report[p])]
  <2>1. /\ report[p] \in Rests /\ report[p] # <<>>
        /\ report' = [report EXCEPT ![p] = Tail(@)]
        /\ Head(report[p]) \in {"data"} \cup Final
        /\ Head(report[p]) \in Final <=> Tail(report[p]) = <<>>
    BY <1>9, RestProperties DEF CmdSends, Typed, RoutesOK
  <2>2. m \in CmdEvent /\ m \in Message /\ m.req = p /\ m.kind = Head(report[p])
    BY <2>1, Events DEF CmdEvent
  <2>3. \A c \in Channels, i \in Pos :
          Holds(c, r, Final, i)' =>
            \/ Holds(c, r, Final, i)
            \/ c = "cmd" /\ i = Len(queue["cmd"]) + 1 /\ p = r /\ Head(report[p]) \in Final
    BY <1>9, <2>2, PutHolds DEF CmdSends, Channels, Typed
  <2>4. /\ Replies(r)' => Replies(r)
        /\ ended' = ended /\ late' = late
        /\ cmd' = cmd /\ waiter' = waiter
    BY <1>9 DEF CmdSends, Replies
  <2>5. CASE p = r /\ Head(report[p]) \in Final
    <3>1. p \notin Ptys
      BY RequestsAssumption
    <3>2. ~Spent(r) /\ Spent(r)'
      BY <2>1, <2>4, <2>5, <3>1 DEF Spent, Typed, RoutesOK
    <3>3. Len(queue["cmd"]) + 1 \in Pos /\ "cmd" \in Channels /\ ended[r] \in Nat
      BY HoldsWithin DEF Channels, Pos, Typed, RoutesOK, Many
    <3> QED  BY <2>3, <2>4, <3>2, <3>3, FinalPut
  <2>6. CASE ~(p = r /\ Head(report[p]) \in Final)
    <3>1. Spent(r) => Spent(r)'
      BY <2>1, <2>4 DEF Spent, Typed, RoutesOK
    <3> QED  BY <2>3, <2>4, <2>6, <3>1, FinalKept
  <2> QED  BY <2>5, <2>6
<1>10. ASSUME NEW p \in Ptys, WaiterSees(p) \/ WaitFails(p) \/ WaiterRemoves(p)
       PROVE  FinalOnce(r)'
  <2>1. (Spent(r) => Spent(r)') /\ (Replies(r)' => Replies(r))
    BY <1>10 DEF WaiterSees, WaitFails, WaiterFlags, WaiterRemoves, Spent, Replies, Typed, ThreadsOK
  <2> QED  BY <1>1, <1>10, <2>1, FinalKept DEF WaiterSees, WaitFails, WaiterFlags, WaiterRemoves
<1>11. ASSUME NEW p \in Ptys, WaiterSends(p)
       PROVE  FinalOnce(r)'
  <2>1. [req |-> p, kind |-> "exit"] \in PtyEvent /\ [req |-> p, kind |-> "exit"] \in Message
    BY Events DEF PtyEvent
  <2>2. \A c \in Channels, i \in Pos :
          Holds(c, r, Final, i)' =>
            \/ Holds(c, r, Final, i)
            \/ c = "pty" /\ i = Len(queue["pty"]) + 1 /\ p = r
    BY <1>11, <2>1, PutHolds DEF WaiterSends, Channels, Typed
  <2>3. /\ Spent(r) => Spent(r)'
        /\ p = r => ~Spent(r) /\ Spent(r)'
        /\ Replies(r)' => Replies(r)
        /\ ended' = ended /\ late' = late
    BY <1>11 DEF WaiterSends, Spent, Replies, Typed, ThreadsOK
  <2>4. Len(queue["pty"]) + 1 \in Pos /\ "pty" \in Channels /\ ended[r] \in Nat
    BY HoldsWithin DEF Channels, Pos, Typed, RoutesOK, Many
  <2>5. CASE p = r
    BY <2>2, <2>3, <2>4, <2>5, FinalPut
  <2>6. CASE p # r
    BY <2>2, <2>3, <2>6, FinalKept
  <2> QED  BY <2>5, <2>6
<1>12. ASSUME NEW p \in Ptys, ReaderFlag(p) \/ ReaderTable(p) \/ ReaderReads(p) \/ ReaderFails(p)
       PROVE  FinalOnce(r)'
  <2>1. (Spent(r) => Spent(r)') /\ (Replies(r)' => Replies(r))
    BY <1>12 DEF ReaderFlag, ReaderTable, ReaderReads, ReaderFails, Spent, Replies
  <2> QED
    BY <1>1, <1>12, <2>1, FinalKept DEF ReaderFlag, ReaderTable, ReaderReads, ReaderFails
<1>13. ASSUME NEW p \in Ptys, ReaderSends(p)
       PROVE  FinalOnce(r)'
  <2>1. [req |-> p, kind |-> "data"] \in PtyEvent /\ [req |-> p, kind |-> "data"] \in Message
    BY Events DEF PtyEvent
  <2>2. Quiet
    BY <1>13, <2>1, PutHolds DEF ReaderSends, Channels, Typed, Final
  <2>3. (Spent(r) => Spent(r)') /\ (Replies(r)' => Replies(r))
    BY <1>13 DEF ReaderSends, Spent, Replies
  <2> QED  BY <1>13, <2>2, <2>3, FinalKept DEF ReaderSends
<1>14. ASSUME NEW ch \in {"pty", "cmd"}, Forward(ch)
       PROVE  FinalOnce(r)'
  <2>1. \A i \in Pos :
          /\ Holds(ch, r, Final, i)' <=> Holds(ch, r, Final, i + 1)
          /\ Holds("ws", r, Final, i)' <=>
               \/ Holds("ws", r, Final, i)
               \/ i = Len(queue["ws"]) + 1 /\ Holds(ch, r, Final, 1)
          /\ \A c \in Channels \ {ch, "ws"} : Holds(c, r, Final, i)' <=> Holds(c, r, Final, i)
    BY <1>14, ForwardHolds DEF Typed
  <2>2. /\ Spent(r)' <=> Spent(r)
        /\ Replies(r)' <=> Replies(r)
        /\ ended' = ended /\ late' = late
    BY <1>14 DEF Forward, Spent, Replies
  <2>3. ch \in Channels /\ "ws" \in Channels /\ ch # "ws"
    BY DEF Channels
  <2>4. 1 \in Pos /\ \A i, j \in Pos : i + 1 \in Pos /\ i + 1 # 1 /\ (i + 1 = j + 1 => i = j)
    BY DEF Pos
  <2>5. \A c, d \in Channels, i, j \in Pos :
          Holds(c, r, Final, i)' /\ Holds(d, r, Final, j)' => c = d /\ i = j
    BY <2>1, <2>3, <2>4 DEF FinalOnce
  <2>6. \A c \in Channels, i \in Pos :
          Holds(c, r, Final, i)' => ended[r] = 0 /\ ~Replies(r) /\ Spent(r)
    BY <2>1, <2>3, <2>4 DEF FinalOnce
  <2> QED  BY <2>2, <2>5, <2>6 DEF FinalOnce
<1>15. ASSUME NEW ch \in {"pty", "cmd"}, ForwardEnds(ch)
       PROVE  FinalOnce(r)'
  <2>1. queue' = [c \in Channels |-> IF c \in {ch} THEN <<>> ELSE queue[c]]
    BY <1>15 DEF ForwardEnds, QueuesOK, Typed
  <2>2. Quiet
    <3>1. {ch} \in SUBSET Channels
      BY DEF Channels
    <3>2. \A c \in Channels : \A q, K, i : Holds(c, q, K, i)' <=> c \notin {ch} /\ Holds(c, q, K, i)
      BY <2>1, <3>1, DropHolds DEF Typed
    <3> QED  BY <3>2
  <2>3. (Spent(r) => Spent(r)') /\ (Replies(r)' => Replies(r))
    BY <1>15 DEF ForwardEnds, Spent, Replies
  <2> QED  BY <1>15, <2>2, <2>3, FinalKept DEF ForwardEnds
<1>16. CASE WsSend
  <2>1. /\ \A i \in Pos :
             /\ Holds("ws", r, Final, i)' <=> Holds("ws", r, Final, i + 1)
             /\ \A c \in Channels \ {"ws"} : Holds(c, r, Final, i)' <=> Holds(c, r, Final, i)
        /\ Holds("ws", r, Final, 1) =>
             ended'[r] = AtMostMany(ended[r] + 1) /\ late'[r] = late[r]
        /\ ~Holds("ws", r, Final, 1) =>
             /\ ended'[r] = ended[r]
             /\ late'[r] = IF Holds("ws", r, Data, 1) /\ ended[r] > 0
                             THEN AtMostMany(late[r] + 1) ELSE late[r]
    BY <1>16, SendHolds
  <2>2. (Spent(r)' <=> Spent(r)) /\ (Replies(r)' <=> Replies(r))
    BY <1>16 DEF WsSend, Spent, Replies
  <2>3. /\ 1 \in Pos /\ "ws" \in Channels
        /\ \A i, j \in Pos : i + 1 \in Pos /\ i + 1 # 1 /\ (i + 1 = j + 1 => i = j)
    BY DEF Pos, Channels
  <2>4. ended[r] \in 0 .. Many /\ late[r] \in 0 .. Many
    BY DEF Typed, RoutesOK
  <2>5. CASE Holds("ws", r, Final, 1)
    <3>1. ended[r] = 0 /\ ~Replies(r) /\ Spent(r)
      BY <2>3, <2>5 DEF FinalOnce
    <3>2. ended'[r] = 1 /\ late'[r] = late[r]
      BY <2>1, <2>5, <3>1 DEF AtMostMany, Many
    <3>3. \A c \in Channels, i \in Pos : ~Holds(c, r, Final, i)'
      BY <2>1, <2>3, <2>5 DEF FinalOnce
    <3> QED  BY <2>2, <3>1, <3>2, <3>3 DEF FinalOnce
  <2>6. CASE ~Holds("ws", r, Final, 1)
    <3>1. ended'[r] = ended[r] /\ (late'[r] > 0 => late[r] > 0 \/ ended[r] > 0)
      BY <2>1, <2>4, <2>6 DEF AtMostMany, Many
    <3>2. \A c, d \in Channels, i, j \in Pos :
            Holds(c, r, Final, i)' /\ Holds(d, r, Final, j)' => c = d /\ i = j
      BY <2>1, <2>3 DEF FinalOnce
    <3>3. \A c \in Channels, i \in Pos :
            Holds(c, r, Final, i)' => ended[r] = 0 /\ ~Replies(r) /\ Spent(r)
      BY <2>1, <2>3 DEF FinalOnce
    <3> QED  BY <2>2, <3>1, <3>2, <3>3 DEF FinalOnce
  <2> QED  BY <2>5, <2>6
<1>17. CASE WsFails
  <2>1. queue' = [c \in Channels |-> IF c \in {"ws"} THEN <<>> ELSE queue[c]]
    BY <1>17 DEF WsFails, QueuesOK, Typed
  <2>2. Quiet
    BY <2>1, DropHolds DEF Typed, Channels
  <2>3. (Spent(r) => Spent(r)') /\ (Replies(r)' => Replies(r))
    BY <1>17 DEF WsFails, Spent, Replies
  <2> QED  BY <1>17, <2>2, <2>3, FinalKept DEF WsFails
<1>18. CASE UNCHANGED executorVars
  <2>1. (Spent(r) => Spent(r)') /\ (Replies(r)' => Replies(r))
    BY <1>18 DEF executorVars, Spent, Replies
  <2> QED  BY <1>1, <1>18, <2>1, FinalKept DEF executorVars
<1> QED
  BY <1>2, <1>3, <1>4, <1>5, <1>6, <1>7, <1>8, <1>9, <1>10, <1>11, <1>12, <1>13, <1>14,
     <1>15, <1>16, <1>17, <1>18
  DEF ExecutorNext, LoopStep, ReaderStep, WaiterStep, CmdStep

LEMMA FinalsHold == ExecutorSpec => [](\A r \in Reqs : FinalOnce(r))
<1>1. ExecutorInit => \A r \in Reqs : FinalOnce(r)
  BY DEF ExecutorInit, FinalOnce, Holds, Replies
<1>2. Typed /\ (\A r \in Reqs : FinalOnce(r)) /\ [ExecutorNext]_executorVars
        => (\A r \in Reqs : FinalOnce(r))'
  BY FinalStep
<1> QED  BY <1>1, <1>2, TypesHold, PTL DEF ExecutorSpec

\* The relay gets at most one EXIT or ERROR for a request, whichever thread,
\* task or loop saw its end first (pty_manager.rs 190-200).
THEOREM OneFinalMessage == ExecutorSpec => []OneFinal
<1>1. Typed /\ (\A r \in Reqs : FinalOnce(r)) => OneFinal
  BY DEF FinalOnce, OneFinal, Typed, RoutesOK
<1> QED  BY <1>1, FinalsHold, TypesHold, PTL

-----------------------------------------------------------------------------
(* The order of messages.                                                  *)

Kinds == {Final, Data}

\* A step that adds no message of r to a channel and gives none to the relay ...
Loses(r) ==
    /\ ended'[r] = ended[r] /\ late'[r] = late[r]
    /\ \A c \in Channels, i \in Pos : \A K \in Kinds : Holds(c, r, K, i)' => Holds(c, r, K, i)

\* ... and one that adds one of kind k at the end of ch.
Gains(r, ch, k) ==
    /\ ended'[r] = ended[r] /\ late'[r] = late[r]
    /\ \A c \in Channels, i \in Pos : \A K \in Kinds :
         Holds(c, r, K, i)' =>
           Holds(c, r, K, i) \/ (c = ch /\ i = Len(queue[ch]) + 1 /\ k \in K)

\* Who may put a message of r into a channel: the main loop, the waiter, the
\* reader, and the task of a command.
Sender(r, ch, k) ==
    \/ r \in Ptys /\ ch = "ws" /\ k \in Final /\ Replies(r)
    \/ r \in Ptys /\ ch = "pty" /\ k \in Final /\ waiter[r] = "send"
    \/ r \in Ptys /\ ch = "pty" /\ k \in Data /\ reader[r] = "send" /\ reader'[r] = "flag"
    \/ r \in Cmds /\ ch = "cmd" /\ report[r] # <<>>

LEMMA PutGains ==
    ASSUME Typed, NEW r \in Reqs, NEW ch \in Channels, NEW m \in Message, Put(ch, m),
           ended' = ended, late' = late
    PROVE  (m.req = r => Gains(r, ch, m.kind)) /\ (m.req # r => Loses(r))
<1>1. \A c \in Channels, i \in Pos : \A q, K :
        Holds(c, q, K, i)' =>
          \/ Holds(c, q, K, i)
          \/ c = ch /\ i = Len(queue[ch]) + 1 /\ m.req = q /\ m.kind \in K
  BY PutHolds DEF Typed
<1> QED  BY <1>1 DEF Gains, Loses

LEMMA DropLoses ==
    ASSUME Typed, NEW r \in Reqs, NEW C \in SUBSET Channels,
           queue' = [ch \in Channels |-> IF ch \in C THEN <<>> ELSE queue[ch]],
           ended' = ended, late' = late
    PROVE  Loses(r)
  BY DropHolds DEF Typed, Loses

LEMMA SameLoses ==
    ASSUME NEW r \in Reqs, UNCHANGED <<queue, ended, late>>
    PROVE  Loses(r)
  BY SameHolds DEF Loses

\* What a step means for the messages of one request.
LEMMA Effect ==
    ASSUME Typed, [ExecutorNext]_executorVars, NEW r \in Reqs
    PROVE  \/ Loses(r)
           \/ \E ch \in Channels, k \in Final \cup Data : Gains(r, ch, k) /\ Sender(r, ch, k)
           \/ \E ch \in {"pty", "cmd"} : Forward(ch)
           \/ WsSend
<1> USE DEF loopVars, channelVars, tableVars, procVars, threadVars, cmdVars, history
<1> DEFINE Adds == \E ch \in Channels, k \in Final \cup Data : Gains(r, ch, k) /\ Sender(r, ch, k)
<1>1. CASE ReplySend
  <2>1. reply \in Own /\ reply \in Message /\ "ws" \in Channels
    BY <1>1, Events DEF ReplySend, Typed, RoutesOK, Channels
  <2>2. (reply.req = r => Gains(r, "ws", reply.kind)) /\ (reply.req # r => Loses(r))
    BY <1>1, <2>1, PutGains DEF ReplySend
  <2>3. reply.req = r => r \in Ptys /\ reply.kind \in Final /\ Replies(r)
    BY <1>1, <2>1, Events DEF ReplySend, Own, Final, Replies
  <2>4. reply.req = r => Sender(r, "ws", reply.kind)
    BY <2>3 DEF Sender
  <2> QED  BY <2>1, <2>2, <2>3, <2>4
<1>2. CASE End
  BY <1>2, DropLoses DEF End
<1>3. CASE Ping \/ InputTaken
  BY <1>3, SameLoses DEF Ping, InputTaken
<1>4. ASSUME NEW p \in Ptys, SpawnPty(p) \/ SpawnFails(p) \/ Input(p) \/ Kill(p) \/ ProcStep(p)
      PROVE  Loses(r)
  BY <1>4, SameLoses
  DEF SpawnPty, SpawnFails, Input, Kill, ProcStep, ProcWrites, ProcEnds
<1>5. ASSUME NEW p \in Cmds, SpawnCmd(p) \/ CmdEnds(p)
      PROVE  Loses(r)
  BY <1>5, SameLoses DEF SpawnCmd, CmdEnds
<1>6. ASSUME NEW p \in Cmds, CmdSends(p)
      PROVE  Loses(r) \/ Adds
  <2> DEFINE m == [req |-> p, kind |-> Head(report[p])]
  <2>1. Head(report[p]) \in {"data"} \cup Final
    BY <1>6, RestProperties DEF CmdSends, Typed, RoutesOK
  <2>2. m \in CmdEvent /\ m \in Message /\ m.req = p /\ m.kind \in Final \cup Data /\ "cmd" \in Channels
    BY <2>1, Events DEF CmdEvent, Data, Channels
  <2>3. Put("cmd", m) /\ ended' = ended /\ late' = late /\ report[p] # <<>>
    BY <1>6 DEF CmdSends
  <2> HIDE DEF m
  <2>4. (p = r => Gains(r, "cmd", m.kind)) /\ (p # r => Loses(r))
    BY <2>2, <2>3, PutGains
  <2>5. p = r => Sender(r, "cmd", m.kind)
    BY <2>3 DEF Sender
  <2> QED  BY <2>2, <2>4, <2>5
<1>7. ASSUME NEW p \in Ptys, WaiterSees(p) \/ WaitFails(p) \/ WaiterRemoves(p)
      PROVE  Loses(r)
  BY <1>7, SameLoses DEF WaiterSees, WaitFails, WaiterFlags, WaiterRemoves
<1>8. ASSUME NEW p \in Ptys, WaiterSends(p)
      PROVE  Loses(r) \/ Adds
  <2> DEFINE m == [req |-> p, kind |-> "exit"]
  <2>1. m \in Message /\ m.req = p /\ m.kind = "exit" /\ "exit" \in Final /\ "pty" \in Channels
    BY Events DEF PtyEvent, Channels, Final
  <2>2. Put("pty", m) /\ ended' = ended /\ late' = late /\ waiter[p] = "send"
    BY <1>8 DEF WaiterSends
  <2> HIDE DEF m
  <2>3. (p = r => Gains(r, "pty", "exit")) /\ (p # r => Loses(r))
    BY <2>1, <2>2, PutGains
  <2>4. p = r => Sender(r, "pty", "exit")
    BY <2>1, <2>2 DEF Sender
  <2> QED  BY <2>1, <2>3, <2>4
<1>9. ASSUME NEW p \in Ptys, ReaderFlag(p) \/ ReaderTable(p) \/ ReaderReads(p) \/ ReaderFails(p)
      PROVE  Loses(r)
  BY <1>9, SameLoses DEF ReaderFlag, ReaderTable, ReaderReads, ReaderFails
<1>10. ASSUME NEW p \in Ptys, ReaderSends(p)
       PROVE  Loses(r) \/ Adds
  <2> DEFINE m == [req |-> p, kind |-> "data"]
  <2>1. m \in Message /\ m.req = p /\ m.kind = "data" /\ "data" \in Data /\ "pty" \in Channels
    BY Events DEF PtyEvent, Channels, Data
  <2>2. /\ Put("pty", m) /\ ended' = ended /\ late' = late
        /\ reader[p] = "send" /\ reader'[p] = "flag"
    BY <1>10 DEF ReaderSends, ReaderGoto, AfterSend, Typed, ThreadsOK
  <2> HIDE DEF m
  <2>3. (p = r => Gains(r, "pty", "data")) /\ (p # r => Loses(r))
    BY <2>1, <2>2, PutGains
  <2>4. p = r => Sender(r, "pty", "data")
    BY <2>1, <2>2 DEF Sender
  <2> QED  BY <2>1, <2>3, <2>4
<1>11. ASSUME NEW ch \in {"pty", "cmd"}, ForwardEnds(ch)
       PROVE  Loses(r)
  <2>1. queue' = [c \in Channels |-> IF c \in {ch} THEN <<>> ELSE queue[c]]
    BY <1>11 DEF ForwardEnds, QueuesOK, Typed
  <2>2. {ch} \in SUBSET Channels
    BY DEF Channels
  <2> QED  BY <1>11, <2>1, <2>2, DropLoses DEF ForwardEnds
<1>12. CASE WsFails
  <2>1. queue' = [c \in Channels |-> IF c \in {"ws"} THEN <<>> ELSE queue[c]]
    BY <1>12 DEF WsFails, QueuesOK, Typed
  <2>2. {"ws"} \in SUBSET Channels
    BY DEF Channels
  <2> QED  BY <1>12, <2>1, <2>2, DropLoses DEF WsFails
<1>13. CASE UNCHANGED executorVars
  BY <1>13, SameLoses DEF executorVars
<1> QED
  BY <1>1, <1>2, <1>3, <1>4, <1>5, <1>6, <1>7, <1>8, <1>9, <1>10, <1>11, <1>12, <1>13
  DEF ExecutorNext, LoopStep, ReaderStep, WaiterStep, CmdStep

\* A command's messages stay out of the PTY processes' channel, and theirs out of
\* the commands'.
LEMMA OwnChannel ==
    ASSUME Typed, NEW r \in Reqs, NEW K, NEW i
    PROVE  /\ r \in Cmds => ~Holds("pty", r, K, i)
           /\ r \in Ptys => ~Holds("cmd", r, K, i)
<1>1. Holds("pty", r, K, i) => r \in Ptys
  <2> SUFFICES ASSUME Holds("pty", r, K, i)  PROVE r \in Ptys
    OBVIOUS
  <2>1. queue["pty"][i] \in PtyEvent
    BY ElementOfSeq DEF Typed, QueuesOK, Holds
  <2> QED  BY <2>1 DEF PtyEvent, Holds
<1>2. Holds("cmd", r, K, i) => r \in Cmds
  <2> SUFFICES ASSUME Holds("cmd", r, K, i)  PROVE r \in Cmds
    OBVIOUS
  <2>1. queue["cmd"][i] \in CmdEvent
    BY ElementOfSeq DEF Typed, QueuesOK, Holds
  <2> QED  BY <2>1 DEF CmdEvent, Holds
<1> QED  BY <1>1, <1>2, RequestsAssumption

-----------------------------------------------------------------------------
(* The end of a command comes last.                                        *)

\* What a command wrote is before its end: in each channel, through both of them,
\* and at the relay.
CmdOrder(r) ==
    /\ late[r] = 0
    /\ \A c \in Channels, i, j \in Pos :
         Holds(c, r, Final, i) /\ Holds(c, r, Data, j) => j < i
    /\ \A i, j \in Pos : Holds("ws", r, Final, i) => ~Holds("cmd", r, Data, j)
    /\ ended[r] > 0 => \A c \in Channels, i \in Pos : ~Holds(c, r, Data, i)

LEMMA CmdOrderStep ==
    ASSUME Typed, [ExecutorNext]_executorVars, NEW r \in Cmds, FinalOnce(r), CmdOrder(r)
    PROVE  CmdOrder(r)'
<1>1. /\ r \in Reqs /\ r \notin Ptys /\ Final \in Kinds /\ Data \in Kinds
      /\ "ws" \in Channels /\ "cmd" \in Channels
  BY RequestsAssumption DEF Reqs, Kinds, Channels
<1>2. CASE Loses(r)
  BY <1>1, <1>2 DEF CmdOrder, Loses
<1>3. ASSUME NEW ch \in Channels, NEW k \in Final \cup Data, Gains(r, ch, k), Sender(r, ch, k)
      PROVE  CmdOrder(r)'
  <2>1. ch = "cmd" /\ report[r] # <<>> /\ ~Spent(r)
    BY <1>1, <1>3 DEF Sender, Spent
  <2>2. ended[r] = 0 /\ \A c \in Channels, i \in Pos : ~Holds(c, r, Final, i)
    BY <1>1, <2>1 DEF FinalOnce, Typed, RoutesOK, Many
  <2>3. /\ Len(queue["cmd"]) \in Nat
        /\ \A K, i : Holds("cmd", r, K, i) => i <= Len(queue["cmd"]) /\ i \in Pos
    BY HoldsWithin DEF Typed, Channels
  <2>4. /\ ended'[r] = 0 /\ late'[r] = 0
        /\ \A c \in Channels, i \in Pos :
             /\ Holds(c, r, Final, i)' => c = "cmd" /\ i = Len(queue["cmd"]) + 1 /\ k \in Final
             /\ Holds(c, r, Data, i)' =>
                  Holds(c, r, Data, i) \/ (c = "cmd" /\ i = Len(queue["cmd"]) + 1 /\ k \in Data)
    BY <1>1, <1>3, <2>1, <2>2 DEF Gains, CmdOrder
  <2>5. ~(k \in Final /\ k \in Data)
    BY DEF Final, Data
  <2>6. ASSUME NEW c \in Channels, NEW i \in Pos, NEW j \in Pos,
               Holds(c, r, Final, i)', Holds(c, r, Data, j)'
        PROVE  j < i
    <3>1. c = "cmd" /\ i = Len(queue["cmd"]) + 1 /\ Holds("cmd", r, Data, j)
      BY <2>4, <2>5, <2>6
    <3> QED  BY <2>3, <3>1 DEF Pos
  <2>7. "ws" \in Channels /\ "ws" # "cmd"
    BY DEF Channels
  <2> QED  BY <2>4, <2>6, <2>7 DEF CmdOrder
<1>4. ASSUME NEW ch \in {"pty", "cmd"}, Forward(ch)
      PROVE  CmdOrder(r)'
  <2>1. \A i \in Pos : \A K \in Kinds :
          /\ Holds(ch, r, K, i)' <=> Holds(ch, r, K, i + 1)
          /\ Holds("ws", r, K, i)' <=>
               \/ Holds("ws", r, K, i)
               \/ i = Len(queue["ws"]) + 1 /\ Holds(ch, r, K, 1)
          /\ \A c \in Channels \ {ch, "ws"} : Holds(c, r, K, i)' <=> Holds(c, r, K, i)
    BY <1>4, ForwardHolds DEF Typed
  <2>2. ended' = ended /\ late' = late
    BY <1>4 DEF Forward, history
  <2>3. \A i : \A K \in Kinds : ~Holds("pty", r, K, i)
    BY <1>1, OwnChannel
  <2>4. /\ Len(queue["ws"]) \in Nat
        /\ \A K, i : Holds("ws", r, K, i) => i <= Len(queue["ws"]) /\ i \in Pos
    BY HoldsWithin DEF Typed, Channels
  <2>5. 1 \in Pos /\ \A i, j \in Pos : i + 1 \in Pos /\ (j + 1 < i + 1 => j < i) /\ ~(j + 1 < 1)
    BY DEF Pos
  <2>6. CASE ch = "pty"
    <3>1. \A c \in Channels, i \in Pos : \A K \in Kinds : Holds(c, r, K, i)' => Holds(c, r, K, i)
      BY <2>1, <2>3, <2>5, <2>6
    <3> QED  BY <1>1, <2>2, <3>1 DEF CmdOrder
  <2>7. CASE ch = "cmd"
    <3>1. ASSUME NEW i \in Pos
          PROVE  /\ \A K \in Kinds : Holds("cmd", r, K, i)' <=> Holds("cmd", r, K, i + 1)
                 /\ \A K \in Kinds : Holds("ws", r, K, i)' <=>
                      \/ Holds("ws", r, K, i)
                      \/ i = Len(queue["ws"]) + 1 /\ Holds("cmd", r, K, 1)
                 /\ \A K \in Kinds : ~Holds("pty", r, K, i)'
      BY <2>1, <2>3, <2>7 DEF Channels
    <3>2. ~(Holds("cmd", r, Final, 1) /\ Holds("cmd", r, Data, 1))
      BY DEF Holds, Final, Data
    <3>3. \A i, j \in Pos : Holds("cmd", r, Final, i)' /\ Holds("cmd", r, Data, j)' => j < i
      BY <1>1, <2>5, <3>1 DEF CmdOrder, Channels
    <3>4. ASSUME NEW i \in Pos, NEW j \in Pos,
                 Holds("ws", r, Final, i)', Holds("ws", r, Data, j)'
          PROVE  j < i
      <4>1. CASE Holds("ws", r, Final, i) /\ Holds("ws", r, Data, j)
        BY <4>1 DEF CmdOrder, Channels
      <4>2. CASE Holds("ws", r, Final, i) /\ Holds("cmd", r, Data, 1)
        BY <2>5, <4>2 DEF CmdOrder
      <4>3. CASE i = Len(queue["ws"]) + 1 /\ Holds("ws", r, Data, j)
        BY <2>4, <4>3 DEF Pos
      <4> QED  BY <1>1, <3>1, <3>2, <3>4, <4>1, <4>2, <4>3
    <3>5. ASSUME NEW i \in Pos, NEW j \in Pos,
                 Holds("ws", r, Final, i)', Holds("cmd", r, Data, j)'
          PROVE  FALSE
      <4>1. Holds("cmd", r, Data, j + 1) /\ j + 1 \in Pos /\ ~(j + 1 < 1)
        BY <1>1, <2>5, <3>1, <3>5 DEF Pos
      <4>2. CASE Holds("ws", r, Final, i)
        BY <4>1, <4>2 DEF CmdOrder
      <4>3. CASE Holds("cmd", r, Final, 1)
        BY <2>5, <4>1, <4>3 DEF CmdOrder, Channels
      <4> QED  BY <1>1, <3>1, <3>5, <4>2, <4>3
    <3>6. ended[r] > 0 => \A c \in Channels, i \in Pos : ~Holds(c, r, Data, i)'
      BY <1>1, <2>5, <3>1 DEF CmdOrder, Channels
    <3>7. \A c \in Channels, i, j \in Pos : Holds(c, r, Final, i)' /\ Holds(c, r, Data, j)' => j < i
      BY <1>1, <3>1, <3>3, <3>4 DEF Channels
    <3> QED  BY <2>2, <3>5, <3>6, <3>7 DEF CmdOrder
  <2> QED  BY <2>6, <2>7
<1>5. CASE WsSend
  <2>1. /\ \A i \in Pos : \A K \in Kinds :
             /\ Holds("ws", r, K, i)' <=> Holds("ws", r, K, i + 1)
             /\ \A c \in Channels \ {"ws"} : Holds(c, r, K, i)' <=> Holds(c, r, K, i)
        /\ ~Holds("ws", r, Final, 1) =>
             /\ ended'[r] = ended[r]
             /\ late'[r] = IF Holds("ws", r, Data, 1) /\ ended[r] > 0
                             THEN AtMostMany(late[r] + 1) ELSE late[r]
        /\ Holds("ws", r, Final, 1) => late'[r] = late[r]
    BY <1>1, <1>5, SendHolds
  <2>2. 1 \in Pos /\ \A i, j \in Pos : i + 1 \in Pos /\ (j + 1 < i + 1 => j < i) /\ ~(j + 1 < 1)
    BY DEF Pos
  <2>3. "ws" \in Channels /\ "cmd" \in Channels \ {"ws"} /\ Channels = {"ws", "cmd", "pty"}
    BY DEF Channels
  <2>4. late'[r] = 0
    BY <2>1, <2>2, <2>3 DEF CmdOrder
  <2>5. \A c \in Channels, i, j \in Pos : Holds(c, r, Final, i)' /\ Holds(c, r, Data, j)' => j < i
    BY <1>1, <2>1, <2>2, <2>3 DEF CmdOrder
  <2>6. \A i, j \in Pos : Holds("ws", r, Final, i)' => ~Holds("cmd", r, Data, j)'
    BY <1>1, <2>1, <2>2, <2>3 DEF CmdOrder
  <2>7. ended'[r] > 0 => \A c \in Channels, i \in Pos : ~Holds(c, r, Data, i)'
    <3>1. CASE Holds("ws", r, Final, 1)
      <4>1. \A i \in Pos : ~Holds("ws", r, Data, i)'
        BY <1>1, <2>1, <2>2, <2>3, <3>1 DEF CmdOrder
      <4>2. \A i \in Pos : ~Holds("cmd", r, Data, i)'
        BY <1>1, <2>1, <2>2, <2>3, <3>1 DEF CmdOrder
      <4>3. \A i \in Pos : ~Holds("pty", r, Data, i)'
        BY <1>1, <2>1, <2>3, OwnChannel
      <4> QED  BY <2>3, <4>1, <4>2, <4>3
    <3>2. CASE ~Holds("ws", r, Final, 1)
      BY <1>1, <2>1, <2>2, <2>3, <3>2 DEF CmdOrder
    <3> QED  BY <3>1, <3>2
  <2> QED  BY <2>4, <2>5, <2>6, <2>7 DEF CmdOrder
<1> QED  BY <1>1, <1>2, <1>3, <1>4, <1>5, Effect

LEMMA CmdOrderHolds == ExecutorSpec => [](\A r \in Cmds : CmdOrder(r))
<1>1. ExecutorInit => \A r \in Cmds : CmdOrder(r)
  <2>1. ExecutorInit => \A r \in Reqs : late[r] = 0 /\ ended[r] = 0
    BY DEF ExecutorInit
  <2>2. ExecutorInit => \A c \in Channels, i \in Pos : \A r, K : ~Holds(c, r, K, i)
    BY DEF ExecutorInit, Holds
  <2>3. "ws" \in Channels /\ "cmd" \in Channels /\ Cmds \subseteq Reqs
    BY DEF Channels, Reqs
  <2> QED  BY <2>1, <2>2, <2>3 DEF CmdOrder
<1>2. Typed /\ (\A r \in Reqs : FinalOnce(r)) /\ (\A r \in Cmds : CmdOrder(r))
        /\ [ExecutorNext]_executorVars
        => (\A r \in Cmds : CmdOrder(r))'
  <2> SUFFICES ASSUME Typed, \A r \in Reqs : FinalOnce(r), \A r \in Cmds : CmdOrder(r),
                      [ExecutorNext]_executorVars, NEW r \in Cmds
               PROVE  CmdOrder(r)'
    OBVIOUS
  <2>1. FinalOnce(r) /\ CmdOrder(r)
    BY DEF Reqs
  <2> QED  BY <2>1, CmdOrderStep
<1> QED  BY <1>1, <1>2, TypesHold, FinalsHold, PTL DEF ExecutorSpec

\* No output of a command without a PTY reaches the relay after its final message,
\* although both pass two tasks and two bounded channels (cmd_executor.rs 35-66,
\* daemon.rs 311-347).
THEOREM CommandEndIsLast == ExecutorSpec => []CommandEndsLast
<1>1. (\A r \in Cmds : CmdOrder(r)) => CommandEndsLast
  BY DEF CmdOrder, CommandEndsLast
<1> QED  BY <1>1, CmdOrderHolds, PTL

-----------------------------------------------------------------------------
(* At most one message after the end of a process.                         *)

\* A reader that has passed its look at the flag and may still send.
Hand == {"table", "read", "send"}

\* The end of a process was announced to its reader before it can be reported; and
\* nothing was ever read of a process that could not be spawned.
Announced(r) ==
    /\ waiter[r] \in {"remove", "send", "done"} => r \in exited \/ reader[r] = "done"
    /\ waiter[r] = "none" \/ Replies(r) =>
         /\ reader[r] \in {"none", "done"}
         /\ \A c \in Channels, i \in Pos : ~Holds(c, r, Data, i)

\* What the threads of r do in one step.
LEMMA Threads ==
    ASSUME Typed, [ExecutorNext]_executorVars, NEW r \in Ptys, Announced(r)
    PROVE  /\ reader'[r] \in Hand =>
                reader[r] \in Hand \/ (reader[r] = "flag" /\ r \notin exited)
           /\ waiter'[r] \in {"remove", "send", "done"} => r \in exited' \/ reader'[r] = "done"
           /\ waiter'[r] = "none" => waiter[r] = "none"
           /\ Replies(r)' => Replies(r) \/ waiter[r] = "none"
           /\ waiter'[r] = "none" \/ Replies(r)' => reader'[r] \in {"none", "done"}
<1> USE DEF loopVars, channelVars, tableVars, procVars, threadVars, cmdVars, history
<1> DEFINE Goal ==
    /\ reader'[r] \in Hand => reader[r] \in Hand \/ (reader[r] = "flag" /\ r \notin exited)
    /\ waiter'[r] \in {"remove", "send", "done"} => r \in exited' \/ reader'[r] = "done"
    /\ waiter'[r] = "none" => waiter[r] = "none"
    /\ Replies(r)' => Replies(r) \/ waiter[r] = "none"
    /\ waiter'[r] = "none" \/ Replies(r)' => reader'[r] \in {"none", "done"}
<1>1. /\ waiter[r] \in {"none", "wait", "remove", "send", "done"}
      /\ reader[r] \in {"none", "flag", "table", "read", "send", "done", "failed"}
      /\ waiter \in [Ptys -> {"none", "wait", "remove", "send", "done"}]
      /\ reader \in [Ptys -> {"none", "flag", "table", "read", "send", "done", "failed"}]
      /\ r \in Ptys /\ r # None
      /\ waiter[r] \in {"remove", "send", "done"} => r \in exited \/ reader[r] = "done"
      /\ waiter[r] = "none" \/ Replies(r) => reader[r] \in {"none", "done"}
  BY RequestsAssumption DEF Typed, ThreadsOK, Announced, Reqs
<1>2. ASSUME UNCHANGED <<waiter, reader>>,
             r \in exited => r \in exited',
             Replies(r)' => Replies(r)
      PROVE  Goal
  BY <1>1, <1>2 DEF Hand
<1>3. CASE Ping \/ ReplySend \/ InputTaken \/ End
  <2>1. UNCHANGED <<waiter, reader>> /\ (r \in exited => r \in exited')
    BY <1>3 DEF Ping, ReplySend, InputTaken, End
  <2>2. Replies(r)' => Replies(r)
    BY <1>1, <1>3 DEF Ping, ReplySend, InputTaken, End, Send, Replies
  <2> QED  BY <1>2, <2>1, <2>2
<1>4. ASSUME NEW p \in Ptys, Input(p) \/ Kill(p) \/ ProcStep(p)
      PROVE  Goal
  <2>1. UNCHANGED <<waiter, reader>> /\ (r \in exited => r \in exited')
    BY <1>4 DEF Input, Kill, ProcStep, ProcWrites, ProcEnds
  <2>2. Replies(r)' => Replies(r)
    BY <1>4 DEF Input, Kill, ProcStep, ProcWrites, ProcEnds, Replies
  <2> QED  BY <1>2, <2>1, <2>2
<1>5. ASSUME NEW p \in Cmds, SpawnCmd(p) \/ CmdStep(p)
      PROVE  Goal
  <2>1. UNCHANGED <<waiter, reader, exited, loop, reply>>
    BY <1>5 DEF SpawnCmd, CmdStep, CmdEnds, CmdSends
  <2> QED  BY <1>2, <2>1 DEF Replies
<1>6. ASSUME NEW ch \in {"pty", "cmd"}, Forward(ch) \/ ForwardEnds(ch)
      PROVE  Goal
  <2>1. UNCHANGED <<waiter, reader, exited, loop, reply>>
    BY <1>6 DEF Forward, ForwardEnds
  <2> QED  BY <1>2, <2>1 DEF Replies
<1>7. CASE WsSend \/ WsFails \/ UNCHANGED executorVars
  <2>1. UNCHANGED <<waiter, reader, exited, loop, reply>>
    BY <1>7 DEF WsSend, WsFails, executorVars
  <2> QED  BY <1>2, <2>1 DEF Replies
<1>8. ASSUME NEW p \in Ptys, SpawnPty(p)
      PROVE  Goal
  <2>1. Replies(r)' <=> Replies(r)
    BY <1>8 DEF SpawnPty, Replies
  <2>2. ~Replies(r)
    BY <1>8 DEF SpawnPty, Replies
  <2> QED  BY <1>1, <1>8, <2>1, <2>2 DEF SpawnPty, Hand
<1>9. ASSUME NEW p \in Ptys, SpawnFails(p)
      PROVE  Goal
  <2>1. Replies(r)' => p = r
    BY <1>9 DEF SpawnFails, Send, Replies
  <2> QED  BY <1>1, <1>9, <2>1 DEF SpawnFails, Hand
<1>10. ASSUME NEW p \in Ptys, WaiterStep(p)
       PROVE  Goal
  <2>1. Replies(r)' <=> Replies(r)
    BY <1>10 DEF WaiterStep, WaiterSees, WaitFails, WaiterFlags, WaiterRemoves, WaiterSends, Replies
  <2> QED
    BY <1>1, <1>10, <2>1 DEF WaiterStep, WaiterSees, WaitFails, WaiterFlags, WaiterRemoves, WaiterSends, Hand
<1>11. ASSUME NEW p \in Ptys, ReaderStep(p)
       PROVE  Goal
  <2>1. (Replies(r)' <=> Replies(r)) /\ waiter' = waiter /\ exited' = exited
    BY <1>11
    DEF ReaderStep, ReaderFlag, ReaderTable, ReaderReads, ReaderFails, ReaderSends, Replies
  <2>2. \/ reader'[r] = reader[r]
        \/ reader[r] = "flag" /\ reader'[r] = "table" /\ r \notin exited
        \/ reader[r] \in Hand /\ reader'[r] # "none"
        \/ reader'[r] = "done"
    BY <1>1, <1>11
    DEF ReaderStep, ReaderFlag, ReaderTable, ReaderReads, ReaderFails, ReaderSends,
        ReaderGoto, AfterSend, Hand
  <2>3. reader[r] # "done" \/ reader'[r] = "done"
    BY <1>1, <1>11
    DEF ReaderStep, ReaderFlag, ReaderTable, ReaderReads, ReaderFails, ReaderSends,
        ReaderGoto, AfterSend
  <2> QED  BY <1>1, <2>1, <2>2, <2>3 DEF Hand
<1> QED
  BY <1>3, <1>4, <1>5, <1>6, <1>7, <1>8, <1>9, <1>10, <1>11
  DEF ExecutorNext, LoopStep

LEMMA AnnouncedStep ==
    ASSUME Typed, [ExecutorNext]_executorVars, NEW r \in Ptys, FinalOnce(r), Announced(r)
    PROVE  Announced(r)'
<1>1. /\ waiter'[r] \in {"remove", "send", "done"} => r \in exited' \/ reader'[r] = "done"
      /\ waiter'[r] = "none" \/ Replies(r)' => reader'[r] \in {"none", "done"}
  BY Threads
<1> SUFFICES ASSUME waiter'[r] = "none" \/ Replies(r)'
             PROVE  \A c \in Channels, i \in Pos : ~Holds(c, r, Data, i)'
  BY <1>1 DEF Announced
<1>2. waiter[r] = "none" \/ Replies(r)
  BY Threads
<1>3. /\ reader[r] \in {"none", "done"}
      /\ \A c \in Channels, i \in Pos : ~Holds(c, r, Data, i)
  BY <1>2 DEF Announced
<1>4. r \in Reqs /\ r \notin Cmds /\ Data \in Kinds /\ \A i \in Pos : i + 1 \in Pos
  BY RequestsAssumption DEF Reqs, Kinds, Pos
<1>5. CASE Loses(r)
  BY <1>3, <1>4, <1>5 DEF Loses
<1>6. ASSUME NEW ch \in Channels, NEW k \in Final \cup Data, Gains(r, ch, k), Sender(r, ch, k)
      PROVE  \A c \in Channels, i \in Pos : ~Holds(c, r, Data, i)'
  <2>1. k \notin Data
    BY <1>3, <1>4, <1>6 DEF Sender, Final, Data
  <2> QED  BY <1>3, <1>4, <1>6, <2>1 DEF Gains
<1>7. ASSUME NEW ch \in {"pty", "cmd"}, Forward(ch)
      PROVE  \A c \in Channels, i \in Pos : ~Holds(c, r, Data, i)'
  <2>1. \A i \in Pos :
          /\ Holds(ch, r, Data, i)' <=> Holds(ch, r, Data, i + 1)
          /\ Holds("ws", r, Data, i)' <=>
               \/ Holds("ws", r, Data, i)
               \/ i = Len(queue["ws"]) + 1 /\ Holds(ch, r, Data, 1)
          /\ \A c \in Channels \ {ch, "ws"} : Holds(c, r, Data, i)' <=> Holds(c, r, Data, i)
    BY <1>7, ForwardHolds DEF Typed
  <2>2. 1 \in Pos /\ "ws" \in Channels /\ ch \in Channels
    BY DEF Pos, Channels
  <2> QED  BY <1>3, <1>4, <2>1, <2>2
<1>8. CASE WsSend
  <2>1. \A i \in Pos :
          /\ Holds("ws", r, Data, i)' <=> Holds("ws", r, Data, i + 1)
          /\ \A c \in Channels \ {"ws"} : Holds(c, r, Data, i)' <=> Holds(c, r, Data, i)
    BY <1>4, <1>8, SendHolds
  <2> QED  BY <1>3, <1>4, <2>1 DEF Channels
<1> QED  BY <1>4, <1>5, <1>6, <1>7, <1>8, Effect

\* A DATA that the relay will get after the end of its process.
Behind(ch, r, i) ==
    /\ Holds(ch, r, Data, i)
    /\ \/ ended[r] > 0
       \/ \E j \in Pos : j < i /\ Holds(ch, r, Final, j)
       \/ ch = "pty" /\ \E j \in Pos : Holds("ws", r, Final, j)

\* There is at most one, in a channel or with the relay; and the reader does not
\* send another.
PtyOrder(r) ==
    /\ \A c, d \in Channels, i, j \in Pos : Behind(c, r, i) /\ Behind(d, r, j) => c = d /\ i = j
    /\ \A c \in Channels, i \in Pos : Behind(c, r, i) => late[r] = 0 /\ reader[r] \notin Hand
    /\ late[r] > 0 => late[r] = 1 /\ reader[r] \notin Hand

\* A reader that takes another look at the flag and goes on does so before the end
\* of the process is reported.
LEMMA HandFree ==
    ASSUME Typed, [ExecutorNext]_executorVars, NEW r \in Ptys,
           FinalOnce(r), Announced(r), reader'[r] \in Hand, reader[r] \notin Hand
    PROVE  late[r] = 0 /\ \A c \in Channels, i \in Pos : ~Behind(c, r, i)
<1>1. reader[r] = "flag" /\ r \notin exited /\ r \in Reqs
  BY Threads DEF Reqs
<1>2. ~Spent(r)
  BY <1>1 DEF Announced, Spent
<1>3. /\ ended[r] = 0
      /\ late[r] = 0
      /\ \A c \in Channels, i \in Pos : ~Holds(c, r, Final, i)
  BY <1>1, <1>2 DEF FinalOnce, Typed, RoutesOK, Many
<1>4. "ws" \in Channels
  BY DEF Channels
<1> QED  BY <1>3, <1>4 DEF Behind

\* A step that puts no message behind the end of the process.
LEMMA PtyKept ==
    ASSUME Typed, [ExecutorNext]_executorVars, NEW r \in Ptys,
           FinalOnce(r), Announced(r), PtyOrder(r),
           late'[r] = late[r],
           \A c, d \in Channels, i, j \in Pos :
             Behind(c, r, i)' /\ Behind(d, r, j)' => c = d /\ i = j,
           \A c \in Channels, i \in Pos :
             Behind(c, r, i)' => \E d \in Channels, j \in Pos : Behind(d, r, j)
    PROVE  PtyOrder(r)'
<1>1. CASE reader'[r] \in Hand /\ reader[r] \notin Hand
  <2>1. late[r] = 0 /\ \A c \in Channels, i \in Pos : ~Behind(c, r, i)
    BY <1>1, HandFree
  <2> QED  BY <2>1 DEF PtyOrder
<1>2. CASE ~(reader'[r] \in Hand /\ reader[r] \notin Hand)
  BY <1>2 DEF PtyOrder
<1> QED  BY <1>1, <1>2

LEMMA PtyOrderStep ==
    ASSUME Typed, [ExecutorNext]_executorVars, NEW r \in Ptys,
           FinalOnce(r), Announced(r), PtyOrder(r)
    PROVE  PtyOrder(r)'
<1>1. /\ r \in Reqs /\ r \notin Cmds /\ Final \in Kinds /\ Data \in Kinds
      /\ Channels = {"ws", "cmd", "pty"}
      /\ ended[r] \in 0 .. Many /\ late[r] \in 0 .. Many
  BY RequestsAssumption DEF Reqs, Kinds, Channels, Typed, RoutesOK
<1>2. \A i : \A K : ~Holds("cmd", r, K, i)
  BY <1>1, OwnChannel
<1>3. /\ 1 \in Pos
      /\ \A i, j \in Pos : i + 1 \in Pos /\ i + 1 # 1 /\ 1 < i + 1 /\ (i + 1 = j + 1 => i = j)
      /\ \A i, j \in Pos : j < i => j + 1 < i + 1
  BY DEF Pos
<1>4. \A ch \in Channels : /\ Len(queue[ch]) \in Nat
                           /\ \A K, i : Holds(ch, r, K, i) => i <= Len(queue[ch]) /\ i \in Pos
  BY HoldsWithin DEF Typed
<1>5. CASE Loses(r)
  <2>1. \A c \in Channels, i \in Pos : Behind(c, r, i)' => Behind(c, r, i)
    BY <1>1, <1>5 DEF Behind, Loses
  <2> QED  BY <1>5, <2>1, PtyKept DEF PtyOrder, Loses
<1>6. ASSUME NEW ch \in Channels, NEW k \in Final \cup Data, Gains(r, ch, k), Sender(r, ch, k)
      PROVE  PtyOrder(r)'
  <2>1. /\ ended'[r] = ended[r] /\ late'[r] = late[r]
        /\ \A c \in Channels, i \in Pos : \A K \in Kinds :
             Holds(c, r, K, i)' =>
               Holds(c, r, K, i) \/ (c = ch /\ i = Len(queue[ch]) + 1 /\ k \in K)
    BY <1>6 DEF Gains
  <2>2. CASE k \in Data
    <3>1. ch = "pty" /\ reader[r] = "send" /\ reader'[r] = "flag" /\ k \notin Final
      BY <1>1, <1>6, <2>2 DEF Sender, Final, Data
    <3>2. late[r] = 0 /\ \A c \in Channels, i \in Pos : ~Behind(c, r, i)
      BY <1>1, <3>1 DEF PtyOrder, Hand
    <3>3. \A c \in Channels, i \in Pos :
            Behind(c, r, i)' => c = "pty" /\ i = Len(queue["pty"]) + 1
      BY <1>1, <2>1, <3>1, <3>2 DEF Behind
    <3>4. reader'[r] \notin Hand
      BY <3>1 DEF Hand
    <3> QED  BY <2>1, <3>2, <3>3, <3>4 DEF PtyOrder
  <2>3. CASE k \in Final
    <3>1. k \notin Data
      BY <2>3 DEF Final, Data
    <3>2. /\ ended[r] = 0
          /\ ch = "pty" => \A c \in Channels, i \in Pos : ~Holds(c, r, Final, i)
          /\ ch # "pty" => \A c \in Channels, i \in Pos : ~Holds(c, r, Data, i)
      <4>1. CASE Replies(r)
        BY <1>1, <1>6, <2>3, <4>1, <3>1 DEF Announced, FinalOnce, Sender
      <4>2. CASE ~Replies(r)
        <5>1. ch = "pty" /\ ~Spent(r)
          BY <1>1, <1>6, <3>1, <4>2 DEF Sender, Spent
        <5> QED  BY <1>1, <5>1 DEF FinalOnce, Many
      <4> QED  BY <4>1, <4>2
    <3>3. \A c \in Channels, i \in Pos : ~Behind(c, r, i)'
      <4>1. CASE ch = "pty"
        <5>1. \A c \in Channels, i \in Pos :
                /\ Holds(c, r, Final, i)' => c = "pty" /\ i = Len(queue["pty"]) + 1
                /\ Holds(c, r, Data, i)' => Holds(c, r, Data, i)
          BY <1>1, <2>1, <3>1, <3>2, <4>1
        <5>2. \A i, j \in Pos : Holds("pty", r, Data, i) /\ j = Len(queue["pty"]) + 1 => ~(j < i)
          BY <1>1, <1>4 DEF Pos
        <5> QED  BY <1>1, <2>1, <3>2, <5>1, <5>2 DEF Behind
      <4>2. CASE ch # "pty"
        BY <1>1, <2>1, <3>1, <3>2, <4>2 DEF Behind
      <4> QED  BY <4>1, <4>2
    <3> QED  BY <2>1, <3>3, PtyKept
  <2> QED  BY <2>2, <2>3
<1>7. ASSUME NEW ch \in {"pty", "cmd"}, Forward(ch)
      PROVE  PtyOrder(r)'
  <2>1. \A i \in Pos : \A K \in Kinds :
          /\ Holds(ch, r, K, i)' <=> Holds(ch, r, K, i + 1)
          /\ Holds("ws", r, K, i)' <=>
               \/ Holds("ws", r, K, i)
               \/ i = Len(queue["ws"]) + 1 /\ Holds(ch, r, K, 1)
          /\ \A c \in Channels \ {ch, "ws"} : Holds(c, r, K, i)' <=> Holds(c, r, K, i)
    BY <1>7, ForwardHolds DEF Typed
  <2>2. ended' = ended /\ late' = late
    BY <1>7 DEF Forward, history
  <2>3. CASE ch = "cmd"
    <3>1. \A c \in Channels, i \in Pos : \A K \in Kinds : Holds(c, r, K, i)' => Holds(c, r, K, i)
      BY <1>1, <1>2, <1>3, <2>1, <2>3
    <3> QED  BY <1>5, <2>2, <3>1 DEF Loses
  <2>4. CASE ch = "pty"
    <3>1. ASSUME NEW i \in Pos
          PROVE  /\ \A K \in Kinds : Holds("pty", r, K, i)' <=> Holds("pty", r, K, i + 1)
                 /\ \A K \in Kinds : Holds("ws", r, K, i)' <=>
                      \/ Holds("ws", r, K, i)
                      \/ i = Len(queue["ws"]) + 1 /\ Holds("pty", r, K, 1)
                 /\ \A K \in Kinds : ~Holds("cmd", r, K, i)'
      BY <1>1, <1>2, <2>1, <2>4
    <3>2. \A i \in Pos : Behind("pty", r, i)' => Behind("pty", r, i + 1)
      BY <1>1, <1>3, <2>2, <3>1 DEF Behind
    <3>3. ASSUME NEW i \in Pos, Behind("ws", r, i)'
          PROVE  Behind("ws", r, i) \/ (i = Len(queue["ws"]) + 1 /\ Behind("pty", r, 1))
      <4>1. ~(Holds("pty", r, Final, 1) /\ Holds("pty", r, Data, 1))
        BY DEF Holds, Final, Data
      <4>2. CASE Holds("ws", r, Data, i)
        <5>1. i <= Len(queue["ws"])
          BY <1>1, <1>4, <4>2
        <5>2. \A j \in Pos : j < i /\ Holds("ws", r, Final, j)' => Holds("ws", r, Final, j)
          <6>1. \A j \in Pos : j < i => j # Len(queue["ws"]) + 1
            BY <1>1, <1>4, <5>1 DEF Pos
          <6> QED  BY <1>1, <3>1, <6>1
        <5> QED  BY <1>1, <2>2, <3>3, <4>2, <5>2 DEF Behind
      <4>3. CASE i = Len(queue["ws"]) + 1 /\ Holds("pty", r, Data, 1)
        <5>1. \A j \in Pos : Holds("ws", r, Final, j)' => Holds("ws", r, Final, j)
          BY <1>1, <3>1, <4>1, <4>3
        <5> QED  BY <1>1, <2>2, <3>3, <4>3, <5>1 DEF Behind
      <4> QED  BY <1>1, <3>1, <3>3, <4>2, <4>3 DEF Behind
    <3>4. \A i \in Pos : ~Behind("cmd", r, i)'
      BY <1>1, <3>1 DEF Behind
    <3>5. ASSUME NEW c \in Channels, NEW d \in Channels, NEW i \in Pos, NEW j \in Pos,
                 Behind(c, r, i)', Behind(d, r, j)'
          PROVE  c = d /\ i = j
      <4>1. \A x \in Pos : Behind("ws", r, x) => x <= Len(queue["ws"])
        BY <1>1, <1>4 DEF Behind
      <4>2. \A e, f \in Channels, x, y \in Pos : Behind(e, r, x) /\ Behind(f, r, y) => e = f /\ x = y
        BY DEF PtyOrder
      <4>3. c \in {"pty", "ws"} /\ d \in {"pty", "ws"}
        BY <1>1, <3>4, <3>5
      <4>4. CASE c = "pty" /\ d = "pty"
        BY <1>1, <1>3, <3>2, <3>5, <4>2, <4>4
      <4>5. CASE c = "ws" /\ d = "ws"
        BY <1>1, <1>3, <1>4, <3>3, <3>5, <4>1, <4>2, <4>5 DEF Pos
      <4>6. CASE c # d
        BY <1>1, <1>3, <3>2, <3>3, <3>5, <4>2, <4>3, <4>6
      <4> QED  BY <4>3, <4>4, <4>5, <4>6
    <3>6. \A c \in Channels, i \in Pos :
            Behind(c, r, i)' => \E d \in Channels, j \in Pos : Behind(d, r, j)
      BY <1>1, <1>3, <3>2, <3>3, <3>4
    <3> QED  BY <2>2, <3>5, <3>6, PtyKept
  <2> QED  BY <2>3, <2>4
<1>8. CASE WsSend
  <2>1. /\ \A i \in Pos : \A K \in Kinds :
             /\ Holds("ws", r, K, i)' <=> Holds("ws", r, K, i + 1)
             /\ \A c \in Channels \ {"ws"} : Holds(c, r, K, i)' <=> Holds(c, r, K, i)
        /\ Holds("ws", r, Final, 1) =>
             ended'[r] = AtMostMany(ended[r] + 1) /\ late'[r] = late[r]
        /\ ~Holds("ws", r, Final, 1) =>
             /\ ended'[r] = ended[r]
             /\ late'[r] = IF Holds("ws", r, Data, 1) /\ ended[r] > 0
                             THEN AtMostMany(late[r] + 1) ELSE late[r]
    BY <1>1, <1>8, SendHolds
  <2>2. \A i \in Pos : Behind("ws", r, i)' => Behind("ws", r, i + 1)
    BY <1>1, <1>3, <2>1 DEF Behind
  <2>3. \A i \in Pos : Behind("pty", r, i)' => Behind("pty", r, i)
    BY <1>1, <1>3, <2>1 DEF Behind
  <2>4. \A i \in Pos : ~Behind("cmd", r, i)'
    BY <1>1, <1>2, <2>1 DEF Behind
  <2>5. \A c, d \in Channels, i, j \in Pos :
          Behind(c, r, i)' /\ Behind(d, r, j)' => c = d /\ i = j
    BY <1>1, <1>3, <2>2, <2>3, <2>4 DEF PtyOrder
  <2>6. \A c \in Channels, i \in Pos :
          Behind(c, r, i)' => \E d \in Channels, j \in Pos : Behind(d, r, j) /\ ~(d = "ws" /\ j = 1)
    BY <1>1, <1>3, <2>2, <2>3, <2>4
  <2>7. CASE late'[r] = late[r]
    BY <2>5, <2>6, <2>7, PtyKept
  <2>8. CASE late'[r] # late[r]
    <3>1. Holds("ws", r, Data, 1) /\ ended[r] > 0 /\ late'[r] = AtMostMany(late[r] + 1)
      BY <2>1, <2>8
    <3>2. Behind("ws", r, 1)
      BY <3>1 DEF Behind
    <3>3. late[r] = 0 /\ reader[r] \notin Hand
      BY <1>1, <1>3, <3>2 DEF PtyOrder
    <3>4. late'[r] = 1
      BY <3>1, <3>3 DEF AtMostMany, Many
    <3>5. \A c \in Channels, i \in Pos : ~Behind(c, r, i)'
      BY <1>1, <1>3, <2>6, <3>2 DEF PtyOrder
    <3>6. reader'[r] \notin Hand
      BY <1>8, <3>3 DEF WsSend, threadVars
    <3> QED  BY <3>4, <3>5, <3>6 DEF PtyOrder
  <2> QED  BY <2>7, <2>8
<1> QED  BY <1>1, <1>5, <1>6, <1>7, <1>8, Effect

LEMMA PtyOrderHolds == ExecutorSpec => [](\A r \in Ptys : Announced(r) /\ PtyOrder(r))
<1>1. ExecutorInit => \A r \in Ptys : Announced(r) /\ PtyOrder(r)
  <2>1. ExecutorInit => \A r \in Reqs : late[r] = 0
    BY DEF ExecutorInit
  <2>2. ExecutorInit => \A c \in Channels, i \in Pos : \A r, K : ~Holds(c, r, K, i)
    BY DEF ExecutorInit, Holds
  <2>3. ExecutorInit => \A r \in Ptys : waiter[r] = "none" /\ reader[r] = "none"
    BY DEF ExecutorInit
  <2>4. Ptys \subseteq Reqs
    BY DEF Reqs
  <2> QED  BY <2>1, <2>2, <2>3, <2>4 DEF Announced, PtyOrder, Behind
<1>2. Typed /\ (\A r \in Reqs : FinalOnce(r)) /\ (\A r \in Ptys : Announced(r) /\ PtyOrder(r))
        /\ [ExecutorNext]_executorVars
        => (\A r \in Ptys : Announced(r) /\ PtyOrder(r))'
  <2> SUFFICES ASSUME Typed, \A r \in Reqs : FinalOnce(r),
                      \A r \in Ptys : Announced(r) /\ PtyOrder(r),
                      [ExecutorNext]_executorVars, NEW r \in Ptys
               PROVE  Announced(r)' /\ PtyOrder(r)'
    OBVIOUS
  <2>1. FinalOnce(r) /\ Announced(r) /\ PtyOrder(r)
    BY DEF Reqs
  <2> QED  BY <2>1, AnnouncedStep, PtyOrderStep
<1> QED  BY <1>1, <1>2, TypesHold, FinalsHold, PTL DEF ExecutorSpec

\* At most one DATA of a PTY process reaches the relay after EXIT: what its reader
\* had in its hands when the process ended (pty_manager.rs 181-194, 213-262).
THEOREM LateOutput == ExecutorSpec => []LateOutputBounded
<1>1. Typed /\ (\A r \in Ptys : Announced(r) /\ PtyOrder(r)) => LateOutputBounded
  <2>1. Typed => \A r \in Ptys : late[r] \in 0 .. Many
    BY DEF Typed, RoutesOK, Reqs
  <2> QED  BY <2>1 DEF PtyOrder, LateOutputBounded, Many
<1> QED  BY <1>1, PtyOrderHolds, TypesHold, PTL
=============================================================================
