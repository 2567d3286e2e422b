---------------------------- MODULE OshConnection ----------------------------
(***************************************************************************)
(* One connection to the relay's CLI port, from end to end: osh            *)
(* (osh-cli/src/main.rs) with one request, or osh-admin with one reload    *)
(* (bin/osh-admin.rs); the relay's handler of the connection, its queue    *)
(* and its write task, which is aborted when the handler returns           *)
(* (server.rs); and, for osh, the handler of the daemon's connection       *)
(* (relay.rs) with what the daemon sends for the request.                  *)
(*                                                                         *)
(* The device names, approvals and locks are in Relay, time in Heartbeat:  *)
(* here a request is refused or accepted, and a timeout may come whenever  *)
(* there is one.                                                           *)
(***************************************************************************)
EXTENDS Screen

CONSTANTS
    Outputs,    \* what a process may print
    MaxInputs,  \* a bound on the INPUT messages of an osh
    MaxPings    \* a bound on the PINGs of the relay

ASSUME OshAssumption ==
    /\ Outputs \subseteq Seq(0 .. 255)
    /\ MaxInputs \in Nat /\ MaxPings \in Nat

VARIABLES
    kind,     \* what the peer is, osh or osh-admin
    pty,      \* --pty
    printed,  \* what the process prints
    unsent,   \* the part of it that the daemon has not sent yet
    final,    \* the final message that the daemon has sent
    session,  \* osh_sessions holds the request
    daemon,   \* the handler of the daemon's connection
    handler,  \* the handler of this connection
    inbox,    \* the messages on their way to the relay
    queue,    \* the messages for the write task
    outbox,   \* the messages on their way to the peer
    peer,     \* "run", or how the peer has ended
    shown,    \* what osh has written to its terminal
    pings, inputs,
    reloaded  \* history: the relay has answered the reload with success

oshVars    == <<kind, pty, printed, peer, shown, inputs>>
daemonVars == <<unsent, final, daemon>>
relayVars  == <<session, handler, queue, pings, reloaded>>
connVars   == <<oshVars, daemonVars, relayVars, inbox, outbox>>

Refusals == {"DEVICE_NOT_FOUND", "DEVICE_NOT_APPROVED", "DEVICE_OFFLINE"}
Finals   == {"EXIT", "ERROR"}
Answers  == Refusals \cup Finals \cup {"INVALID_REQ_ID"}
Reports  == {"ADMIN_RELOAD_OK", "ADMIN_RELOAD_ERROR"}

ConnTypeOK ==
    /\ kind \in {"osh", "admin"} /\ pty \in BOOLEAN
    /\ printed \in Outputs
    /\ unsent \in Seq(0 .. 255) /\ shown \in Seq(0 .. 255)
    /\ final \in Finals \cup {"none"}
    /\ session \in BOOLEAN /\ reloaded \in BOOLEAN
    /\ daemon \in {"idle", "remove", "left", "gone"}
    /\ handler \in {"serve", "leave", "gone"}
    /\ inbox \in Seq({"EXEC", "INPUT", "ADMIN_RELOAD"})
    /\ \A q \in {queue, outbox} : q \in Seq([msg : Answers \cup Reports \cup {"PING", "DATA"},
                                             data : Seq(0 .. 255)])
    /\ peer \in Answers \cup Reports \cup {"run", "closed", "timeout", "unexpected"}
    /\ pings \in 0 .. MaxPings /\ inputs \in 0 .. MaxInputs

\* The peer is connected and has sent its request.
ConnInit ==
    /\ kind \in {"osh", "admin"}
    /\ pty \in BOOLEAN
    /\ printed \in Outputs
    /\ unsent = printed
    /\ final = "none"
    /\ session = FALSE
    /\ daemon = "idle"
    /\ handler = "serve"
    /\ inbox = <<IF kind = "osh" THEN "EXEC" ELSE "ADMIN_RELOAD">>
    /\ queue = <<>> /\ outbox = <<>>
    /\ peer = "run"
    /\ shown = <<>>
    /\ pings = 0 /\ inputs = 0
    /\ reloaded = FALSE

-----------------------------------------------------------------------------
(* The relay, CLI side.                                                    *)

Queued(m)     == queue' = Append(queue, [msg |-> m, data |-> <<>>])
Handles(m)    == handler = "serve" /\ inbox # <<>> /\ Head(inbox) = m /\ inbox' = Tail(inbox)
KeepsHandling == UNCHANGED <<handler, pings>>

\* The first tick comes at once.
RelayPing ==
    /\ handler = "serve" /\ pings < MaxPings
    /\ pings' = pings + 1
    /\ Queued("PING")
    /\ UNCHANGED <<oshVars, daemonVars, session, handler, reloaded, inbox, outbox>>

\* A session is for a daemon that is connected.
HandleExec ==
    /\ Handles("EXEC")
    /\ \/ daemon = "idle" /\ session' = TRUE /\ UNCHANGED queue
       \/ \E m \in Refusals : Queued(m) /\ UNCHANGED session
    /\ KeepsHandling
    /\ UNCHANGED <<oshVars, daemonVars, reloaded, outbox>>

\* An input for a session is forwarded, or lost with the device.
HandleInput ==
    /\ Handles("INPUT")
    /\ IF session THEN UNCHANGED queue ELSE Queued("INVALID_REQ_ID")
    /\ KeepsHandling
    /\ UNCHANGED <<oshVars, daemonVars, session, reloaded, outbox>>

HandleReload ==
    /\ Handles("ADMIN_RELOAD")
    /\ \E m \in Reports : Queued(m) /\ reloaded' = (m = "ADMIN_RELOAD_OK")
    /\ KeepsHandling
    /\ UNCHANGED <<oshVars, daemonVars, session, outbox>>

\* A timeout, an error, or the peer is gone: the loop ends ...
HandlerLeaves ==
    /\ handler = "serve"
    /\ handler' = "leave"
    /\ UNCHANGED <<oshVars, daemonVars, session, queue, pings, reloaded, inbox, outbox>>

\* ... and cleanup_osh_sessions has run when handle_osh_connection aborts the
\* write task: what is still in the queue is lost.
HandlerReturns ==
    /\ handler = "leave"
    /\ handler' = "gone"
    /\ session' = FALSE
    /\ queue' = <<>>
    /\ inbox' = <<>>
    /\ UNCHANGED <<oshVars, daemonVars, pings, reloaded, outbox>>

\* write_messages; to a peer that has ended it fails, and the task with it.
Write ==
    /\ queue # <<>> /\ handler # "gone"
    /\ queue' = Tail(queue)
    /\ outbox' = IF peer = "run" THEN Append(outbox, Head(queue)) ELSE outbox
    /\ UNCHANGED <<oshVars, daemonVars, session, handler, pings, reloaded, inbox>>

-----------------------------------------------------------------------------
(* The daemon, and the relay's handler of its connection.                  *)

\* What the handler queues for the request, if it is known.  The sender of a
\* session is that of its connection, alive or not.
Forward(m, data) ==
    queue' = IF session /\ handler # "gone"
               THEN Append(queue, [msg |-> m, data |-> data]) ELSE queue

\* The daemon runs the request, and its output goes on as long as it is there.
\* A command without a PTY reports its end after its output; the thread that
\* waits for a PTY process does not know what the reader has still to report.
Produces == daemon = "idle" /\ (session \/ final # "none")

OnData(n) ==
    /\ Produces /\ n \in 1 .. Len(unsent)
    /\ pty \/ final = "none"
    /\ LET chunk == SubSeq(unsent, 1, n)
       IN  Forward("DATA", IF pty THEN Escape(chunk) ELSE chunk)
    /\ unsent' = SubSeq(unsent, n + 1, Len(unsent))
    /\ UNCHANGED <<oshVars, final, daemon, session, handler, pings, reloaded, inbox, outbox>>

\* mutant: the session is removed first, and is not found for the answer.
OnFinalRemoves(m) ==
    /\ Produces /\ final = "none"
    /\ pty \/ unsent = <<>> \/ m = "ERROR"
    /\ final' = m
    /\ session' = FALSE
    /\ daemon' = "remove"
    /\ UNCHANGED <<oshVars, unsent, handler, queue, pings, reloaded, inbox, outbox>>

\* EXIT or ERROR is forwarded under the lock; the session is removed under
\* another.
OnFinal(m) ==
    /\ Produces /\ final = "none"
    /\ pty \/ unsent = <<>> \/ m = "ERROR"
    /\ final' = m
    /\ Forward(m, <<>>)
    /\ daemon' = "remove"
    /\ UNCHANGED <<oshVars, unsent, session, handler, pings, reloaded, inbox, outbox>>

\* on_client_disconnect.
OnDisconnect ==
    /\ daemon = "idle"
    /\ Forward("DEVICE_OFFLINE", <<>>)
    /\ daemon' = "left"
    /\ UNCHANGED <<oshVars, unsent, final, session, handler, pings, reloaded, inbox, outbox>>

RemoveSession ==
    /\ daemon \in {"remove", "left"}
    /\ session' = FALSE
    /\ daemon' = IF daemon = "remove" THEN "idle" ELSE "gone"
    /\ UNCHANGED <<oshVars, unsent, final, handler, queue, pings, reloaded, inbox, outbox>>

-----------------------------------------------------------------------------
(* osh and osh-admin.                                                      *)

\* The peer ends, and closes its connection.
Ends(how) ==
    /\ peer' = how
    /\ outbox' = <<>>

Reads(m) == peer = "run" /\ outbox # <<>> /\ Head(outbox) = m

\* A message of the relay to osh.
OshReads(m) ==
    /\ kind = "osh" /\ Reads(m)
    /\ \/ /\ m.msg \in Answers
          /\ Ends(m.msg)
          /\ UNCHANGED shown
       \/ /\ m.msg = "DATA"
          /\ shown' = shown \o Displayed(m.data)
          /\ outbox' = Tail(outbox)
          /\ UNCHANGED peer
       \/ /\ m.msg \notin Answers \cup {"DATA"}
          /\ outbox' = Tail(outbox)
          /\ UNCHANGED <<peer, shown>>
    /\ UNCHANGED <<kind, pty, printed, inputs, daemonVars, relayVars, inbox>>

\* osh-admin takes the first message for the answer.
AdminReads(m) ==
    /\ kind = "admin" /\ Reads(m)
    /\ Ends(IF m.msg \in Reports THEN m.msg ELSE "unexpected")
    /\ UNCHANGED <<kind, pty, printed, shown, inputs, daemonVars, relayVars, inbox>>

\* A line from the terminal.
SendInput ==
    /\ kind = "osh" /\ peer = "run" /\ inputs < MaxInputs
    /\ inputs' = inputs + 1
    /\ inbox' = IF handler = "gone" THEN inbox ELSE Append(inbox, "INPUT")
    /\ UNCHANGED <<kind, pty, printed, peer, shown, daemonVars, relayVars, outbox>>

\* The connection is closed, or nothing has come for too long.
PeerGivesUp ==
    /\ peer = "run"
    /\ \/ handler = "gone" /\ outbox = <<>> /\ Ends("closed")
       \/ Ends("timeout")
    /\ UNCHANGED <<kind, pty, printed, shown, inputs, daemonVars, relayVars, inbox>>

-----------------------------------------------------------------------------
RelayStep  == RelayPing \/ HandleExec \/ HandleInput \/ HandleReload
                \/ HandlerLeaves \/ HandlerReturns \/ Write
DaemonStep == \/ \E n \in 1 .. Len(unsent) : OnData(n)
              \/ \E m \in Finals : OnFinal(m)
              \/ OnDisconnect \/ RemoveSession
PeerStep   == \/ \E m \in {Head(outbox) : x \in DOMAIN outbox} : OshReads(m) \/ AdminReads(m)
              \/ SendInput \/ PeerGivesUp

ConnNext == RelayStep \/ DaemonStep \/ PeerStep

ConnSpec == ConnInit /\ [][ConnNext]_connVars

-----------------------------------------------------------------------------
(* Properties.                                                             *)

\* A text without ESC and backslash appears as the process printed it, however
\* it is cut into messages, and all of it when osh reports the end of a command
\* without a PTY (main.rs 251, 259, protocol.rs 288, daemon.rs 650).
TextPrinted ==
    kind = "osh" /\ Range(printed) \cap {ESC, Backslash} = {} =>
        /\ IsPrefix(shown, printed)
        /\ peer = "EXIT" /\ ~pty => shown = printed

\* What osh reports is what became of its request: it is never told that its
\* request is unknown, even if an input crosses the answer, and the end of the
\* process it reports is the one the daemon saw (relay.rs 311-345, 560-578).
AnswerTrue ==
    /\ peer # "INVALID_REQ_ID"
    /\ peer \in Finals => final = peer
    /\ peer \in {"DEVICE_NOT_FOUND", "DEVICE_NOT_APPROVED"} => shown = <<>>
    /\ peer = "ADMIN_RELOAD_OK" => reloaded

\* osh-admin does not report a reload that the relay did as a failure, unless it
\* has not heard of it (bin/osh-admin.rs 213).
ReloadHonest == reloaded => peer # "unexpected"
==============================================================================
