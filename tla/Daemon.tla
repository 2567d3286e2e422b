------------------------------- MODULE Daemon -------------------------------
(***************************************************************************)
(* The life of osh-daemon: osh-daemon/src/daemon.rs without the execution  *)
(* of commands.  run_with_shutdown connects, serves, waits and connects    *)
(* again until the user stops it; one connection has a main loop and a     *)
(* heartbeat task that share `state`, `last_activity` and                  *)
(* `disconnect_reason`, and a shutdown signal that is forwarded once, by   *)
(* broadcast, to whichever connection listens at that moment.              *)
(*                                                                         *)
(* An action is one stretch between two awaits of the main loop, of the    *)
(* heartbeat task or of the forwarding task.  Time is the flag stale: more *)
(* than HEARTBEAT_TIMEOUT has passed since last_activity.  The relay is    *)
(* the environment: it may send any message, fall silent or close at any   *)
(* time.  The variables of a connection exist while it does: Connect sets  *)
(* them and Return resets them.                                            *)
(***************************************************************************)

VARIABLES
    loop,    \* where run_with_shutdown and the main loop of its connection are
    state,   \* DaemonState of the connection
    reason,  \* disconnect_reason of the connection
    why,     \* the reason with which the main loop broke, not yet written
    msg,     \* the message the main loop handles
    stale,   \* last_activity.elapsed() > HEARTBEAT_TIMEOUT
    heart,   \* where the heartbeat task is
    signal,  \* the mpsc channel of the shutdown signal and its forwarding task
    heard,   \* whether the connection's broadcast receiver holds the signal
    taken,   \* history: the main loop has taken the signal
    told     \* history: the last pairing reply handled on this connection

connVars   == <<state, reason, why, msg, stale, heart, told>>
signalVars == <<signal, heard, taken>>
daemonVars == <<loop, connVars, signalVars>>

\* Connecting, the fifth state of the enum, is never entered.
States   == {"WaitingForPairing", "Approved", "Disconnected", "ShuttingDown"}
Reasons  == {"UserInitiated", "HeartbeatTimeout", "WebSocketError", "ServerClosed", "Other"}
Replies  == {"PAIR_APPROVED", "PAIR_PENDING", "PAIR_REJECTED", "PAIR_AUTH_FAILED", "PAIR_LIMIT_EXCEEDED"}
Messages == Replies \cup {"COMMAND", "PING"}
Serving  == {"select", "handle", "execute"}
Breaking == {"leaving", "cleanup"}

DaemonTypeOK ==
    /\ loop   \in {"new", "connect", "waiting", "stopped", "failed"} \cup Serving \cup Breaking
    /\ state  \in States
    /\ reason \in Reasons
    /\ why    \in Reasons
    /\ msg    \in Messages \cup {"none"}
    /\ stale  \in BOOLEAN
    /\ heart  \in {"none", "tick", "check", "expired", "declared"}
    /\ signal \in {"open", "sent", "forwarded", "closed"}
    /\ heard  \in BOOLEAN
    /\ taken  \in BOOLEAN
    /\ told   \in Replies \cup {"none"}

NoConnection ==
    /\ state  = "Disconnected"
    /\ reason = "Other"
    /\ why    = "Other"
    /\ msg    = "none"
    /\ stale  = FALSE
    /\ heart  = "none"
    /\ told   = "none"

DaemonInit ==
    /\ loop   = "new"
    /\ signal = "open"
    /\ heard  = FALSE
    /\ taken  = FALSE
    /\ NoConnection

-----------------------------------------------------------------------------
(* The shutdown signal.                                                    *)

\* The connection subscribes before it connects and listens until it returns.
Listening == loop \in {"connect"} \cup Serving \cup Breaking

\* The front end sends on the mpsc channel.  Nobody reads a second one.
SendStop ==
    /\ signal = "open"
    /\ signal' = "sent"
    /\ UNCHANGED <<loop, connVars, heard, taken>>

\* The front end drops its sender: recv() yields None and the task ends.
DropStop ==
    /\ signal = "open"
    /\ signal' = "closed"
    /\ UNCHANGED <<loop, connVars, heard, taken>>

\* mutant: the task forwards the end of the channel like a signal.
ForwardAny ==
    /\ loop # "new" /\ signal \in {"sent", "closed"}
    /\ heard' = Listening
    /\ signal' = IF signal = "sent" THEN "forwarded" ELSE signal
    /\ UNCHANGED <<loop, connVars, taken>>

\* Without a subscriber broadcast_tx.send fails, and nothing is kept.
Forward ==
    /\ loop \notin {"new", "failed"} /\ signal = "sent"
    /\ signal' = "forwarded"
    /\ heard' = Listening
    /\ UNCHANGED <<loop, connVars, taken>>

-----------------------------------------------------------------------------
(* run_with_shutdown.                                                      *)

\* load_config may fail, which ends the daemon.  The task that forwards the signal is
\* there before the first connection listens: until Reconnect nobody does.
Start ==
    /\ loop = "new"
    /\ \E l \in {"waiting", "failed"} : loop' = l
    /\ UNCHANGED <<connVars, signalVars>>

Connect ==
    /\ loop = "connect"
    /\ loop' = "select"
    /\ state' = "WaitingForPairing"
    /\ reason' = "Other"
    /\ stale' = FALSE
    /\ heart' = "tick"
    /\ UNCHANGED <<why, msg, told, signalVars>>

\* connect_async or the pairing request fails: WebSocketError, with the signal
\* the receiver may hold.
ConnectFails ==
    /\ loop = "connect"
    /\ loop' = "waiting"
    /\ heard' = FALSE
    /\ UNCHANGED <<connVars, signal, taken>>

\* The wait between attempts, 10 seconds to 10 minutes, is over (before the first
\* there is none): the next connection subscribes to the signal.
Reconnect ==
    /\ loop = "waiting"
    /\ loop' = "connect"
    /\ UNCHANGED <<connVars, signalVars>>

-----------------------------------------------------------------------------
(* The main loop.                                                          *)

\* Time passes without a message from the relay.
Silence ==
    /\ loop \in Serving
    /\ stale' = TRUE
    /\ UNCHANGED <<loop, state, reason, why, msg, heart, told, signalVars>>

Receive(m) ==
    /\ loop = "select"
    /\ stale' = FALSE
    /\ IF m = "PING"
         THEN UNCHANGED <<loop, msg>>
         ELSE loop' = "handle" /\ msg' = m
    /\ UNCHANGED <<state, reason, why, heart, told, signalVars>>

\* mutant: a daemon that is refused stays as it was.
StateAfterApproval(m) == IF m = "PAIR_PENDING" THEN "WaitingForPairing" ELSE "Approved"

\* mutant: a daemon that is refused goes back to Connecting.
StateAfterConnecting(m) ==
    CASE m = "PAIR_APPROVED" -> "Approved"
      [] m = "PAIR_PENDING"  -> "WaitingForPairing"
      [] OTHER               -> "Connecting"

StateAfter(m) ==
    CASE m = "PAIR_APPROVED" -> "Approved"
      [] m = "PAIR_PENDING"  -> "WaitingForPairing"
      [] OTHER               -> "Disconnected"

\* A refusal sets the state and is logged as an error; the loop goes on.
HandlePairResponse ==
    /\ loop = "handle"
    /\ msg \in Replies
    /\ state' = StateAfter(msg)
    /\ told' = msg
    /\ msg' = "none"
    /\ loop' = "select"
    /\ UNCHANGED <<reason, why, stale, heart, signalVars>>

\* A command is ignored unless the state is Approved when it is looked at.
HandleCommand ==
    /\ loop = "handle"
    /\ msg \notin Replies
    /\ msg' = "none"
    /\ loop' = IF state = "Approved" THEN "execute" ELSE "select"
    /\ UNCHANGED <<state, reason, why, stale, heart, told, signalVars>>

Execute ==
    /\ loop = "execute"
    /\ loop' = "select"
    /\ UNCHANGED <<connVars, signalVars>>

\* The loop breaks: the state is written at once, the reason after an await.
Break(s, w) ==
    /\ loop' = "leaving"
    /\ state' = s
    /\ why' = w
    /\ UNCHANGED <<reason, msg, stale, heart, told, signal>>

\* mutant: only an approved daemon looks for the signal.
TakeShutdownApproved ==
    /\ loop = "select"
    /\ heard /\ state = "Approved"
    /\ heard' = FALSE
    /\ taken' = TRUE
    /\ Break("ShuttingDown", "UserInitiated")

TakeShutdown ==
    /\ loop = "select"
    /\ heard
    /\ heard' = FALSE
    /\ taken' = TRUE
    /\ Break("ShuttingDown", "UserInitiated")

\* mutant: left to the heartbeat task.
ReadTimeoutBeaten ==
    /\ loop = "select"
    /\ stale /\ heart # "none"
    /\ Break("Disconnected", "HeartbeatTimeout")
    /\ UNCHANGED <<heard, taken>>

ReadTimeout ==
    /\ loop = "select"
    /\ stale
    /\ Break("Disconnected", "HeartbeatTimeout")
    /\ UNCHANGED <<heard, taken>>

\* The relay closes, or the socket fails.
ReadEnds ==
    /\ loop = "select"
    /\ \E w \in {"WebSocketError", "ServerClosed"} : Break("Disconnected", w)
    /\ UNCHANGED <<heard, taken>>

WriteReason ==
    /\ loop = "leaving"
    /\ reason' = why
    /\ why' = "Other"
    /\ loop' = "cleanup"
    /\ UNCHANGED <<state, msg, stale, heart, told, signalVars>>

\* mutant: a timeout ends the daemon as well.
NextAfterTimeout(w) == IF w \in {"UserInitiated", "HeartbeatTimeout"} THEN "stopped" ELSE "waiting"

NextAfter(w) == IF w = "UserInitiated" THEN "stopped" ELSE "waiting"

\* The variables of the connection go with it.
Forget ==
    /\ state' = "Disconnected"
    /\ reason' = "Other"
    /\ stale' = FALSE
    /\ told' = "none"

\* The tasks are aborted, the receiver dropped, and the reason read again.
Return ==
    /\ loop = "cleanup"
    /\ loop' = NextAfter(reason)
    /\ heard' = FALSE
    /\ heart' = "none"
    /\ Forget
    /\ UNCHANGED <<why, msg, signal, taken>>

-----------------------------------------------------------------------------
(* The heartbeat task.                                                     *)

HeartTick ==
    /\ heart = "tick"
    /\ heart' = IF state \in {"Disconnected", "ShuttingDown"} THEN "none" ELSE "check"
    /\ UNCHANGED <<loop, state, reason, why, msg, stale, told, signalVars>>

\* A ping goes out unless the timeout is over; if it cannot be queued, because
\* the task that writes has failed, the heartbeat ends.
HeartCheck ==
    /\ heart = "check"
    /\ \/ stale /\ heart' = "expired"
       \/ ~stale /\ \E h \in {"tick", "none"} : heart' = h
    /\ UNCHANGED <<loop, state, reason, why, msg, stale, told, signalVars>>

\* Two writes under two locks, without another look at the state.
HeartDeclare ==
    /\ heart = "expired"
    /\ state' = "Disconnected"
    /\ heart' = "declared"
    /\ UNCHANGED <<loop, reason, why, msg, stale, told, signalVars>>

HeartReason ==
    /\ heart = "declared"
    /\ reason' = "HeartbeatTimeout"
    /\ heart' = "none"
    /\ UNCHANGED <<loop, state, why, msg, stale, told, signalVars>>

-----------------------------------------------------------------------------
RunStep  == Start \/ Connect \/ ConnectFails \/ Reconnect
Handling == HandlePairResponse \/ HandleCommand \/ Execute
Leaving  == ReadTimeout \/ WriteReason \/ Return
Beat     == HeartTick \/ HeartCheck \/ HeartDeclare \/ HeartReason

DaemonStep ==
    \/ Forward \/ RunStep \/ Handling \/ Leaving \/ Beat
    \/ TakeShutdown \/ ReadEnds \/ Silence
    \/ \E m \in Messages : Receive(m)

DaemonNext == DaemonStep \/ SendStop \/ DropStop

DaemonSpec == DaemonInit /\ [][DaemonNext]_daemonVars

\* Tokio runs the tasks that can run; a connection attempt and a wait end;
\* select! polls its branches in random order, so a signal that waits is taken
\* although messages keep coming (SF).
DaemonFairness ==
    /\ WF_daemonVars(Forward) /\ WF_daemonVars(RunStep)
    /\ WF_daemonVars(Handling \/ Leaving) /\ WF_daemonVars(Beat)
    /\ SF_daemonVars(TakeShutdown)

FairDaemonSpec == DaemonSpec /\ DaemonFairness

-----------------------------------------------------------------------------
(* Properties.                                                             *)

\* A command runs only if the last pairing reply on this very connection was
\* an approval, although the heartbeat task writes the state as well and the
\* connection may be the successor of an approved one (daemon.rs 478-485).
CommandsApproved == loop = "execute" => told = "PAIR_APPROVED"

\* A relay that stays silent is left, also when the heartbeat task has ended
\* (daemon.rs 404-412).
SilenceNoticed == loop = "select" /\ stale ~> ~stale \/ loop \notin Serving

\* A connection that has ended is followed by another attempt, unless the user
\* stopped the daemon (daemon.rs 124-182).
Reconnects == loop \in Breaking ~> loop = "connect" \/ taken

\* A connection that holds the signal ends, whatever it does and whatever the
\* relay keeps sending (daemon.rs 359-366).
SignalEndsConnection == heard ~> loop \notin Serving \cup {"connect"}

-----------------------------------------------------------------------------
(* To its front end the daemon is one call of Lifecycle.                   *)

LifePhase ==
    CASE loop = "new"                   -> "new"
      [] loop \in {"stopped", "failed"} -> loop
      [] OTHER                          -> "up"

Life == INSTANCE Lifecycle WITH
    Daemons <- {"this"},
    phase   <- [d \in {"this"} |-> LifePhase],
    signal  <- [d \in {"this"} |-> signal]

\* run_with_shutdown returns by itself only after a signal was sent and
\* forwarded: neither the end of the front end's channel nor any failure of a
\* connection ends it (daemon.rs 113-144, 361-366).
ImplementsLifecycle == Life!LifeSpec
=============================================================================
