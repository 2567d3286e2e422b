---------------------------- MODULE Daemon_proofs ----------------------------
(***************************************************************************)
(* Theorems about Daemon, over any number of connections.                  *)
(***************************************************************************)
EXTENDS Daemon, TLAPS

LEMMA ListeningBoolean == Listening \in BOOLEAN
  BY DEF Listening

\* Every variable keeps its type (daemon.rs 34-58, 239-242).
THEOREM TypeCorrect == DaemonSpec => []DaemonTypeOK
<1>1. DaemonInit => DaemonTypeOK
  BY DEF DaemonInit, NoConnection, DaemonTypeOK, States, Reasons
<1>2. DaemonTypeOK /\ [DaemonNext]_daemonVars => DaemonTypeOK'
  <2> SUFFICES ASSUME DaemonTypeOK, [DaemonNext]_daemonVars
               PROVE  DaemonTypeOK'
    OBVIOUS
  <2> USE DEF DaemonTypeOK, States, Reasons, Serving, Breaking, connVars, signalVars
  <2>1. CASE Forward \/ SendStop \/ DropStop
    <3>1. heard' = heard \/ heard' = Listening
      BY <2>1, Zenon DEF Forward, SendStop, DropStop
    <3>2. heard' \in BOOLEAN
      BY ListeningBoolean, <3>1
    <3>3. signal' \in {"open", "sent", "forwarded", "closed"}
      BY <2>1 DEF Forward, SendStop, DropStop
    <3>4. UNCHANGED <<loop, state, reason, why, msg, stale, heart, told, taken>>
      BY <2>1 DEF Forward, SendStop, DropStop
    <3> QED  BY <3>2, <3>3, <3>4
  <2>2. CASE RunStep
    BY <2>2 DEF RunStep, Start, Connect, ConnectFails, Reconnect
  <2>3. CASE HandlePairResponse
    BY <2>3 DEF HandlePairResponse, StateAfter, Replies
  <2>4. CASE HandleCommand \/ Execute
    BY <2>4 DEF HandleCommand, Execute
  <2>5. CASE ReadTimeout \/ ReadEnds \/ TakeShutdown
    BY <2>5 DEF ReadTimeout, ReadEnds, TakeShutdown, Break
  <2>6. CASE WriteReason \/ Return
    BY <2>6 DEF WriteReason, Return, NextAfter, Forget
  <2>7. CASE Beat
    BY <2>7 DEF Beat, HeartTick, HeartCheck, HeartDeclare, HeartReason
  <2>8. CASE Silence
    BY <2>8 DEF Silence
  <2>9. CASE \E m \in Messages : Receive(m)
    <3>1. PICK m \in Messages : Receive(m)
      BY <2>9
    <3>2. loop' \in {"select", "handle"} /\ msg' \in {msg, m}
      BY <3>1 DEF Receive
    <3>3. UNCHANGED <<state, reason, why, heart, told, signal, heard, taken>>
      BY <3>1 DEF Receive
    <3>4. msg' \in Messages \cup {"none"}
      BY <3>2
    <3>5. stale' \in BOOLEAN
      BY <3>1, Zenon DEF Receive
    <3> QED  BY <3>2, <3>3, <3>4, <3>5
  <2>10. CASE UNCHANGED daemonVars
    BY <2>10 DEF daemonVars
  <2> QED
    BY <2>1, <2>2, <2>3, <2>4, <2>5, <2>6, <2>7, <2>8, <2>9, <2>10
    DEF DaemonNext, DaemonStep, Handling, Leaving
<1> QED  BY <1>1, <1>2, PTL DEF DaemonSpec

-----------------------------------------------------------------------------
(* Approval.                                                               *)

\* The state says Approved only after an approval on this connection: nobody but
\* the handler of a pairing reply writes Approved, and it writes told with it.
ApprovalTold == state = "Approved" => told = "PAIR_APPROVED"

\* No command runs without an approval on this connection (daemon.rs 478-485).
THEOREM CommandsNeedApproval == DaemonSpec => []CommandsApproved
<1> DEFINE IInv == ApprovalTold /\ CommandsApproved
<1>1. DaemonInit => IInv
  BY DEF DaemonInit, NoConnection, ApprovalTold, CommandsApproved
<1>2. IInv /\ [DaemonNext]_daemonVars => IInv'
  <2> SUFFICES ASSUME ApprovalTold, CommandsApproved, [DaemonNext]_daemonVars
               PROVE  ApprovalTold' /\ CommandsApproved'
    OBVIOUS
  <2> USE DEF ApprovalTold, CommandsApproved, connVars, signalVars
  <2>1. CASE Forward \/ SendStop \/ DropStop
    BY <2>1 DEF Forward, SendStop, DropStop
  <2>2. CASE RunStep
    BY <2>2 DEF RunStep, Start, Connect, ConnectFails, Reconnect
  <2>3. CASE HandlePairResponse
    BY <2>3 DEF HandlePairResponse, StateAfter
  <2>4. CASE HandleCommand \/ Execute
    BY <2>4 DEF HandleCommand, Execute
  <2>5. CASE ReadTimeout \/ ReadEnds \/ TakeShutdown
    BY <2>5 DEF ReadTimeout, ReadEnds, TakeShutdown, Break
  <2>6. CASE WriteReason \/ Return
    BY <2>6 DEF WriteReason, Return, NextAfter, Forget
  <2>7. CASE Beat
    BY <2>7 DEF Beat, HeartTick, HeartCheck, HeartDeclare, HeartReason
  <2>8. CASE Silence
    BY <2>8 DEF Silence
  <2>9. CASE \E m \in Messages : Receive(m)
    BY <2>9 DEF Receive
  <2>10. CASE UNCHANGED daemonVars
    BY <2>10 DEF daemonVars
  <2> QED
    BY <2>1, <2>2, <2>3, <2>4, <2>5, <2>6, <2>7, <2>8, <2>9, <2>10
    DEF DaemonNext, DaemonStep, Handling, Leaving
<1> QED  BY <1>1, <1>2, PTL DEF DaemonSpec

-----------------------------------------------------------------------------
(* Refinement.                                                             *)

\* Whatever speaks of a stop, on its way from the channel to the end of the
\* daemon, does so after a signal was forwarded.
StopForwarded ==
    /\ heard \/ why = "UserInitiated" \/ reason = "UserInitiated" => signal = "forwarded"
    /\ loop = "stopped" => signal = "forwarded"
    /\ loop = "new" => signal # "forwarded"

LEMMA StopsForwarded == DaemonSpec => []StopForwarded
<1>1. DaemonInit => StopForwarded
  BY DEF DaemonInit, NoConnection, StopForwarded
<1>2. StopForwarded /\ [DaemonNext]_daemonVars => StopForwarded'
  <2> SUFFICES ASSUME StopForwarded, [DaemonNext]_daemonVars
               PROVE  StopForwarded'
    OBVIOUS
  <2> USE DEF StopForwarded, connVars, signalVars
  <2>1. CASE Forward \/ SendStop \/ DropStop
    BY <2>1 DEF Forward, SendStop, DropStop
  <2>2. CASE RunStep
    BY <2>2 DEF RunStep, Start, Connect, ConnectFails, Reconnect
  <2>3. CASE Handling
    BY <2>3 DEF Handling, HandlePairResponse, HandleCommand, Execute
  <2>4. CASE ReadTimeout \/ ReadEnds \/ TakeShutdown
    BY <2>4 DEF ReadTimeout, ReadEnds, TakeShutdown, Break
  <2>5. CASE WriteReason \/ Return
    BY <2>5 DEF WriteReason, Return, NextAfter, Forget
  <2>6. CASE Beat
    BY <2>6 DEF Beat, HeartTick, HeartCheck, HeartDeclare, HeartReason
  <2>7. CASE Silence
    BY <2>7 DEF Silence
  <2>8. CASE \E m \in Messages : Receive(m)
    BY <2>8 DEF Receive
  <2>9. CASE UNCHANGED daemonVars
    BY <2>9 DEF daemonVars
  <2> QED
    BY <2>1, <2>2, <2>3, <2>4, <2>5, <2>6, <2>7, <2>8, <2>9
    DEF DaemonNext, DaemonStep, Leaving
<1> QED  BY <1>1, <1>2, PTL DEF DaemonSpec

\* The two parts of the front end's view, for one daemon.
LEMMA ViewSteps ==
    /\ LifePhase' = LifePhase /\ signal' = signal => UNCHANGED Life!lifeVars
    /\ signal = "open" /\ signal' \in {"sent", "closed"} /\ LifePhase' = LifePhase
         => Life!LifeNext
    /\ LifePhase = "up" /\ signal = "sent" /\ signal' = "forwarded" /\ LifePhase' = LifePhase
         => Life!LifeNext
    /\ LifePhase = "new" /\ LifePhase' \in {"up", "failed"} /\ signal' = signal
         => Life!LifeNext
    /\ LifePhase = "up" /\ signal = "forwarded" /\ LifePhase' = "stopped" /\ signal' = signal
         => Life!LifeNext
<1> USE DEF Life!LifeNext, Life!LifeStep, Life!Become, Life!Channel
<1>1. ASSUME LifePhase' = LifePhase, signal' = signal
      PROVE  UNCHANGED Life!lifeVars
  BY <1>1 DEF Life!lifeVars
<1>2. ASSUME signal = "open", signal' \in {"sent", "closed"}, LifePhase' = LifePhase
      PROVE  Life!LifeNext
  <2>1. Life!Send("this") \/ Life!Drop("this")
    BY <1>2 DEF Life!Send, Life!Drop
  <2> QED  BY <2>1
<1>3. ASSUME LifePhase = "up", signal = "sent", signal' = "forwarded", LifePhase' = LifePhase
      PROVE  Life!LifeNext
  <2>1. Life!Deliver("this")
    BY <1>3 DEF Life!Deliver
  <2> QED  BY <2>1
<1>4. ASSUME LifePhase = "new", LifePhase' \in {"up", "failed"}, signal' = signal
      PROVE  Life!LifeNext
  <2>1. Life!Begin("this")
    BY <1>4 DEF Life!Begin
  <2> QED  BY <2>1
<1>5. ASSUME LifePhase = "up", signal = "forwarded", LifePhase' = "stopped", signal' = signal
      PROVE  Life!LifeNext
  <2>1. Life!End("this")
    BY <1>5 DEF Life!End
  <2> QED  BY <2>1
<1> QED  BY <1>1, <1>2, <1>3, <1>4, <1>5

\* The daemon is a call as Lifecycle describes it: it ends by itself only after a
\* signal was sent and forwarded (daemon.rs 113-144, 361-366).
THEOREM DaemonImplementsLifecycle == DaemonSpec => ImplementsLifecycle
<1>1. DaemonInit => Life!LifeInit
  BY DEF DaemonInit, Life!LifeInit, LifePhase
<1>2. DaemonTypeOK /\ StopForwarded /\ [DaemonNext]_daemonVars
        => [Life!LifeNext]_(Life!lifeVars)
  <2> SUFFICES ASSUME DaemonTypeOK, StopForwarded, [DaemonNext]_daemonVars
               PROVE  Life!LifeNext \/ UNCHANGED Life!lifeVars
    OBVIOUS
  <2>1. CASE SendStop \/ DropStop
    BY <2>1, ViewSteps DEF SendStop, DropStop, LifePhase
  <2>2. CASE Forward
    <3>1. LifePhase = "up" /\ LifePhase' = LifePhase
      BY <2>2 DEF Forward, LifePhase, StopForwarded
    <3> QED  BY <2>2, <3>1, ViewSteps DEF Forward
  <2>3. CASE Start
    <3>1. LifePhase = "new" /\ LifePhase' \in {"up", "failed"} /\ signal' = signal
      BY <2>3 DEF Start, LifePhase, signalVars
    <3> QED  BY <3>1, ViewSteps
  <2>4. CASE Return
    <3>1. CASE reason = "UserInitiated"
      <4>1. LifePhase = "up" /\ LifePhase' = "stopped" /\ signal' = signal
        BY <2>4, <3>1 DEF Return, NextAfter, LifePhase
      <4> QED  BY <3>1, <4>1, ViewSteps DEF StopForwarded
    <3>2. CASE reason # "UserInitiated"
      <4>1. LifePhase' = LifePhase /\ signal' = signal
        BY <2>4, <3>2 DEF Return, NextAfter, LifePhase
      <4> QED  BY <4>1, ViewSteps
    <3> QED  BY <3>1, <3>2
  <2>5. CASE Connect \/ ConnectFails \/ Reconnect \/ Silence \/ Handling
    <3>1. LifePhase' = LifePhase /\ signal' = signal
      BY <2>5 DEF Connect, ConnectFails, Reconnect, Silence, Handling, HandlePairResponse,
         HandleCommand, Execute, LifePhase, signalVars, Serving
    <3> QED  BY <3>1, ViewSteps
  <2>6. CASE \E m \in Messages : Receive(m)
    <3>1. LifePhase' = LifePhase /\ signal' = signal
      BY <2>6 DEF Receive, LifePhase, signalVars
    <3> QED  BY <3>1, ViewSteps
  <2>7. CASE ReadTimeout \/ ReadEnds \/ TakeShutdown \/ WriteReason
    <3>1. LifePhase' = LifePhase /\ signal' = signal
      BY <2>7 DEF ReadTimeout, ReadEnds, TakeShutdown, WriteReason, Break, LifePhase, signalVars
    <3> QED  BY <3>1, ViewSteps
  <2>8. CASE Beat
    <3>1. LifePhase' = LifePhase /\ signal' = signal
      BY <2>8 DEF Beat, HeartTick, HeartCheck, HeartDeclare, HeartReason, LifePhase, signalVars
    <3> QED  BY <3>1, ViewSteps
  <2>9. CASE UNCHANGED daemonVars
    <3>1. LifePhase' = LifePhase /\ signal' = signal
      BY <2>9 DEF daemonVars, LifePhase, signalVars
    <3> QED  BY <3>1, ViewSteps
  <2> QED
    BY <2>1, <2>2, <2>3, <2>4, <2>5, <2>6, <2>7, <2>8, <2>9
    DEF DaemonNext, DaemonStep, RunStep, Leaving
<1>3. DaemonSpec => []DaemonTypeOK
  BY TypeCorrect
<1>4. DaemonSpec => []StopForwarded
  BY StopsForwarded
<1> QED  BY <1>1, <1>2, <1>3, <1>4, PTL DEF DaemonSpec, ImplementsLifecycle, Life!LifeSpec
=============================================================================
