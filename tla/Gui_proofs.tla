------------------------------ MODULE Gui_proofs ------------------------------
(***************************************************************************)
(* Theorems about Gui, for any number of starts.                           *)
(***************************************************************************)
EXTENDS Gui, TLAPS

-----------------------------------------------------------------------------
(* Types.                                                                  *)

\* Giving up a sender closes at most that daemon's channel, and only if it is open.
LEMMA ReleaseCloses ==
    ASSUME GuiTypeOK, NEW next, Release(next)
    PROVE  \/ signal' = signal
           \/ \E d \in Daemons : signal[d] = "open" /\ signal' = [signal EXCEPT ![d] = "closed"]
  BY GuiAssumption DEF GuiTypeOK, Release

\* Every variable keeps its type (main.rs 43-84).
THEOREM TypeCorrect == GuiSpec => []GuiTypeOK
<1>1. ASSUME GuiInit
      PROVE  GuiTypeOK
  <2>1. running \in BOOLEAN /\ calm \in BOOLEAN
    BY <1>1, Zenon DEF GuiInit
  <2>2. windows \in BOOLEAN /\ monitor \in {"sleep", "read", "gone"}
    BY <1>1 DEF GuiInit
  <2> QED  BY <1>1, <2>1, <2>2 DEF GuiInit, GuiTypeOK, Life!LifeInit, Shown
<1>2. GuiTypeOK /\ [GuiNext]_guiVars => GuiTypeOK'
  <2> SUFFICES ASSUME GuiTypeOK, [GuiNext]_guiVars
               PROVE  GuiTypeOK'
    OBVIOUS
  <2> USE DEF GuiTypeOK, Shown, taskVars, appVars, uiVars
  <2>1. ASSUME NEW d \in Daemons, ClickStart(d)
        PROVE  GuiTypeOK'
    <3>1. calm' \in BOOLEAN
      BY <2>1, Zenon DEF ClickStart
    <3> QED  BY <2>1, <3>1 DEF ClickStart
  <2>2. CASE ClickStop
    <3>1. calm' \in BOOLEAN
      BY <2>2, Zenon DEF ClickStop
    <3> QED  BY <2>2, <3>1 DEF ClickStop
  <2>3. ASSUME NEW d \in Daemons, Spawn(d) \/ Listen(d)
        PROVE  GuiTypeOK'
    BY <2>3 DEF Spawn, Listen
  <2>4. ASSUME NEW d \in Daemons, Store(d)
        PROVE  GuiTypeOK'
    <3>1. signal' \in [Daemons -> {"open", "sent", "forwarded", "closed"}] /\ tx' = d
      BY <2>4, ReleaseCloses DEF Store, Release
    <3>2. running' \in BOOLEAN
      BY <2>4, Zenon DEF Store
    <3> QED  BY <2>4, <3>1, <3>2 DEF Store
  <2>5. ASSUME NEW d \in Daemons, SendSignal(d)
        PROVE  GuiTypeOK'
    BY <2>5 DEF SendSignal, Life!Send, Life!Channel
  <2>6. ASSUME NEW d \in Daemons, Run(d)
        PROVE  GuiTypeOK'
    BY <2>6 DEF Run, Life!LifeStep, Life!Begin, Life!Deliver, Life!End, Life!Become, Life!Channel
  <2>7. ASSUME NEW d \in Daemons, Reset(d)
        PROVE  GuiTypeOK'
    <3>1. signal' \in [Daemons -> {"open", "sent", "forwarded", "closed"}] /\ tx' = None
      BY <2>7, ReleaseCloses DEF Reset, Release
    <3>2. running' \in BOOLEAN
      BY <2>7, Zenon DEF Reset
    <3> QED  BY <2>7, <3>1, <3>2 DEF Reset
  <2>8. ASSUME NEW l \in Daemons, PipeStep(l)
        PROVE  GuiTypeOK'
    BY <2>8 DEF PipeStep, Hear, HearEnd
  <2>9. ASSUME NEW d \in Daemons, NEW l \in Daemons, NEW s \in Shown, Report(d, l, s)
        PROVE  GuiTypeOK'
    BY <2>9 DEF Report
  <2>10. CASE MonitorLooks \/ MonitorReads
    BY <2>10 DEF MonitorLooks, MonitorReads
  <2>11. CASE UNCHANGED guiVars
    BY <2>11 DEF guiVars
  <2> QED
    BY <2>1, <2>2, <2>3, <2>4, <2>5, <2>6, <2>7, <2>8, <2>9, <2>10, <2>11
    DEF GuiNext, StartStep, TaskStep
<1> QED  BY <1>1, <1>2, PTL DEF GuiSpec

-----------------------------------------------------------------------------
(* Lifecycle.                                                              *)

\* The application sends and closes the channel of a daemon at most once, and
\* leaves its phase alone (main.rs 262-282, 475-505).
THEOREM GuiUsesLifecycle == GuiSpec => UsesLifecycle
<1>1. GuiInit => Life!LifeInit
  BY DEF GuiInit
<1>2. GuiTypeOK /\ [GuiNext]_guiVars => [Life!LifeNext]_(Life!lifeVars)
  <2> SUFFICES ASSUME GuiTypeOK, [GuiNext]_guiVars
               PROVE  Life!LifeNext \/ UNCHANGED <<phase, signal>>
    BY DEF Life!lifeVars
  <2> USE DEF taskVars
  <2>1. ASSUME NEW d \in Daemons, ClickStart(d) \/ Spawn(d) \/ Listen(d) \/ PipeStep(d)
        PROVE  UNCHANGED <<phase, signal>>
    BY <2>1 DEF ClickStart, Spawn, Listen, PipeStep, Hear, HearEnd
  <2>2. CASE ClickStop \/ MonitorLooks \/ MonitorReads
    BY <2>2 DEF ClickStop, MonitorLooks, MonitorReads
  <2>3. ASSUME NEW d \in Daemons, Store(d) \/ Reset(d)
        PROVE  Life!LifeNext \/ UNCHANGED <<phase, signal>>
    <3>1. phase' = phase /\ \E next \in {d, None} : Release(next)
      BY <2>3 DEF Store, Reset
    <3>2. CASE \E e \in Daemons : signal[e] = "open" /\ signal' = [signal EXCEPT ![e] = "closed"]
      BY <3>1, <3>2 DEF Life!LifeNext, Life!Drop, Life!Channel
    <3> QED  BY <3>1, <3>2, ReleaseCloses
  <2>4. ASSUME NEW d \in Daemons, SendSignal(d)
        PROVE  Life!LifeNext \/ UNCHANGED <<phase, signal>>
    BY <2>4 DEF SendSignal, Life!LifeNext
  <2>5. ASSUME NEW d \in Daemons, Run(d)
        PROVE  Life!LifeNext
    BY <2>5 DEF Run, Life!LifeNext
  <2>6. ASSUME NEW d \in Daemons, NEW l \in Daemons, NEW s \in Shown, Report(d, l, s)
        PROVE  UNCHANGED <<phase, signal>>
    BY <2>6 DEF Report
  <2>7. CASE UNCHANGED guiVars
    BY <2>7 DEF guiVars
  <2> QED
    BY <2>1, <2>2, <2>3, <2>4, <2>5, <2>6, <2>7
    DEF GuiNext, StartStep, TaskStep
<1>3. GuiSpec => []GuiTypeOK
  BY TypeCorrect
<1> QED  BY <1>1, <1>2, <1>3, PTL DEF GuiSpec, UsesLifecycle, Life!LifeSpec

-----------------------------------------------------------------------------
(* What a start leaves behind, in which order.                             *)

\* A daemon runs once it is spawned; nobody has its sender before it is stored;
\* who has it keeps the channel open; a daemon ends by itself or by a signal.
Ordered ==
    /\ \A d \in Daemons :
         /\ thread[d] \in {"none", "begin"} => phase[d] = "new"
         /\ thread[d] \in {"none", "begin", "store"} =>
              signal[d] = "open" /\ d \notin sending /\ tx # d
         /\ d \in sending \/ tx = d => signal[d] # "closed"
         /\ d \in ended => phase[d] \in {"failed", "stopped"}
         /\ phase[d] = "stopped" => signal[d] = "forwarded"
    /\ windows => monitor = "gone"

LEMMA StartsOrdered == GuiSpec => []Ordered
<1>1. GuiInit => Ordered
  BY GuiAssumption DEF GuiInit, Life!LifeInit, Ordered
<1>2. GuiTypeOK /\ Ordered /\ [GuiNext]_guiVars => Ordered'
  <2> SUFFICES ASSUME GuiTypeOK, Ordered, [GuiNext]_guiVars
               PROVE  Ordered'
    OBVIOUS
  <2> USE GuiAssumption DEF Ordered, taskVars, appVars, uiVars
  <2>1. ASSUME NEW d \in Daemons, ClickStart(d) \/ Spawn(d) \/ Listen(d)
        PROVE  Ordered'
    BY <2>1 DEF GuiTypeOK, ClickStart, Spawn, Listen
  <2>2. CASE ClickStop
    BY <2>2 DEF ClickStop
  <2>3. ASSUME NEW d \in Daemons, Store(d)
        PROVE  Ordered'
    BY <2>3 DEF GuiTypeOK, Store, Release
  <2>4. ASSUME NEW d \in Daemons, Reset(d)
        PROVE  Ordered'
    BY <2>4 DEF GuiTypeOK, Reset, Release
  <2>5. ASSUME NEW d \in Daemons, SendSignal(d)
        PROVE  Ordered'
    BY <2>5 DEF GuiTypeOK, SendSignal, Life!Send, Life!Channel
  <2>6. ASSUME NEW d \in Daemons, Run(d)
        PROVE  Ordered'
    BY <2>6 DEF GuiTypeOK, Run, Life!LifeStep, Life!Begin, Life!Deliver, Life!End,
       Life!Become, Life!Channel
  <2>7. ASSUME NEW d \in Daemons, PipeStep(d)
        PROVE  Ordered'
    BY <2>7 DEF PipeStep, Hear, HearEnd
  <2>8. ASSUME NEW d \in Daemons, NEW l \in Daemons, NEW s \in Shown, Report(d, l, s)
        PROVE  Ordered'
    BY <2>8 DEF Report
  <2>9. CASE MonitorLooks \/ MonitorReads
    BY <2>9 DEF MonitorLooks, MonitorReads
  <2>10. CASE UNCHANGED guiVars
    BY <2>10 DEF guiVars
  <2> QED
    BY <2>1, <2>2, <2>3, <2>4, <2>5, <2>6, <2>7, <2>8, <2>9, <2>10
    DEF GuiNext, StartStep, TaskStep
<1>3. GuiSpec => []GuiTypeOK
  BY TypeCorrect
<1> QED  BY <1>1, <1>2, <1>3, PTL DEF GuiSpec

-----------------------------------------------------------------------------
(* Stopping.                                                               *)

\* As long as the menu was used calmly, at most one daemon is there ...
Lone == calm => \A d, e \in Daemons : Alive(d) /\ Alive(e) => d = e

\* ... and the menu can stop it, from the click that starts it on.
Stops(d) ==
    \/ signal[d] \in {"sent", "forwarded"}
    \/ d \in sending
    \/ menu = "stop" /\ (tx = d \/ thread[d] \in {"begin", "store"})

StopsFromStart ==
    calm => \A d \in Daemons : thread[d] # "none" /\ phase[d] \in {"new", "up"} => Stops(d)

\* A daemon that is under way is alive.
LEMMA UnderWayAlive ==
    ASSUME Ordered, NEW d \in Daemons, thread[d] # "none", phase[d] \in {"new", "up"}
    PROVE  Alive(d)
  BY DEF Ordered, Alive

\* While the menu is used calmly, a daemon that is up can be stopped, by whichever
\* thread has its sender (main.rs 271-282, 475-505).
THEOREM DaemonsStoppable == GuiSpec => []Stoppable
<1> DEFINE IInv == Lone /\ StopsFromStart
<1>1. GuiInit => IInv
  BY DEF GuiInit, Lone, StopsFromStart, Alive
<1>2. GuiTypeOK /\ Ordered /\ IInv /\ [GuiNext]_guiVars => IInv'
  <2> SUFFICES ASSUME GuiTypeOK, Ordered, Lone, StopsFromStart, [GuiNext]_guiVars
               PROVE  Lone' /\ StopsFromStart'
    OBVIOUS
  <2> USE GuiAssumption DEF taskVars, appVars, uiVars
  <2>1. ASSUME NEW d \in Daemons, ClickStart(d)
        PROVE  Lone' /\ StopsFromStart'
    <3>1. calm' => calm /\ \A e \in Daemons : ~Alive(e)
      BY <2>1, Zenon DEF ClickStart
    <3>2. \A e \in Daemons : Alive(e)' => Alive(e) \/ e = d
      BY <2>1 DEF ClickStart, GuiTypeOK, Alive
    <3>3. Lone'
      BY <3>1, <3>2 DEF Lone
    <3>4. ASSUME calm', NEW e \in Daemons, thread'[e] # "none", phase'[e] \in {"new", "up"}
          PROVE  Stops(e)'
      <4>1. e = d
        BY <2>1, <3>1, <3>4, UnderWayAlive DEF ClickStart, GuiTypeOK
      <4> QED  BY <2>1, <4>1 DEF ClickStart, GuiTypeOK, Stops
    <3> QED  BY <3>3, <3>4 DEF StopsFromStart
  <2>2. CASE ClickStop
    <3>1. calm' => calm /\ \A e \in Daemons : thread[e] \notin {"begin", "store"}
      BY <2>2, Zenon DEF ClickStop
    <3>2. Lone'
      BY <2>2, <3>1 DEF ClickStop, Lone, Alive
    <3>3. StopsFromStart'
      BY <2>2, <3>1 DEF ClickStop, StopsFromStart, Stops
    <3> QED  BY <3>2, <3>3
  <2>3. ASSUME NEW d \in Daemons, Spawn(d) \/ Listen(d)
        PROVE  Lone' /\ StopsFromStart'
    <3>1. calm' = calm /\ \A e \in Daemons : Alive(e)' => Alive(e)
      BY <2>3 DEF Spawn, Listen, GuiTypeOK, Alive
    <3>2. StopsFromStart'
      BY <2>3 DEF Spawn, Listen, GuiTypeOK, StopsFromStart, Stops
    <3> QED  BY <3>1, <3>2 DEF Lone
  <2>4. ASSUME NEW d \in Daemons, Store(d)
        PROVE  Lone' /\ StopsFromStart'
    <3>1. calm' = calm /\ \A e \in Daemons : Alive(e)' => Alive(e)
      BY <2>4 DEF Store, GuiTypeOK, Alive
    <3>2. signal'[d] = signal[d] /\ tx' = d /\ menu' = menu
      BY <2>4 DEF Store, Release, Ordered, GuiTypeOK
    <3>3. ASSUME calm', NEW e \in Daemons, thread'[e] # "none", phase'[e] \in {"new", "up"}
          PROVE  Stops(e)'
      <4>1. thread[e] # "none" /\ phase[e] = phase'[e]
        BY <2>4, <3>3 DEF Store, GuiTypeOK
      <4>2. e = d
        BY <2>4, <3>1, <3>3, <4>1, UnderWayAlive DEF Lone, Store, Alive
      <4> QED  BY <2>4, <3>1, <3>2, <3>3, <4>1, <4>2 DEF StopsFromStart, Stops, Store
    <3> QED  BY <3>1, <3>3 DEF Lone, StopsFromStart
  <2>5. ASSUME NEW d \in Daemons, SendSignal(d)
        PROVE  Lone' /\ StopsFromStart'
    <3>1. UNCHANGED <<calm, thread, ended, phase>>
      BY <2>5 DEF SendSignal, Life!Send, Life!Channel
    <3>2. \A e \in Daemons : Stops(e) => Stops(e)'
      BY <2>5 DEF SendSignal, Life!Send, Life!Channel, GuiTypeOK, Ordered, Stops
    <3> QED  BY <3>1, <3>2 DEF Lone, StopsFromStart, Alive
  <2>6. ASSUME NEW d \in Daemons, Run(d)
        PROVE  Lone' /\ StopsFromStart'
    <3>1. UNCHANGED <<calm, thread, ended, tx, menu, sending>>
      BY <2>6 DEF Run
    <3>2. \A e \in Daemons : phase'[e] \in {"new", "up"} => phase[e] \in {"new", "up"}
      BY <2>6 DEF Run, GuiTypeOK, Life!LifeStep, Life!Begin, Life!Deliver, Life!End,
         Life!Become, Life!Channel
    <3>3. \A e \in Daemons : Stops(e) => Stops(e)'
      BY <2>6, <3>1 DEF Run, GuiTypeOK, Stops, Life!LifeStep, Life!Begin, Life!Deliver,
         Life!End, Life!Become, Life!Channel
    <3> QED  BY <3>1, <3>2, <3>3 DEF Lone, StopsFromStart, Alive
  <2>7. ASSUME NEW d \in Daemons, Reset(d)
        PROVE  Lone' /\ StopsFromStart'
    <3>1. calm' = calm /\ \A e \in Daemons : Alive(e)' => Alive(e)
      BY <2>7 DEF Reset, Alive
    <3>2. Alive(d) /\ UNCHANGED <<thread, phase, menu, sending>>
      BY <2>7 DEF Reset, Ordered, Alive
    <3>3. ASSUME calm', NEW e \in Daemons, thread'[e] # "none", phase'[e] \in {"new", "up"}
          PROVE  FALSE
      BY <2>7, <3>1, <3>2, <3>3, UnderWayAlive DEF Lone, Reset
    <3> QED  BY <3>1, <3>3 DEF Lone, StopsFromStart
  <2>8. CASE \/ \E d \in Daemons : PipeStep(d)
             \/ \E d, l \in Daemons, s \in Shown : Report(d, l, s)
             \/ MonitorLooks \/ MonitorReads \/ UNCHANGED guiVars
    <3>1. UNCHANGED <<calm, thread, ended, phase, signal, tx, menu, sending>>
      BY <2>8 DEF PipeStep, Hear, HearEnd, Report, MonitorLooks, MonitorReads, guiVars
    <3> QED  BY <3>1 DEF Lone, StopsFromStart, Stops, Alive
  <2> QED
    BY <2>1, <2>2, <2>3, <2>4, <2>5, <2>6, <2>7, <2>8
    DEF GuiNext, StartStep, TaskStep
<1>3. Ordered /\ IInv => Stoppable
  BY DEF Ordered, StopsFromStart, Stops, Stoppable
<1>4. GuiSpec => []GuiTypeOK
  BY TypeCorrect
<1>5. GuiSpec => []Ordered
  BY StartsOrdered
<1> QED  BY <1>1, <1>2, <1>3, <1>4, <1>5, PTL DEF GuiSpec

-----------------------------------------------------------------------------
(* What is shown.                                                          *)

\* No daemon is there, though a thread may still want to listen for its status.
Quiet ==
    \A d \in Daemons :
        /\ thread[d] = "none" \/ (thread[d] \in {"listen", "done"} /\ d \in ended)
        /\ phase[d] # "failed"

QuietShown == windows /\ Quiet => ~running /\ tx = None /\ status = "Disconnected"

\* Whichever daemon was the last to end, what the tray shows is what its end has
\* written (main.rs 271-276, 376-382).
THEOREM NoGhostShown == GuiSpec => []NoGhost
<1>1. GuiInit => QuietShown
  BY DEF GuiInit, QuietShown
<1>2. GuiTypeOK /\ Ordered /\ QuietShown /\ [GuiNext]_guiVars => QuietShown'
  <2> SUFFICES ASSUME GuiTypeOK, Ordered, QuietShown, [GuiNext]_guiVars, windows', Quiet'
               PROVE  (~running /\ tx = None /\ status = "Disconnected")'
    BY DEF QuietShown
  <2> USE GuiAssumption DEF taskVars, appVars, uiVars
  <2>1. ASSUME NEW d \in Daemons, ClickStart(d) \/ Spawn(d)
        PROVE  FALSE
    BY <2>1 DEF ClickStart, Spawn, GuiTypeOK, Quiet
  <2>2. ASSUME NEW d \in Daemons, Store(d)
        PROVE  FALSE
    BY <2>2 DEF Store, GuiTypeOK, Ordered, Quiet
  <2>3. ASSUME NEW d \in Daemons, Reset(d)
        PROVE  (~running /\ tx = None /\ status = "Disconnected")'
    BY <2>3 DEF Reset, Release
  <2>4. ASSUME NEW d \in Daemons, Listen(d) \/ Run(d) \/ SendSignal(d) \/ PipeStep(d)
        PROVE  (~running /\ tx = None /\ status = "Disconnected")'
    <3>1. windows' = windows
      BY <2>4 DEF Listen, Run, SendSignal, PipeStep, Hear, HearEnd
    <3>2. Quiet
      <4>1. CASE Listen(d)
        BY <4>1 DEF Listen, GuiTypeOK, Ordered, Quiet
      <4>2. CASE Run(d)
        BY <4>2 DEF Run, GuiTypeOK, Ordered, Quiet, Life!LifeStep, Life!Begin,
           Life!Deliver, Life!End, Life!Become, Life!Channel
      <4>3. CASE SendSignal(d)
        BY <4>3 DEF SendSignal, Life!Send, Life!Channel, Quiet
      <4>4. CASE PipeStep(d)
        BY <4>4 DEF PipeStep, Hear, HearEnd, Quiet
      <4> QED  BY <2>4, <4>1, <4>2, <4>3, <4>4
    <3>3. ~running /\ tx = None /\ status = "Disconnected"
      BY <3>1, <3>2 DEF QuietShown
    <3>4. UNCHANGED appVars
      BY <2>4, <3>3 DEF Listen, Run, SendSignal, PipeStep, Hear, HearEnd
    <3> QED  BY <3>3, <3>4
  <2>5. CASE ClickStop
    BY <2>5 DEF ClickStop, QuietShown, Quiet
  <2>6. ASSUME NEW d \in Daemons, NEW l \in Daemons, NEW s \in Shown, Report(d, l, s)
        PROVE  (~running /\ tx = None /\ status = "Disconnected")'
    BY <2>6 DEF Report, QuietShown, Quiet
  <2>7. CASE MonitorLooks \/ MonitorReads
    BY <2>7 DEF MonitorLooks, MonitorReads, Ordered
  <2>8. CASE UNCHANGED guiVars
    BY <2>8 DEF guiVars, QuietShown, Quiet
  <2> QED
    BY <2>1, <2>2, <2>3, <2>4, <2>5, <2>6, <2>7, <2>8
    DEF GuiNext, StartStep, TaskStep
<1>3. QuietShown => NoGhost
  BY DEF QuietShown, Quiet, NoGhost, Alive
<1>4. GuiSpec => []GuiTypeOK
  BY TypeCorrect
<1>5. GuiSpec => []Ordered
  BY StartsOrdered
<1> QED  BY <1>1, <1>2, <1>3, <1>4, <1>5, PTL DEF GuiSpec
==============================================================================
