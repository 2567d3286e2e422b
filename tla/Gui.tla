--------------------------------- MODULE Gui ---------------------------------
(***************************************************************************)
(* The tray application: osh-daemon-gui/src/main.rs.  A start spawns a     *)
(* thread that spawns a daemon task and then, in a second critical         *)
(* section, stores its sender; the task resets the shared state when it    *)
(* ends, whoever's state that is by then; a stop spawns a thread that      *)
(* sends the signal.  A status of the daemon arrives through a named pipe  *)
(* on Windows; elsewhere a thread reads it off the log file.               *)
(*                                                                         *)
(* A daemon is a call of Lifecycle, and each start makes a new one.  A     *)
(* click on a menu item is handled before the next one.                    *)
(***************************************************************************)
CONSTANTS
    Daemons,  \* the daemon tasks, one for each start
    None

ASSUME GuiAssumption == None \notin Daemons

VARIABLES
    phase, signal,  \* the daemons: see Lifecycle
    thread,    \* the thread of each start
    ended,     \* whether a daemon's task has reset the state and ended
    sending,   \* the daemons for which a stop thread holds a sender
    running,   \* AppState.daemon_running
    tx,        \* AppState.shutdown_tx: the daemon whose sender it is
    status,    \* AppState.connection_status
    menu,      \* the item that is enabled
    pipe,      \* the status pipe listener of each start
    monitor,   \* the thread that reads the log file
    windows,   \* the platform
    calm       \* history: no start while a daemon lived, no stop while one began

taskVars == <<phase, signal, ended>>
appVars  == <<running, tx, status>>
uiVars   == <<thread, sending, menu, windows, calm>>
guiVars  == <<taskVars, appVars, uiVars, pipe, monitor>>

Life == INSTANCE Lifecycle

Shown == {"Disconnected", "Connecting", "Connected"}

GuiTypeOK ==
    /\ phase   \in [Daemons -> {"new", "up", "failed", "stopped"}]
    /\ signal  \in [Daemons -> {"open", "sent", "forwarded", "closed"}]
    /\ thread  \in [Daemons -> {"none", "begin", "store", "listen", "done"}]
    /\ ended   \in SUBSET Daemons
    /\ sending \in SUBSET Daemons
    /\ running \in BOOLEAN
    /\ tx      \in Daemons \cup {None}
    /\ status  \in Shown
    /\ menu    \in {"start", "stop"}
    /\ pipe    \in [Daemons -> {"none", "wait", "eof", "gone"} \cup Shown]
    /\ monitor \in {"sleep", "read", "gone"}
    /\ windows \in BOOLEAN
    /\ calm    \in BOOLEAN

GuiInit ==
    /\ Life!LifeInit
    /\ thread = [d \in Daemons |-> "none"]
    /\ ended = {}
    /\ sending = {}
    /\ running = FALSE
    /\ tx = None
    /\ status = "Disconnected"
    /\ menu = "start"
    /\ pipe = [d \in Daemons |-> "none"]
    /\ windows \in BOOLEAN
    /\ monitor = IF windows THEN "gone" ELSE "sleep"
    /\ calm = TRUE

\* A daemon that was started and has not ended, or whose start is under way.
Alive(d) == thread[d] # "none" /\ (thread[d] # "done" \/ d \notin ended)

-----------------------------------------------------------------------------
(* The menu.                                                               *)

\* A thread is spawned and the item goes grey at once.
ClickStart(d) ==
    /\ menu = "start" /\ thread[d] = "none"
    /\ thread' = [thread EXCEPT ![d] = "begin"]
    /\ menu' = "stop"
    /\ calm' = (calm /\ \A e \in Daemons : ~Alive(e))
    /\ UNCHANGED <<taskVars, appVars, sending, windows, pipe, monitor>>

\* mutant: a stop takes the sender out of the state without sending.
ClickStopTakes ==
    /\ menu = "stop"
    /\ tx' = None
    /\ running' = FALSE
    /\ menu' = "start"
    /\ calm' = (calm /\ \A d \in Daemons : thread[d] \notin {"begin", "store"})
    /\ UNCHANGED <<taskVars, status, thread, sending, windows, pipe, monitor>>

\* stop_daemon: a thread gets a clone of the sender, if there is one.
ClickStop ==
    /\ menu = "stop"
    /\ sending' = IF tx = None THEN sending ELSE sending \cup {tx}
    /\ running' = FALSE
    /\ menu' = "start"
    /\ calm' = (calm /\ \A d \in Daemons : thread[d] \notin {"begin", "store"})
    /\ UNCHANGED <<taskVars, tx, status, thread, windows, pipe, monitor>>

-----------------------------------------------------------------------------
(* Senders.                                                                *)

\* The state gives up the sender it holds; the channel closes with the last.
Release(next) ==
    /\ tx' = next
    /\ signal' =
         IF tx # None /\ tx # next /\ tx \notin sending /\ signal[tx] = "open"
           THEN [signal EXCEPT ![tx] = "closed"] ELSE signal

\* The stop thread's blocking_send; a second signal for a daemon has no effect.
\* If the clone was the last sender, the channel closes behind the signal, which
\* the forwarding task still receives.
SendSignal(d) ==
    /\ d \in sending
    /\ sending' = sending \ {d}
    /\ \/ Life!Send(d)
       \/ signal[d] # "open" /\ UNCHANGED <<phase, signal>>
    /\ UNCHANGED <<ended, appVars, thread, menu, windows, calm, pipe, monitor>>

\* The first critical section of start_daemon_thread; then it spawns the task.
Spawn(d) ==
    /\ thread[d] = "begin"
    /\ thread' = [thread EXCEPT ![d] = "store"]
    /\ status' = "Connecting"
    /\ UNCHANGED <<taskVars, running, tx, sending, menu, windows, calm, pipe, monitor>>

\* The second critical section of start_daemon_thread.
Store(d) ==
    /\ thread[d] = "store"
    /\ thread' = [thread EXCEPT ![d] = "listen"]
    /\ running' = TRUE
    /\ Release(d)
    /\ UNCHANGED <<phase, ended, status, sending, menu, windows, calm, pipe, monitor>>

\* listen_status_pipe: a task on Windows, nothing elsewhere.
Listen(d) ==
    /\ thread[d] = "listen"
    /\ thread' = [thread EXCEPT ![d] = "done"]
    /\ pipe' = IF windows THEN [pipe EXCEPT ![d] = "wait"] ELSE pipe
    /\ UNCHANGED <<taskVars, appVars, sending, menu, windows, calm, monitor>>

-----------------------------------------------------------------------------
(* The daemon task.                                                        *)

Run(d) ==
    /\ thread[d] \in {"store", "listen", "done"}
    /\ Life!LifeStep(d)
    /\ UNCHANGED <<ended, appVars, uiVars, pipe, monitor>>

\* run_with_shutdown has returned: the state is reset, whoever's it is.
Reset(d) ==
    /\ phase[d] \in {"failed", "stopped"} /\ d \notin ended
    /\ ended' = ended \cup {d}
    /\ running' = FALSE
    /\ status' = "Disconnected"
    /\ Release(None)
    /\ UNCHANGED <<phase, uiVars, pipe, monitor>>

-----------------------------------------------------------------------------
(* The status.                                                             *)

\* send_status_update: the status goes to a listener that waits, any of them;
\* without one it is lost, which changes nothing.
Report(d, l, s) ==
    /\ phase[d] = "up"
    /\ pipe[l] = "wait"
    /\ pipe' = [pipe EXCEPT ![l] = s]
    /\ UNCHANGED <<taskVars, appVars, uiVars, monitor>>

\* mutant: daemon_running is not looked at.
HearAlways(l) ==
    /\ pipe[l] \in Shown
    /\ status' = pipe[l]
    /\ pipe' = [pipe EXCEPT ![l] = "eof"]
    /\ UNCHANGED <<taskVars, running, tx, uiVars, monitor>>

\* A listener has read a line; without a daemon it ends.
Hear(l) ==
    /\ pipe[l] \in Shown
    /\ IF running
         THEN status' = pipe[l] /\ pipe' = [pipe EXCEPT ![l] = "eof"]
         ELSE status' = status /\ pipe' = [pipe EXCEPT ![l] = "gone"]
    /\ UNCHANGED <<taskVars, running, tx, uiVars, monitor>>

\* The daemon has closed its end: another server is created, or the listener ends.
HearEnd(l) ==
    /\ pipe[l] = "eof"
    /\ pipe' = [pipe EXCEPT ![l] = IF running THEN "wait" ELSE "gone"]
    /\ UNCHANGED <<taskVars, appVars, uiVars, monitor>>

\* monitor_daemon_status: a look at daemon_running every half second ...
MonitorLooks ==
    /\ monitor = "sleep"
    /\ monitor' = IF running THEN "read" ELSE "gone"
    /\ UNCHANGED <<taskVars, appVars, uiVars, pipe>>

\* ... and then at the log file, which outlives the daemons.
MonitorReads ==
    /\ monitor = "read"
    /\ monitor' = "sleep"
    /\ status' \in {status, "Connecting", "Connected"}
    /\ UNCHANGED <<taskVars, running, tx, uiVars, pipe>>

-----------------------------------------------------------------------------
StartStep(d) == ClickStart(d) \/ Spawn(d) \/ Store(d) \/ Listen(d)
TaskStep(d)  == Run(d) \/ Reset(d)
PipeStep(l)  == Hear(l) \/ HearEnd(l)

GuiNext ==
    \/ \E d \in Daemons : StartStep(d) \/ TaskStep(d) \/ SendSignal(d) \/ PipeStep(d)
    \/ \E d, l \in Daemons, s \in Shown : Report(d, l, s)
    \/ ClickStop
    \/ MonitorLooks \/ MonitorReads

GuiSpec == GuiInit /\ [][GuiNext]_guiVars

-----------------------------------------------------------------------------
(* Properties.                                                             *)

\* A daemon that is up has been sent its signal, or will be, or the menu can
\* still do it, as long as nobody starts a daemon while another lives or stops
\* one before its thread has stored the sender (main.rs 271-282, 475-505).
Stoppable ==
    calm => \A d \in Daemons : phase[d] = "up" =>
        \/ signal[d] \in {"sent", "forwarded"}
        \/ d \in sending
        \/ menu = "stop" /\ (tx = d \/ thread[d] = "store")

\* When every daemon has ended, however starts and stops were mixed, the tray
\* does not show that one is there; on Windows, and as long as none has failed
\* to start (main.rs 271-276, 376-382).
NoGhost ==
    windows /\ (\A d \in Daemons : ~Alive(d) /\ phase[d] # "failed") =>
        ~running /\ tx = None /\ status = "Disconnected"

\* The application uses its daemons as Lifecycle allows: it sends and closes a
\* channel at most once, whichever threads and tasks do it.
UsesLifecycle == Life!LifeSpec
==============================================================================
