------------------------------ MODULE Heartbeat ------------------------------
(***************************************************************************)
(* The heartbeat between the relay and a peer, an osh or a daemon, in      *)
(* time.  Each end sends a PING at every tick of its timer, answers a PING *)
(* with a PONG, and looks at a tick how long ago it last heard something.  *)
(* The ticks of the two ends have any phase, a tick is up to `late` late,  *)
(* and a message takes up to `delay`, the time until its receiver gets     *)
(* round to it included.  Other traffic only keeps a connection alive      *)
(* longer and is left out; so is every other reason to leave.              *)
(*                                                                         *)
(* A daemon has a task for its ticks, which may end before the daemon      *)
(* leaves, and leaves when a read takes too long.                          *)
(***************************************************************************)
EXTENDS Integers, Sequences

CONSTANTS
    Interval,  \* HEARTBEAT_INTERVAL, in units of time
    Timeout,   \* HEARTBEAT_TIMEOUT
    Delays,    \* the bounds on the time a message takes
    Lates      \* the bounds on the lateness of a tick

ASSUME HeartbeatAssumption ==
    /\ Interval \in Nat \ {0}
    /\ Timeout \in Nat
    /\ Interval <= Timeout /\ Timeout <= 2 * Interval
    /\ Delays \subseteq Nat /\ Lates \subseteq Nat

VARIABLES
    kind,   \* what the peer is
    delay, late,
    state,  \* "mute": a daemon whose heartbeat task has ended
    age,    \* the time since last_activity
    due,    \* the time until the next tick; negative when it is late
    wire,   \* the messages on their way to each end
    cut,    \* nothing gets through any more
    quiet   \* history: how long that has been so

beatVars == <<kind, delay, late, state, age, due, wire, cut, quiet>>
given    == <<kind, delay, late>>

Ends == {"relay", "peer"}

Other(e) == IF e = "relay" THEN "peer" ELSE "relay"

Message(l) == [msg : {"OPEN", "PING", "PONG", "CLOSE"}, left : 0 .. l]

BeatTypeOK ==
    /\ kind \in {"osh", "daemon"}
    /\ delay \in Delays /\ late \in Lates
    /\ state \in [Ends -> {"start", "up", "mute", "left"}]
    /\ age \in [Ends -> Nat]
    /\ due \in [Ends -> Int]
    /\ wire \in [Ends -> Seq(Message(delay))]
    /\ cut \in BOOLEAN
    /\ quiet \in Nat

\* The relay has accepted; the peer learns of it with the end of the handshake.
BeatInit ==
    /\ kind \in {"osh", "daemon"}
    /\ delay \in Delays /\ late \in Lates
    /\ state = [e \in Ends |-> IF e = "relay" THEN "up" ELSE "start"]
    /\ age = [e \in Ends |-> 0]
    /\ due = [e \in Ends |-> 0]
    /\ wire = [e \in Ends |->
                 IF e = "relay" THEN <<>> ELSE <<[msg |-> "OPEN", left |-> delay]>>]
    /\ cut = FALSE
    /\ quiet = 0

-----------------------------------------------------------------------------
\* The end still reads what arrives, and the end still looks at its timer.
Reads(e) == state[e] \in {"up", "mute"}
Beats(e) == state[e] = "up"

\* What a message to e makes of the wire w to e.
Sent(e, w, m) ==
    IF cut \/ state[e] = "left" THEN w ELSE Append(w, [msg |-> m, left |-> delay])

\* mutant: a silence of just the timeout is too long.
ExpiredEarly(e) == age[e] >= Timeout

Expired(e) == age[e] > Timeout

\* The next tick; the timer keeps its pace when one is late.
Rearm(e) == due' = [due EXCEPT ![e] = @ + Interval]

\* A tick of e's timer that is due.
Tick(e) == Beats(e) /\ due[e] <= 0 /\ Rearm(e)

\* mutant: sending counts as activity.
TickPingTouches(e) ==
    /\ Tick(e) /\ ~Expired(e)
    /\ age' = [age EXCEPT ![e] = 0]
    /\ wire' = [wire EXCEPT ![Other(e)] = Sent(Other(e), @, "PING")]
    /\ UNCHANGED <<given, state, cut, quiet>>

TickPing(e) ==
    /\ Tick(e) /\ ~Expired(e)
    /\ wire' = [wire EXCEPT ![Other(e)] = Sent(Other(e), @, "PING")]
    /\ UNCHANGED <<given, state, age, cut, quiet>>

\* e leaves, and its connection closes.
Leave(e) ==
    /\ state' = [state EXCEPT ![e] = "left"]
    /\ wire' = [w \in Ends |->
                  IF w = e THEN <<>> ELSE Sent(w, wire[w], "CLOSE")]

\* The relay or osh has heard nothing for too long.
TickLeave(e) ==
    /\ Tick(e) /\ Expired(e)
    /\ e = "relay" \/ kind = "osh"
    /\ Leave(e)
    /\ UNCHANGED <<given, age, cut, quiet>>

\* So has the heartbeat task of a daemon; the main loop does not look at that.
TickMute(e) ==
    /\ Tick(e) /\ Expired(e)
    /\ e = "peer" /\ kind = "daemon"
    /\ state' = [state EXCEPT ![e] = "mute"]
    /\ UNCHANGED <<given, age, wire, cut, quiet>>

\* The main loop of a daemon has waited too long for a message; a message that
\* is there is read first.
ReadTimeout(e) ==
    /\ e = "peer" /\ kind = "daemon" /\ Reads(e)
    /\ Expired(e)
    /\ Leave(e)
    /\ UNCHANGED <<given, age, due, cut, quiet>>

-----------------------------------------------------------------------------
(* Messages, in the order in which they were sent.                         *)

Arrives(e, m) == wire[e] # <<>> /\ Head(wire[e]).msg = m

\* The peer is connected and has sent its first request.
DeliverOpen(e) ==
    /\ state[e] = "start" /\ Arrives(e, "OPEN")
    /\ state' = [state EXCEPT ![e] = "up"]
    /\ wire' = [wire EXCEPT ![e] = Tail(@)]
    /\ UNCHANGED <<given, age, due, cut, quiet>>

DeliverPing(e) ==
    /\ Reads(e) /\ Arrives(e, "PING")
    /\ age' = [age EXCEPT ![e] = 0]
    /\ wire' = [w \in Ends |->
                  IF w = e THEN Tail(wire[w]) ELSE Sent(w, wire[w], "PONG")]
    /\ UNCHANGED <<given, state, due, cut, quiet>>

DeliverPong(e) ==
    /\ Reads(e) /\ Arrives(e, "PONG")
    /\ age' = [age EXCEPT ![e] = 0]
    /\ wire' = [wire EXCEPT ![e] = Tail(@)]
    /\ UNCHANGED <<given, state, due, cut, quiet>>

\* The other end is gone: so is the connection.
DeliverClose(e) ==
    /\ Reads(e) /\ Arrives(e, "CLOSE")
    /\ state' = [state EXCEPT ![e] = "left"]
    /\ wire' = [wire EXCEPT ![e] = <<>>]
    /\ UNCHANGED <<given, age, due, cut, quiet>>

-----------------------------------------------------------------------------
(* The network and time.                                                   *)

\* From now on everything is lost; a peer that has not started never does.
Cut ==
    /\ ~cut
    /\ cut' = TRUE
    /\ wire' = [e \in Ends |-> <<>>]
    /\ state' = [e \in Ends |-> IF state[e] = "start" THEN "left" ELSE state[e]]
    /\ UNCHANGED <<given, age, due, quiet>>

\* Nothing may wait any longer.
Urgent ==
    \/ \E e \in Ends : \E i \in DOMAIN wire[e] : wire[e][i].left = 0
    \/ \E e \in Ends : Beats(e) /\ due[e] <= -late
    \/ kind = "daemon" /\ Reads("peer") /\ age["peer"] > Timeout + late

\* One unit of time passes.
Elapse ==
    /\ ~Urgent
    /\ age' = [e \in Ends |-> IF Reads(e) THEN age[e] + 1 ELSE age[e]]
    /\ due' = [e \in Ends |-> IF Beats(e) THEN due[e] - 1 ELSE due[e]]
    /\ wire' = [e \in Ends |->
                  [i \in DOMAIN wire[e] |-> [wire[e][i] EXCEPT !.left = @ - 1]]]
    /\ quiet' = IF cut /\ (\E e \in Ends : Reads(e)) THEN quiet + 1 ELSE quiet
    /\ UNCHANGED <<given, state, cut>>

-----------------------------------------------------------------------------
EndStep(e) ==
    \/ TickPing(e) \/ TickLeave(e) \/ TickMute(e) \/ ReadTimeout(e)
    \/ DeliverOpen(e) \/ DeliverPing(e) \/ DeliverPong(e) \/ DeliverClose(e)

BeatNext == (\E e \in Ends : EndStep(e)) \/ Cut \/ Elapse

BeatSpec == BeatInit /\ [][BeatNext]_beatVars

-----------------------------------------------------------------------------
(* Properties.                                                             *)

\* Nobody leaves a connection that works, nor stops sending PINGs, as long as
\* delay and lateness together fit between the interval and the timeout: the
\* comparison is strict on both sides (relay.rs 89, main.rs 378, daemon.rs 263).
LiveKept ==
    ~cut /\ Interval + delay + late <= Timeout =>
        state["relay"] = "up" /\ state["peer"] \in {"start", "up"}

\* A connection that is cut is given up by both ends after the timeout, another
\* interval and the lateness of a tick, whatever was on its way and whichever
\* end noticed first (relay.rs 89, 396, daemon.rs 263, 407, main.rs 378).
NoticedInTime ==
    \A e \in Ends : Reads(e) => quiet <= Timeout + Interval + late
==============================================================================
