------------------------------ MODULE Lifecycle ------------------------------
(***************************************************************************)
(* What a front end may rely on in a call of run_with_shutdown, without    *)
(* connections or tasks: it fails at once or stays up, through any number  *)
(* of lost connections, until it is stopped; and it stops only after a     *)
(* signal was sent and forwarded, never because the front end went away.   *)
(* That every signal stops it is not promised.                             *)
(***************************************************************************)
CONSTANT Daemons  \* calls of run_with_shutdown

VARIABLES
    phase,   \* how far each call has come
    signal   \* the channel of its shutdown signal

lifeVars == <<phase, signal>>

LifeInit ==
    /\ phase  = [d \in Daemons |-> "new"]
    /\ signal = [d \in Daemons |-> "open"]

Become(d, p)  == phase' = [phase EXCEPT ![d] = p] /\ UNCHANGED signal
Channel(d, s) == signal' = [signal EXCEPT ![d] = s] /\ UNCHANGED phase

\* load_config succeeds or fails.
Begin(d) == phase[d] = "new" /\ \E p \in {"up", "failed"} : Become(d, p)

\* The front end sends the signal, or drops its last sender.
Send(d) == signal[d] = "open" /\ Channel(d, "sent")
Drop(d) == signal[d] = "open" /\ Channel(d, "closed")

\* The forwarding task, which lives from the start of a call on.
Deliver(d) == phase[d] = "up" /\ signal[d] = "sent" /\ Channel(d, "forwarded")

End(d) == phase[d] = "up" /\ signal[d] = "forwarded" /\ Become(d, "stopped")

LifeStep(d) == Begin(d) \/ Deliver(d) \/ End(d)

LifeNext == \E d \in Daemons : LifeStep(d) \/ Send(d) \/ Drop(d)

LifeSpec == LifeInit /\ [][LifeNext]_lifeVars
==============================================================================
