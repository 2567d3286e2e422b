----------------------------- MODULE ExecService -----------------------------
(***************************************************************************)
(* What the relay promises an osh invocation, without devices, connections *)
(* or locks: an EXEC is refused or starts a process, a process that was    *)
(* started ends with one answer, and the CLI may go at any time after its  *)
(* EXEC was handled.  There is one answer, it never changes, and it fits   *)
(* what came before it.                                                    *)
(***************************************************************************)
CONSTANT Reqs  \* osh invocations

VARIABLES
    phase,     \* how far each invocation has come
    outcome    \* the answer that ends it, or "none"

serviceVars == <<phase, outcome>>

Refusals == {"NOT_FOUND", "NOT_APPROVED", "OFFLINE"}
Endings  == {"EXIT", "ERROR", "OFFLINE"}

ServiceInit ==
    /\ phase   = [r \in Reqs |-> "idle"]
    /\ outcome = [r \in Reqs |-> "none"]

\* The device was found and approved in the store.
Submit(r) ==
    /\ phase[r] = "idle"
    /\ phase' = [phase EXCEPT ![r] = "submitted"]
    /\ UNCHANGED outcome

Refuse(r, kind) ==
    /\ phase[r] \in {"idle", "submitted"}
    /\ phase' = [phase EXCEPT ![r] = "answered"]
    /\ outcome' = [outcome EXCEPT ![r] = kind]

Start(r) ==
    /\ phase[r] = "submitted"
    /\ phase' = [phase EXCEPT ![r] = "running"]
    /\ UNCHANGED outcome

\* The end of a process, or the loss of a daemon, which ends all of its
\* processes in one step.
Finish(R, kind) ==
    /\ R # {}
    /\ \A r \in R : phase[r] = "running"
    /\ phase'   = [r \in Reqs |-> IF r \in R THEN "answered" ELSE phase[r]]
    /\ outcome' = [r \in Reqs |-> IF r \in R THEN kind ELSE outcome[r]]

Leave(r) ==
    /\ phase[r] \in {"running", "answered"}
    /\ phase' = [phase EXCEPT ![r] = "gone"]
    /\ UNCHANGED outcome

ServiceNext ==
    \/ \E r \in Reqs : Submit(r) \/ Start(r) \/ Leave(r)
    \/ \E r \in Reqs, kind \in Refusals : Refuse(r, kind)
    \/ \E R \in SUBSET Reqs, kind \in Endings : Finish(R, kind)

ServiceSpec == ServiceInit /\ [][ServiceNext]_serviceVars
==============================================================================
