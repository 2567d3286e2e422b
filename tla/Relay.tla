-------------------------------- MODULE Relay --------------------------------
(***************************************************************************)
(* The relay server's connection handling: osh-relay/src/relay.rs with the *)
(* parts of device_store.rs its handlers call.  It pairs the connections   *)
(* of the daemons ("clients"), registers the execution sessions of the osh *)
(* CLIs, forwards the end of a process to its CLI, and cleans up after     *)
(* either side has gone.                                                   *)
(*                                                                         *)
(* Each handler is a tokio task.  Its shared state sits behind two RwLocks *)
(* (`clients` and `osh_sessions`) and the lock of the device store, and it *)
(* can be interleaved wherever it awaits, so one action is one stretch of  *)
(* a handler between two awaits.  osh_sessions and the store are never     *)
(* held over an await of another lock and need no lock state; `clients`    *)
(* is held for reading by EXEC and for writing by the reload walk, and     *)
(* ClientsReadable and ClientsWritable say when it can be taken.           *)
(*                                                                         *)
(* A device id, a request id and an address are model values.  DATA,       *)
(* RESIZE, INPUT to a live session, PING and PONG are forwarded without a  *)
(* change of state and have no action.  A CLI connection makes one EXEC    *)
(* with a fresh uuid, so a request stands for its connection as well.      *)
(***************************************************************************)
EXTENDS Integers, FiniteSets

CONSTANTS
    Devices,     \* device ids: the store is a list, and has finitely many
    Conns,       \* connections from daemons; a slot is used again once closed
    DevOf,       \* the device a connection pairs as
    Reqs,        \* osh invocations: one connection, one EXEC, one req_id
    Admins,      \* connections that send ADMIN_RELOAD
    None,        \* no device, no connection
    Limits,      \* values of max_devices in devices.json
    SaveMayFail  \* whether writing devices.json may fail

ASSUME NoneAssumption   == None \notin Devices \cup Conns
ASSUME DevOfAssumption  == DevOf \in [Conns -> Devices]
ASSUME DeviceAssumption == IsFiniteSet(Devices)
ASSUME LimitAssumption  == Limits \subseteq Nat

VARIABLES
    store,     \* device store in memory: status of each device
    limit,     \* max_devices of the store in memory
    clients,   \* RelayService.clients: device -> the connection of its sender
    approved,  \* ConnectedClient.approved (FALSE when there is no entry)
    sessions,  \* RelayService.osh_sessions: request -> device_id
    cpc,       \* where the task of each client connection is
    counted,   \* `current_count` of a pairing handler, read before the limit
    seen,      \* `existing` of a pairing handler, read before its upsert
    told,      \* the last pairing message queued for a connection
    broken,    \* connections whose write task has ended: every send fails
    batch,     \* req_ids a client connection's task is about to remove
    opc,       \* where the task of each CLI connection is
    target,    \* device_info.device_id of a request
    answer,    \* the first final answer queued for a CLI, which ends it
    host,      \* the connection SPAWN was sent on, until the process or it ends
    killed,    \* requests whose host was sent KILL
    apc,       \* where each reload is
    todo       \* devices a reload has still to visit

storeVars  == <<store, limit>>
clientVars == <<clients, approved, told>>
readVars   == <<counted, seen>>
connVars   == <<cpc, readVars, broken, batch>>
oshVars    == <<opc, target>>
procVars   == <<host, killed>>
adminVars  == <<apc, todo>>
vars == <<storeVars, clientVars, sessions, connVars, oshVars, answer, procVars, adminVars>>

Status   == {"absent", "pending", "approved", "rejected"}
Message  == {"none", "pending", "approved", "rejected"}
Pairing  == {"count", "limit", "lookup", "upsert", "register"}
Leaving  == {"remove", "scan", "purge"}
ConnPC   == {"off", "fresh", "unpaired", "loop", "ended"} \cup Pairing \cup Leaving
OshPC    == {"idle", "found", "locked", "loop", "kill", "drop", "closed"}
Ended    == {"EXIT", "ERROR"}
Answer   == {"none", "NOT_FOUND", "NOT_APPROVED", "OFFLINE", "INVALID_REQ_ID"} \cup Ended

TypeOK ==
    /\ store    \in [Devices -> Status]
    /\ limit    \in Nat
    /\ clients  \in [Devices -> Conns \cup {None}]
    /\ approved \in [Devices -> BOOLEAN]
    /\ sessions \in [Reqs -> Devices \cup {None}]
    /\ cpc      \in [Conns -> ConnPC]
    /\ counted  \in [Conns -> Nat]
    /\ seen     \in [Conns -> Status]
    /\ told     \in [Conns -> Message]
    /\ broken   \in SUBSET Conns
    /\ batch    \in [Conns -> SUBSET Reqs]
    /\ opc      \in [Reqs -> OshPC]
    /\ target   \in [Reqs -> Devices \cup {None}]
    /\ answer   \in [Reqs -> Answer]
    /\ host     \in [Reqs -> Conns \cup {None}]
    /\ killed   \in SUBSET Reqs
    /\ apc      \in [Admins -> {"idle", "swapped", "walk"}]
    /\ todo     \in [Admins -> SUBSET Devices]

Init ==
    /\ store    \in [Devices -> Status]
    /\ limit    \in Limits
    /\ clients  = [d \in Devices |-> None]
    /\ approved = [d \in Devices |-> FALSE]
    /\ sessions = [r \in Reqs |-> None]
    /\ cpc      = [c \in Conns |-> "off"]
    /\ counted  = [c \in Conns |-> 0]
    /\ seen     = [c \in Conns |-> "absent"]
    /\ told     = [c \in Conns |-> "none"]
    /\ broken   = {}
    /\ batch    = [c \in Conns |-> {}]
    /\ opc      = [r \in Reqs |-> "idle"]
    /\ target   = [r \in Reqs |-> None]
    /\ answer   = [r \in Reqs |-> "none"]
    /\ host     = [r \in Reqs |-> None]
    /\ killed   = {}
    /\ apc      = [a \in Admins |-> "idle"]
    /\ todo     = [a \in Admins |-> {}]

-----------------------------------------------------------------------------
(* The `clients` lock: EXEC holds it for reading until it has sent SPAWN,  *)
(* the reload walk holds it for writing.                                   *)

\* mutant: the lock is not taken for reading.
ClientsUnlocked == TRUE

ClientsReadable == \A a \in Admins : apc[a] # "walk"
\* mutant: a writer does not wait for readers.
WritableUnderReaders == \A a \in Admins : apc[a] # "walk"

ClientsWritable == ClientsReadable /\ \A r \in Reqs : opc[r] # "locked"

Goto(c, l) == cpc' = [cpc EXCEPT ![c] = l]
OshGoto(r, l) == opc' = [opc EXCEPT ![r] = l]

Online(d) == clients[d] # None
Count(s)  == Cardinality({d \in Devices : s[d] # "absent"})
Full      == Count(store) >= limit

(* The CLI ends at the first final message queued for it: later ones, and  *)
(* all once it has gone, have no reader.                                   *)
Gone(r) == opc[r] \in {"kill", "drop", "closed"}
Reads(r) == answer[r] = "none" /\ ~Gone(r)
Reply(R, kind) ==
    answer' = [r \in Reqs |-> IF r \in R /\ Reads(r) THEN kind ELSE answer[r]]

(* The processes of a daemon end with its connection.                      *)
LoseHost(c) == host' = [r \in Reqs |-> IF host[r] = c THEN None ELSE host[r]]

-----------------------------------------------------------------------------
(* Client connections: pairing.                                            *)

ClientConnect(c) ==
    /\ cpc[c] = "off"
    /\ Goto(c, "fresh")
    /\ UNCHANGED <<storeVars, clientVars, sessions, readVars, broken, batch, oshVars, answer, procVars, adminVars>>

\* A refusal is sent and the connection closed; if the send fails, the handler
\* returns Err and the loop goes on without a device.
Refuse(c) ==
    /\ Goto(c, IF c \in broken THEN "unpaired" ELSE "off")
    /\ UNCHANGED <<storeVars, clientVars, sessions, seen, broken, batch, oshVars, answer, procVars, adminVars>>

PairAuthFailed(c) ==
    /\ cpc[c] = "fresh"
    /\ Refuse(c)
    /\ UNCHANGED counted

PairExists(c) ==
    /\ cpc[c] = "fresh"
    /\ Goto(c, IF store[DevOf[c]] = "absent" THEN "count" ELSE "lookup")
    /\ UNCHANGED <<storeVars, clientVars, sessions, readVars, broken, batch, oshVars, answer, procVars, adminVars>>

\* Count and limit are read one after the other.
PairCount(c) ==
    /\ cpc[c] = "count"
    /\ counted' = [counted EXCEPT ![c] = Count(store)]
    /\ Goto(c, "limit")
    /\ UNCHANGED <<storeVars, clientVars, sessions, seen, broken, batch, oshVars, answer, procVars, adminVars>>

PairLimitExceeded(c) ==
    /\ cpc[c] = "limit"
    /\ counted[c] >= limit
    /\ counted' = [counted EXCEPT ![c] = 0]
    /\ Refuse(c)

PairWithinLimit(c) ==
    /\ cpc[c] = "limit"
    /\ counted[c] < limit
    /\ counted' = [counted EXCEPT ![c] = 0]
    /\ Goto(c, "lookup")
    /\ UNCHANGED <<storeVars, clientVars, sessions, seen, broken, batch, oshVars, answer, procVars, adminVars>>

PairLookup(c) ==
    /\ cpc[c] = "lookup"
    /\ seen' = [seen EXCEPT ![c] = store[DevOf[c]]]
    /\ Goto(c, "upsert")
    /\ UNCHANGED <<storeVars, clientVars, sessions, counted, broken, batch, oshVars, answer, procVars, adminVars>>

\* upsert_device keeps the status of a device it finds and otherwise pushes the
\* record it was given: a new one is pending, one read earlier has the status it
\* had then.
\* mutant: only the handler checks the limit.
UpsertUnlimited(d) == FALSE

UpsertRefused(d) == store[d] = "absent" /\ Full
\* mutant: a new device gets no status of its own.
RecordedAsSeen(s) == s

Recorded(s) == IF s = "absent" THEN "pending" ELSE s
Upserted(d, s) ==
    IF store[d] = "absent" THEN [store EXCEPT ![d] = Recorded(s)] ELSE store

PairUpsertFails(c) ==
    /\ cpc[c] = "upsert"
    /\ \/ UpsertRefused(DevOf[c]) /\ UNCHANGED store
       \/ /\ SaveMayFail
          /\ ~UpsertRefused(DevOf[c])
          /\ store' = Upserted(DevOf[c], seen[c])
    /\ seen' = [seen EXCEPT ![c] = "absent"]
    /\ Goto(c, "unpaired")
    /\ UNCHANGED <<limit, clientVars, sessions, counted, broken, batch, oshVars, answer, procVars, adminVars>>

\* The reply repeats the status read by PairLookup.
PairUpsert(c) ==
    /\ cpc[c] = "upsert"
    /\ ~UpsertRefused(DevOf[c])
    /\ store' = Upserted(DevOf[c], seen[c])
    /\ seen' = [seen EXCEPT ![c] = "absent"]
    /\ IF c \in broken
         THEN Goto(c, "unpaired") /\ UNCHANGED told
         ELSE Goto(c, "register") /\ told' = [told EXCEPT ![c] = Recorded(seen[c])]
    /\ UNCHANGED <<limit, clients, approved, sessions, counted, broken, batch, oshVars, answer, procVars, adminVars>>

\* mutant: the flag is what the store says by now, not what the daemon was told.
EntryApprovedNow(c) == store[DevOf[c]] = "approved"

EntryApproved(c) == told[c] = "approved"

\* mutant: only an approved device gets an entry.
PairRegisterApproved(c) ==
    /\ cpc[c] = "register"
    /\ ClientsWritable
    /\ clients'  = IF EntryApproved(c) THEN [clients EXCEPT ![DevOf[c]] = c] ELSE clients
    /\ approved' = [approved EXCEPT ![DevOf[c]] = EntryApproved(c)]
    /\ Goto(c, "loop")
    /\ UNCHANGED <<storeVars, told, sessions, readVars, broken, batch, oshVars, answer, procVars, adminVars>>

\* The entry replaces whatever entry the device had.
PairRegister(c) ==
    /\ cpc[c] = "register"
    /\ ClientsWritable
    /\ clients'  = [clients EXCEPT ![DevOf[c]] = c]
    /\ approved' = [approved EXCEPT ![DevOf[c]] = EntryApproved(c)]
    /\ Goto(c, IF told[c] = "rejected" THEN "remove" ELSE "loop")
    /\ UNCHANGED <<storeVars, told, sessions, readVars, broken, batch, oshVars, answer, procVars, adminVars>>

-----------------------------------------------------------------------------
(* Client connections: the end of a process.                               *)

\* mutant: a session whose SPAWN failed is not found.
SessionsOfRunning(d) == {r \in Reqs : sessions[r] = d /\ host[r] # None}

SessionsOf(d) == {r \in Reqs : sessions[r] = d}

\* mutant: all sessions of the device are removed, not the collected ones.
ToRemoveOfDevice(c) == SessionsOf(DevOf[c])

ToRemove(c) == batch[c]

\* EXIT or ERROR: forwarded under the read lock ...
ClientEnd(c, r, kind) ==
    /\ cpc[c] = "loop"
    /\ host[r] = c
    /\ IF sessions[r] # None THEN Reply({r}, kind) ELSE UNCHANGED answer
    /\ host' = [host EXCEPT ![r] = None]
    /\ batch' = [batch EXCEPT ![c] = {r}]
    /\ Goto(c, "ended")
    /\ UNCHANGED <<storeVars, clientVars, sessions, readVars, broken, oshVars, killed, adminVars>>

\* ... and the session removed under the write lock.
ClientEndRemove(c) ==
    /\ cpc[c] = "ended"
    /\ sessions' = [r \in Reqs |-> IF r \in ToRemove(c) THEN None ELSE sessions[r]]
    /\ batch' = [batch EXCEPT ![c] = {}]
    /\ Goto(c, "loop")
    /\ UNCHANGED <<storeVars, clientVars, readVars, broken, oshVars, answer, procVars, adminVars>>

-----------------------------------------------------------------------------
(* Client connections: disconnect.                                         *)

\* The write task stops at its first failed send.
WriterDies(c) ==
    /\ cpc[c] \notin {"off"} \cup Leaving
    /\ broken' = broken \cup {c}
    /\ UNCHANGED <<storeVars, clientVars, sessions, cpc, readVars, batch, oshVars, answer, procVars, adminVars>>

\* mutant: no cleanup for any connection.
ClientLeaveQuietly(c) ==
    /\ cpc[c] \in {"loop", "fresh", "unpaired"}
    /\ Goto(c, "off")
    /\ broken' = broken \ {c}
    /\ UNCHANGED <<storeVars, clientVars, sessions, readVars, batch, oshVars, answer, procVars, adminVars>>

\* Close frame, socket error, end of stream, heartbeat timeout, or a failed
\* ping: the loop breaks; there is cleanup only if the connection paired.
ClientLeave(c) ==
    /\ \/ cpc[c] = "loop" /\ Goto(c, "remove") /\ UNCHANGED broken
       \/ cpc[c] \in {"fresh", "unpaired"} /\ Goto(c, "off") /\ broken' = broken \ {c}
    /\ UNCHANGED <<storeVars, clientVars, sessions, readVars, batch, oshVars, answer, procVars, adminVars>>

\* mutant: waits until the sessions of the device have ended.
DisconnectRemoveIdle(c) ==
    /\ cpc[c] = "remove"
    /\ ClientsWritable
    /\ SessionsOf(DevOf[c]) = {}
    /\ clients'  = [clients EXCEPT ![DevOf[c]] = None]
    /\ approved' = [approved EXCEPT ![DevOf[c]] = FALSE]
    /\ Goto(c, "scan")
    /\ UNCHANGED <<storeVars, told, sessions, readVars, broken, batch, oshVars, answer, procVars, adminVars>>

\* Removes the device's entry, whichever connection it belongs to.
DisconnectRemove(c) ==
    /\ cpc[c] = "remove"
    /\ ClientsWritable
    /\ clients'  = [clients EXCEPT ![DevOf[c]] = None]
    /\ approved' = [approved EXCEPT ![DevOf[c]] = FALSE]
    /\ Goto(c, "scan")
    /\ UNCHANGED <<storeVars, told, sessions, readVars, broken, batch, oshVars, answer, procVars, adminVars>>

DisconnectScan(c) ==
    /\ cpc[c] = "scan"
    /\ batch' = [batch EXCEPT ![c] = SessionsOf(DevOf[c])]
    /\ Reply(SessionsOf(DevOf[c]), "OFFLINE")
    /\ Goto(c, "purge")
    /\ UNCHANGED <<storeVars, clientVars, sessions, readVars, broken, oshVars, procVars, adminVars>>

DisconnectPurge(c) ==
    /\ cpc[c] = "purge"
    /\ sessions' = [r \in Reqs |-> IF r \in ToRemove(c) THEN None ELSE sessions[r]]
    /\ batch' = [batch EXCEPT ![c] = {}]
    /\ told' = [told EXCEPT ![c] = "none"]
    /\ broken' = broken \ {c}
    /\ LoseHost(c)
    /\ Goto(c, "off")
    /\ UNCHANGED <<storeVars, clients, approved, readVars, oshVars, answer, killed, adminVars>>

-----------------------------------------------------------------------------
(* CLI connections: EXEC.                                                  *)

\* find_device: no match, or the match is not approved in the store.
ExecRefused(r) ==
    /\ opc[r] = "idle"
    /\ \/ Reply({r}, "NOT_FOUND")
       \/ \E d \in Devices : store[d] \in {"pending", "rejected"} /\ Reply({r}, "NOT_APPROVED")
    /\ OshGoto(r, "loop")
    /\ UNCHANGED <<storeVars, clientVars, sessions, connVars, target, procVars, adminVars>>

ExecFind(r, d) ==
    /\ opc[r] = "idle"
    /\ store[d] = "approved"
    /\ target' = [target EXCEPT ![r] = d]
    /\ OshGoto(r, "found")
    /\ UNCHANGED <<storeVars, clientVars, sessions, connVars, answer, procVars, adminVars>>

ExecClient(r) ==
    /\ opc[r] = "found"
    /\ ClientsReadable
    /\ LET d == target[r] IN
         \/ ~Online(d) /\ Reply({r}, "OFFLINE") /\ OshGoto(r, "loop")
         \/ Online(d) /\ ~approved[d] /\ Reply({r}, "NOT_APPROVED") /\ OshGoto(r, "loop")
         \/ Online(d) /\ approved[d] /\ OshGoto(r, "locked") /\ UNCHANGED answer
    /\ UNCHANGED <<storeVars, clientVars, sessions, connVars, target, procVars, adminVars>>

\* The session is inserted before SPAWN is sent; a failed send leaves it.
ExecSpawn(r) ==
    /\ opc[r] = "locked"
    /\ sessions' = [sessions EXCEPT ![r] = target[r]]
    /\ host' = [host EXCEPT ![r] = IF clients[target[r]] \in broken THEN None ELSE clients[target[r]]]
    /\ OshGoto(r, "loop")
    /\ UNCHANGED <<storeVars, clientVars, connVars, target, answer, killed, adminVars>>

\* INPUT for a request that has no session.
InputUnknown(r) ==
    /\ opc[r] = "loop"
    /\ sessions[r] = None
    /\ Reply({r}, "INVALID_REQ_ID")
    /\ UNCHANGED <<storeVars, clientVars, sessions, connVars, oshVars, procVars, adminVars>>

-----------------------------------------------------------------------------
(* CLI connections: disconnect.                                            *)

\* cleanup_osh_sessions collects the sessions of the connection.
OshClose(r) ==
    /\ opc[r] = "loop"
    /\ OshGoto(r, IF sessions[r] = None THEN "closed" ELSE "kill")
    /\ UNCHANGED <<storeVars, clientVars, sessions, connVars, target, answer, procVars, adminVars>>

\* KILL goes to whichever connection the device has now.
\* mutant: only to an approved device.
KillReachesApproved(r) ==
    approved[target[r]] /\ clients[target[r]] = host[r] /\ host[r] \notin broken

KillReaches(r) == clients[target[r]] # None /\ clients[target[r]] = host[r] /\ host[r] \notin broken

\* mutant: waits for the device to be online.
CleanupKillOnline(r) ==
    /\ opc[r] = "kill"
    /\ ClientsReadable
    /\ Online(target[r])
    /\ killed' = IF KillReaches(r) THEN killed \cup {r} ELSE killed
    /\ OshGoto(r, "drop")
    /\ UNCHANGED <<storeVars, clientVars, sessions, connVars, target, answer, host, adminVars>>

CleanupKill(r) ==
    /\ opc[r] = "kill"
    /\ ClientsReadable
    /\ killed' = IF KillReaches(r) THEN killed \cup {r} ELSE killed
    /\ OshGoto(r, "drop")
    /\ UNCHANGED <<storeVars, clientVars, sessions, connVars, target, answer, host, adminVars>>

CleanupDrop(r) ==
    /\ opc[r] = "drop"
    /\ sessions' = [sessions EXCEPT ![r] = None]
    /\ OshGoto(r, "closed")
    /\ UNCHANGED <<storeVars, clientVars, connVars, target, answer, procVars, adminVars>>

-----------------------------------------------------------------------------
(* ADMIN_RELOAD.                                                           *)

\* Devices and limit are replaced by what the file holds, which osh-admin or an
\* editor may have changed in any way; a file that does not load changes nothing.
ReloadSwap(a) ==
    /\ apc[a] = "idle"
    /\ store' \in [Devices -> Status]
    /\ limit' \in Limits
    /\ apc' = [apc EXCEPT ![a] = "swapped"]
    /\ UNCHANGED <<clientVars, sessions, connVars, oshVars, answer, procVars, todo>>

\* mutant: the end of the walk is not noticed.
AfterVisitKeeps(rest) == "walk"

AfterVisit(rest) == IF rest = {} THEN "idle" ELSE "walk"

ReloadLock(a) ==
    /\ apc[a] = "swapped"
    /\ ClientsWritable
    /\ LET registered == {d \in Devices : Online(d)} IN
         /\ todo' = [todo EXCEPT ![a] = registered]
         /\ apc' = [apc EXCEPT ![a] = AfterVisit(registered)]
    /\ UNCHANGED <<storeVars, clientVars, sessions, connVars, oshVars, answer, procVars>>

\* One client of the walk: the store is read afresh for each, the flag follows
\* it, and a change is reported to the connection.
ReloadOne(a, d) ==
    /\ apc[a] = "walk"
    /\ d \in todo[a]
    /\ LET is == store[d] = "approved"
           c  == clients[d]
       IN /\ approved' = [approved EXCEPT ![d] = is]
          /\ told' = IF is = approved[d] \/ c \in broken THEN told
                     ELSE [told EXCEPT ![c] = IF is THEN "approved" ELSE "rejected"]
    /\ todo' = [todo EXCEPT ![a] = @ \ {d}]
    /\ apc' = [apc EXCEPT ![a] = AfterVisit(todo[a] \ {d})]
    /\ UNCHANGED <<storeVars, clients, sessions, connVars, oshVars, answer, procVars>>

-----------------------------------------------------------------------------
PairStep(c) ==
    \/ PairExists(c) \/ PairCount(c) \/ PairWithinLimit(c) \/ PairLimitExceeded(c)
    \/ PairLookup(c) \/ PairUpsertFails(c) \/ PairUpsert(c)

ClientStep(c) ==
    \/ ClientConnect(c) \/ PairAuthFailed(c) \/ PairStep(c) \/ PairRegister(c)
    \/ \E r \in Reqs, kind \in Ended : ClientEnd(c, r, kind)
    \/ ClientEndRemove(c)
    \/ WriterDies(c) \/ ClientLeave(c)
    \/ DisconnectRemove(c) \/ DisconnectScan(c) \/ DisconnectPurge(c)

OshStep(r) ==
    \/ ExecRefused(r) \/ (\E d \in Devices : ExecFind(r, d))
    \/ ExecClient(r) \/ ExecSpawn(r) \/ InputUnknown(r)
    \/ OshClose(r) \/ CleanupKill(r) \/ CleanupDrop(r)

AdminStep(a) ==
    \/ ReloadSwap(a) \/ ReloadLock(a)
    \/ \E d \in Devices : ReloadOne(a, d)

Next ==
    \/ \E c \in Conns : ClientStep(c)
    \/ \E r \in Reqs : OshStep(r)
    \/ \E a \in Admins : AdminStep(a)

Spec == Init /\ [][Next]_vars

-----------------------------------------------------------------------------
(* Fairness.  Tokio runs every task that can run, and its RwLock is a fair *)
(* queue: a handler that waits for `clients` gets it in turn although      *)
(* others keep taking it (SF).  A connection whose writes fail is left at  *)
(* the latest by the failing ping of the next second.  Nothing is assumed  *)
(* of daemons, processes, CLIs or administrators.                          *)

RelayFairness ==
    /\ \A c \in Conns :
         /\ WF_vars((cpc[c] # "fresh" /\ PairStep(c)) \/ ClientEndRemove(c) \/ DisconnectScan(c) \/ DisconnectPurge(c))
         /\ SF_vars(PairRegister(c) \/ DisconnectRemove(c))
         /\ WF_vars(c \in broken /\ ClientLeave(c))
    /\ \A r \in Reqs :
         /\ WF_vars(ExecSpawn(r) \/ CleanupDrop(r))
         /\ SF_vars(ExecClient(r) \/ CleanupKill(r))
    /\ \A a \in Admins :
         /\ SF_vars(ReloadLock(a))
         /\ WF_vars(\E d \in Devices : ReloadOne(a, d))

FairSpec == Spec /\ RelayFairness

-----------------------------------------------------------------------------
(* Safety.                                                                 *)

Alive(c) == cpc[c] \in {"loop", "ended"}

\* EXEC finds a client and its approval under the `clients` lock, then waits for
\* osh_sessions: both still hold when SPAWN is sent (relay.rs 546-594).
SpawnIsAuthorised ==
    \A r \in Reqs : opc[r] = "locked" => Online(target[r]) /\ approved[target[r]]

\* A session is never left behind by its device: while it exists the device has
\* an entry, or a disconnect handler is about to answer it, or has answered it
\* and is about to remove it.  EXEC inserts under the `clients` lock, so it
\* cannot slip in behind the disconnect's scan (relay.rs 346-373, 546-581).
SessionHasClient ==
    \A r \in Reqs : sessions[r] # None =>
        \/ Online(sessions[r])
        \/ \E c \in Conns : /\ DevOf[c] = sessions[r]
                            /\ \/ cpc[c] = "scan"
                               \/ cpc[c] = "purge" /\ r \in batch[c]

\* Whatever removes a session has queued an answer first: a CLI whose EXEC has
\* been handled always has a session or a final answer, and so INVALID_REQ_ID is
\* never the answer that ends it, although INPUT may arrive between the two
\* halves of an EXIT or of a disconnect (relay.rs 309-338, 354-372, 609-615).
NeverDropped ==
    \A r \in Reqs :
        /\ opc[r] = "loop" => sessions[r] # None \/ answer[r] # "none"
        /\ answer[r] # "INVALID_REQ_ID"

\* The sender in an entry belongs to a connection of that device whose task is
\* still there to remove it: no entry outlives its connection (relay.rs 282-291,
\* 350), even when several connections of one device come and go.
NoDanglingSender ==
    \A d \in Devices : Online(d) =>
        /\ DevOf[clients[d]] = d
        /\ cpc[clients[d]] \in {"loop", "ended", "remove"}

\* The daemon drops every command unless the last pairing message it got says
\* approved (daemon.rs 478-483), so the flag by which the relay sends SPAWN and
\* that message must agree on every entry, however pairings and reloads overlap.
ToldMatchesFlag ==
    \A d \in Devices : Online(d) /\ clients[d] \notin broken =>
        (approved[d] <=> told[clients[d]] = "approved")

\* While a connection that paired is served, its device has an entry, so that
\* EXEC, KILL and the reload walk can reach it (relay.rs 54: "Connected clients:
\* device_id -> client").
ServedIsOnline ==
    \A c \in Conns : Alive(c) => Online(DevOf[c])

\* A CLI that has gone leaves no session, and no process behind a connection
\* that is still served without KILL having been sent there (relay.rs 449:
\* "Clean up any sessions owned by this connection and send KILL to daemons").
NoOrphanProcess ==
    \A r \in Reqs : opc[r] = "closed" =>
        /\ sessions[r] = None
        /\ host[r] # None /\ Alive(host[r]) /\ host[r] \notin broken => r \in killed

\* Steps that only a reload takes.
Reloading == \E a \in Admins : apc[a] = "idle" /\ apc'[a] = "swapped"

\* Pairing never takes the store past the max_devices of that moment, although the
\* handler reads count and limit in two critical sections and the device is pushed
\* in another, and a reload may change either (relay.rs 201-214, device_store.rs
\* 222-226).
PairingRespectsLimit ==
    [][Count(store') > Count(store) => Reloading \/ Count(store') <= limit]_vars

-----------------------------------------------------------------------------
(* Liveness, under RelayFairness.                                          *)

Running(r) == host[r] # None /\ Alive(host[r])

\* An EXEC that found its device is answered, or reaches a daemon that is still
\* served, or its CLI goes.  A session whose daemon has gone, or never got SPAWN
\* because the send failed (relay.rs 594), does not leave its CLI waiting.
ExecResolved ==
    \A r \in Reqs :
        opc[r] \in {"found", "locked", "loop"} ~>
            answer[r] # "none" \/ Running(r) \/ opc[r] \notin {"found", "locked", "loop"}

\* The cleanup after a CLI ends, with its session removed, although it waits for
\* a lock that reloads and pairings keep taking (relay.rs 454-492).
CleanupFinishes ==
    \A r \in Reqs : opc[r] = "kill" ~> opc[r] = "closed" /\ sessions[r] = None

\* The cleanup after a daemon ends: its slot is free for the next connection.
DisconnectFinishes ==
    \A c \in Conns : cpc[c] = "remove" ~> cpc[c] = "off"

\* A reload completes its walk and answers the administrator (relay.rs 630-683).
ReloadFinishes ==
    \A a \in Admins : apc[a] # "idle" ~> apc[a] = "idle"

-----------------------------------------------------------------------------
(* What a CLI sees of the relay is ExecService.                            *)

PhaseOf(l, said) ==
    CASE l = "idle"                      -> "idle"
      [] l \in {"found", "locked"}       -> "submitted"
      [] l = "loop" /\ said = "none"     -> "running"
      [] l = "loop" /\ said # "none"     -> "answered"
      [] l \in {"kill", "drop", "closed"} -> "gone"
Phase(r) == PhaseOf(opc[r], answer[r])

Service == INSTANCE ExecService WITH
    phase   <- [r \in Reqs |-> Phase(r)],
    outcome <- answer

\* Every step of the relay is a step of ExecService or invisible to every CLI:
\* one fitting answer per invocation, given once (relay.rs 309-373, 509-615).
ImplementsService == Service!ServiceSpec
=============================================================================
