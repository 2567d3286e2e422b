----------------------------- MODULE Relay_proofs -----------------------------
(***************************************************************************)
(* What TLAPS proves of Relay, for any number of devices, connections,     *)
(* requests and reloads, and whether or not two connections may pair as    *)
(* the same device.                                                        *)
(***************************************************************************)
EXTENDS Relay, FiniteSetTheorems, TLAPS

-----------------------------------------------------------------------------
(* Types.                                                                  *)

\* A request that is looking for its client knows the device.
TargetFound == \A r \in Reqs : opc[r] \in {"found", "locked"} => target[r] \in Devices

TypeInv == TypeOK /\ TargetFound

\* The devices of a store can be counted.
LEMMA CountType == ASSUME NEW s PROVE Count(s) \in Nat
<1>1. IsFiniteSet({d \in Devices : s[d] # "absent"})
  BY DeviceAssumption, FS_Subset
<1> QED
  BY <1>1, FS_CardinalityType DEF Count

\* Every variable keeps its type in every step of the relay.
LEMMA TypeStep == TypeInv /\ [Next]_vars => TypeOK'
<1>1. SUFFICES ASSUME TypeOK, TargetFound, [Next]_vars PROVE TypeOK'
  BY DEF TypeInv
<1> USE NoneAssumption, DevOfAssumption
    DEF TypeOK, storeVars, clientVars, connVars, readVars, oshVars, procVars, adminVars, Goto, OshGoto, Reply, Status, Message, Pairing, Leaving, ConnPC, OshPC,
      Ended, Answer
<1>2. CASE UNCHANGED vars
  BY <1>1, <1>2 DEF vars
<1>3. ASSUME NEW c \in Conns, ClientStep(c) PROVE TypeOK'
  <2>1. CASE ClientConnect(c)
    BY <1>1, <2>1 DEF ClientConnect
  <2>2. CASE PairAuthFailed(c)
    BY <1>1, <2>2 DEF PairAuthFailed, Refuse
  <2>3. CASE PairExists(c)
    BY <1>1, <2>3 DEF PairExists
  <2>3a. CASE PairCount(c)
    <3>1. Count(store) \in Nat
      BY CountType
    <3> QED
      BY <1>1, <2>3a, <3>1 DEF PairCount
  <2>4. CASE PairWithinLimit(c)
    BY <1>1, <2>4 DEF PairWithinLimit
  <2>5. CASE PairLimitExceeded(c)
    BY <1>1, <2>5 DEF PairLimitExceeded, Refuse
  <2>6. CASE PairLookup(c)
    BY <1>1, <2>6 DEF PairLookup
  <2>7. CASE PairUpsertFails(c)
    BY <1>1, <2>7 DEF PairUpsertFails, Upserted, Recorded
  <2>8. CASE PairUpsert(c)
    BY <1>1, <2>8 DEF PairUpsert, Upserted, Recorded
  <2>9. CASE PairRegister(c)
    BY <1>1, <2>9 DEF PairRegister, EntryApproved
  <2>10. ASSUME NEW r \in Reqs, NEW kind \in Ended, ClientEnd(c, r, kind) PROVE TypeOK'
    BY <1>1, <2>10 DEF ClientEnd
  <2>11. CASE ClientEndRemove(c)
    BY <1>1, <2>11 DEF ClientEndRemove, ToRemove
  <2>12. CASE WriterDies(c)
    BY <1>1, <2>12 DEF WriterDies
  <2>13. CASE ClientLeave(c)
    BY <1>1, <2>13 DEF ClientLeave
  <2>14. CASE DisconnectRemove(c)
    BY <1>1, <2>14 DEF DisconnectRemove
  <2>15. CASE DisconnectScan(c)
    BY <1>1, <2>15 DEF DisconnectScan, SessionsOf
  <2>16. CASE DisconnectPurge(c)
    BY <1>1, <2>16 DEF DisconnectPurge, ToRemove, LoseHost
  <2> QED
    BY <1>3, <2>1, <2>2, <2>3, <2>3a, <2>4, <2>5, <2>6, <2>7, <2>8, <2>9, <2>10, <2>11, <2>12,
       <2>13, <2>14, <2>15, <2>16 DEF ClientStep, PairStep
<1>4. ASSUME NEW r \in Reqs, OshStep(r) PROVE TypeOK'
  <2>1. CASE ExecRefused(r)
    BY <1>1, <2>1 DEF ExecRefused
  <2>2. ASSUME NEW d \in Devices, ExecFind(r, d) PROVE TypeOK'
    BY <1>1, <2>2 DEF ExecFind
  <2>3. CASE ExecClient(r)
    BY <1>1, <2>3 DEF ExecClient
  <2>4. CASE ExecSpawn(r)
    BY <1>1, <2>4 DEF ExecSpawn, TargetFound
  <2>5. CASE InputUnknown(r)
    BY <1>1, <2>5 DEF InputUnknown
  <2>6. CASE OshClose(r)
    BY <1>1, <2>6 DEF OshClose
  <2>7. CASE CleanupKill(r)
    BY <1>1, <2>7 DEF CleanupKill
  <2>8. CASE CleanupDrop(r)
    BY <1>1, <2>8 DEF CleanupDrop
  <2> QED
    BY <1>4, <2>1, <2>2, <2>3, <2>4, <2>5, <2>6, <2>7, <2>8 DEF OshStep
<1>5. ASSUME NEW a \in Admins, AdminStep(a) PROVE TypeOK'
  <2>1. CASE ReloadSwap(a)
    BY <1>1, <2>1, LimitAssumption DEF ReloadSwap
  <2>2. CASE ReloadLock(a)
    BY <1>1, <2>2 DEF ReloadLock, AfterVisit
  <2>3. ASSUME NEW d \in Devices, ReloadOne(a, d) PROVE TypeOK'
    BY <1>1, <2>3 DEF ReloadOne, AfterVisit
  <2> QED
    BY <1>5, <2>1, <2>2, <2>3 DEF AdminStep
<1> QED
  BY <1>1, <1>2, <1>3, <1>4, <1>5 DEF Next

\* find_device fixes the device before the request goes on, and nothing changes
\* it afterwards.
LEMMA TargetStep == TypeInv /\ [Next]_vars => TargetFound'
<1>1. SUFFICES ASSUME TypeOK, TargetFound, [Next]_vars PROVE TargetFound'
  BY DEF TypeInv
<1> USE DEF TypeOK, TargetFound, oshVars, OshGoto
<1>2. CASE UNCHANGED vars
  BY <1>1, <1>2 DEF vars
<1>3. ASSUME NEW c \in Conns, ClientStep(c) PROVE TargetFound'
  <2>1. UNCHANGED oshVars
    BY <1>3 DEF ClientStep, PairStep, Refuse, ClientConnect, PairAuthFailed, PairExists, PairCount,
       PairWithinLimit, PairLimitExceeded, PairLookup, PairUpsertFails, PairUpsert,
       PairRegister, ClientEnd, ClientEndRemove, WriterDies, ClientLeave, DisconnectRemove,
       DisconnectScan, DisconnectPurge
  <2> QED
    BY <1>1, <2>1
<1>4. ASSUME NEW r \in Reqs, OshStep(r) PROVE TargetFound'
  BY <1>1, <1>4 DEF OshStep, ExecRefused, ExecFind, ExecClient, ExecSpawn, InputUnknown,
     OshClose, CleanupKill, CleanupDrop
<1>5. ASSUME NEW a \in Admins, AdminStep(a) PROVE TargetFound'
  BY <1>1, <1>5 DEF AdminStep, ReloadSwap, ReloadLock, ReloadOne, AfterVisit
<1> QED
  BY <1>1, <1>2, <1>3, <1>4, <1>5 DEF Next

\* The variables of the relay have the types TypeOK gives them, always.
THEOREM TypeCorrect == Spec => []TypeOK
<1>1. Init => TypeInv
  BY NoneAssumption, LimitAssumption DEF Init, TypeInv, TypeOK, TargetFound, Status, Message, ConnPC, OshPC, Answer
<1>2. TypeInv /\ [Next]_vars => TypeInv'
  BY TypeStep, TargetStep DEF TypeInv
<1>3. TypeInv => TypeOK
  BY DEF TypeInv
<1> QED
  BY <1>1, <1>2, <1>3, PTL DEF Spec

-----------------------------------------------------------------------------
(* The inductive invariant.                                                *)

\* The reload walk excludes EXEC, and the devices it has still to visit keep
\* their entries.
WalkExcludes ==
    \A a \in Admins : apc[a] = "walk" =>
        /\ \A r \in Reqs : opc[r] # "locked"
        /\ \A d \in todo[a] : Online(d)

\* Before SPAWN nothing is known of a request.
Unstarted ==
    \A r \in Reqs : opc[r] \in {"idle", "found", "locked"} =>
        /\ sessions[r] = None
        /\ host[r] = None
        /\ answer[r] = "none"
        /\ \A c \in Conns : r \notin batch[c]

\* A session about to be removed by a client connection has been answered.
RemovalAnswered ==
    \A c \in Conns : \A r \in batch[c] : sessions[r] = None \/ ~Reads(r)

IInv ==
    /\ TypeInv
    /\ WalkExcludes
    /\ SpawnIsAuthorised
    /\ Unstarted
    /\ RemovalAnswered
    /\ NeverDropped
    /\ SessionHasClient
    /\ NoDanglingSender
    /\ ToldMatchesFlag

\* What EXEC established under the `clients` lock survives until SPAWN: whoever
\* writes to clients waits for the lock.
LEMMA LockStep == IInv /\ [Next]_vars => (WalkExcludes /\ SpawnIsAuthorised)'
<1>1. SUFFICES ASSUME TypeInv, WalkExcludes, SpawnIsAuthorised, [Next]_vars
               PROVE  (WalkExcludes /\ SpawnIsAuthorised)'
  BY DEF IInv
<1> USE NoneAssumption, DevOfAssumption DEF TypeInv, TypeOK, TargetFound, WalkExcludes,
      SpawnIsAuthorised, Online, ClientsReadable, ClientsWritable, clientVars, connVars, readVars,
      oshVars, adminVars, Goto, OshGoto
<1>2. CASE UNCHANGED vars
  BY <1>1, <1>2 DEF vars
<1>3. ASSUME NEW c \in Conns, ClientStep(c) PROVE (WalkExcludes /\ SpawnIsAuthorised)'
  <2>1. CASE PairRegister(c)
    BY <1>1, <2>1 DEF PairRegister, EntryApproved
  <2>2. CASE DisconnectRemove(c)
    BY <1>1, <2>2 DEF DisconnectRemove
  <2>3. CASE UNCHANGED <<clients, approved, opc, target, apc, todo>>
    BY <1>1, <2>3
  <2> QED
    BY <1>3, <2>1, <2>2, <2>3 DEF ClientStep, PairStep, Refuse, ClientConnect, PairAuthFailed,
       PairExists, PairCount, PairWithinLimit, PairLimitExceeded, PairLookup, PairUpsertFails, PairUpsert,
       ClientEnd, ClientEndRemove, WriterDies, ClientLeave, DisconnectScan, DisconnectPurge
<1>4. ASSUME NEW r \in Reqs, OshStep(r) PROVE (WalkExcludes /\ SpawnIsAuthorised)'
  <2>1. CASE ExecClient(r)
    BY <1>1, <2>1 DEF ExecClient
  <2>2. ASSUME NEW d \in Devices, ExecFind(r, d) PROVE (WalkExcludes /\ SpawnIsAuthorised)'
    BY <1>1, <2>2 DEF ExecFind
  <2>3. CASE ExecRefused(r) \/ ExecSpawn(r) \/ InputUnknown(r) \/ OshClose(r)
             \/ CleanupKill(r) \/ CleanupDrop(r)
    BY <1>1, <2>3 DEF ExecRefused, ExecSpawn, InputUnknown, OshClose, CleanupKill, CleanupDrop
  <2> QED
    BY <1>4, <2>1, <2>2, <2>3 DEF OshStep
<1>5. ASSUME NEW a \in Admins, AdminStep(a) PROVE (WalkExcludes /\ SpawnIsAuthorised)'
  <2>1. CASE ReloadSwap(a)
    BY <1>1, <2>1 DEF ReloadSwap
  <2>2. CASE ReloadLock(a)
    BY <1>1, <2>2 DEF ReloadLock, AfterVisit
  <2>3. ASSUME NEW d \in Devices, ReloadOne(a, d) PROVE (WalkExcludes /\ SpawnIsAuthorised)'
    BY <1>1, <2>3 DEF ReloadOne, AfterVisit
  <2> QED
    BY <1>5, <2>1, <2>2, <2>3 DEF AdminStep
<1> QED
  BY <1>1, <1>2, <1>3, <1>4, <1>5 DEF Next

\* Every removal of a session has been answered, and so no CLI that waits is
\* without a session and without an answer.
LEMMA AnswerStep == IInv /\ [Next]_vars => (Unstarted /\ RemovalAnswered /\ NeverDropped)'
<1> DEFINE A == Unstarted /\ RemovalAnswered /\ NeverDropped
<1>1. SUFFICES ASSUME TypeInv, A, [Next]_vars PROVE A'
  BY DEF IInv
<1> USE NoneAssumption, DevOfAssumption DEF TypeInv, TypeOK, TargetFound, Unstarted,
      RemovalAnswered, NeverDropped, connVars, readVars, oshVars, procVars, Goto, OshGoto, Reply, Reads, Gone,
      Ended
<1>2. CASE UNCHANGED vars
  BY <1>1, <1>2 DEF vars
<1>3. ASSUME NEW c \in Conns, ClientStep(c) PROVE A'
  <2>1. ASSUME NEW r \in Reqs, NEW kind \in Ended, ClientEnd(c, r, kind) PROVE A'
    BY <1>1, <2>1 DEF ClientEnd
  <2>2. CASE ClientEndRemove(c)
    BY <1>1, <2>2 DEF ClientEndRemove, ToRemove
  <2>3. CASE DisconnectScan(c)
    BY <1>1, <2>3 DEF DisconnectScan, SessionsOf
  <2>4. CASE DisconnectPurge(c)
    BY <1>1, <2>4 DEF DisconnectPurge, ToRemove, LoseHost
  <2>5. CASE UNCHANGED <<sessions, batch, opc, answer, host>>
    BY <1>1, <2>5
  <2> QED
    BY <1>3, <2>1, <2>2, <2>3, <2>4, <2>5 DEF ClientStep, PairStep, Refuse, ClientConnect,
       PairAuthFailed, PairExists, PairCount, PairWithinLimit, PairLimitExceeded, PairLookup,
       PairUpsertFails, PairUpsert, PairRegister, WriterDies, ClientLeave, DisconnectRemove
<1>4. ASSUME NEW r \in Reqs, OshStep(r) PROVE A'
  <2>1. CASE ExecRefused(r)
    BY <1>1, <2>1 DEF ExecRefused
  <2>2. ASSUME NEW d \in Devices, ExecFind(r, d) PROVE A'
    BY <1>1, <2>2 DEF ExecFind
  <2>3. CASE ExecClient(r)
    BY <1>1, <2>3 DEF ExecClient
  <2>4. CASE ExecSpawn(r)
    BY <1>1, <2>4 DEF ExecSpawn
  <2>5. CASE InputUnknown(r)
    BY <1>1, <2>5 DEF InputUnknown
  <2>6. CASE OshClose(r)
    BY <1>1, <2>6 DEF OshClose
  <2>7. CASE CleanupKill(r)
    BY <1>1, <2>7 DEF CleanupKill
  <2>8. CASE CleanupDrop(r)
    BY <1>1, <2>8 DEF CleanupDrop
  <2> QED
    BY <1>4, <2>1, <2>2, <2>3, <2>4, <2>5, <2>6, <2>7, <2>8 DEF OshStep
<1>5. ASSUME NEW a \in Admins, AdminStep(a) PROVE A'
  BY <1>1, <1>5 DEF AdminStep, ReloadSwap, ReloadLock, ReloadOne, AfterVisit
<1> QED
  BY <1>1, <1>2, <1>3, <1>4, <1>5 DEF Next

\* Whichever connection removes the entry of a device also scans its sessions.
LEMMA OwnerStep == IInv /\ [Next]_vars => SessionHasClient'
<1>1. SUFFICES ASSUME TypeInv, SpawnIsAuthorised, SessionHasClient, [Next]_vars
               PROVE  SessionHasClient'
  BY DEF IInv
<1> USE NoneAssumption, DevOfAssumption DEF TypeInv, TypeOK, TargetFound, SessionHasClient,
      Online, clientVars, connVars, readVars, Goto
<1>2. CASE UNCHANGED vars
  BY <1>1, <1>2 DEF vars
<1>3. ASSUME NEW c \in Conns, ClientStep(c) PROVE SessionHasClient'
  <2>1. CASE PairRegister(c)
    BY <1>1, <2>1 DEF PairRegister, EntryApproved
  <2>2. ASSUME NEW r \in Reqs, NEW kind \in Ended, ClientEnd(c, r, kind) PROVE SessionHasClient'
    BY <1>1, <2>2 DEF ClientEnd
  <2>3. CASE ClientEndRemove(c)
    BY <1>1, <2>3 DEF ClientEndRemove, ToRemove
  <2>4. CASE DisconnectRemove(c)
    BY <1>1, <2>4 DEF DisconnectRemove
  <2>5. CASE DisconnectScan(c)
    BY <1>1, <2>5 DEF DisconnectScan, SessionsOf
  <2>6. CASE DisconnectPurge(c)
    BY <1>1, <2>6 DEF DisconnectPurge, ToRemove
  <2>7. CASE /\ UNCHANGED <<clients, sessions, batch>>
             /\ cpc[c] \notin {"scan", "purge"}
             /\ \E l : Goto(c, l)
    BY <1>1, <2>7
  <2>8. CASE WriterDies(c)
    BY <1>1, <2>8 DEF WriterDies
  <2> QED
    BY <1>3, <2>1, <2>2, <2>3, <2>4, <2>5, <2>6, <2>7, <2>8 DEF ClientStep, PairStep, Refuse,
       ClientConnect, PairAuthFailed, PairExists, PairCount, PairWithinLimit, PairLimitExceeded,
       PairLookup, PairUpsertFails, PairUpsert, ClientLeave
<1>4. ASSUME NEW r \in Reqs, OshStep(r) PROVE SessionHasClient'
  <2>1. CASE ExecSpawn(r)
    BY <1>1, <2>1 DEF ExecSpawn, SpawnIsAuthorised
  <2>2. CASE CleanupDrop(r)
    BY <1>1, <2>2 DEF CleanupDrop
  <2>3. CASE UNCHANGED <<clients, sessions, cpc, batch>>
    BY <1>1, <2>3
  <2> QED
    BY <1>4, <2>1, <2>2, <2>3 DEF OshStep, ExecRefused, ExecFind, ExecClient, InputUnknown,
       OshClose, CleanupKill
<1>5. ASSUME NEW a \in Admins, AdminStep(a) PROVE SessionHasClient'
  BY <1>1, <1>5 DEF AdminStep, ReloadSwap, ReloadLock, ReloadOne, AfterVisit
<1> QED
  BY <1>1, <1>2, <1>3, <1>4, <1>5 DEF Next

\* An entry belongs to a connection of its device that is still there, and its
\* flag is what that connection was told.
LEMMA EntryStep == IInv /\ [Next]_vars => (NoDanglingSender /\ ToldMatchesFlag)'
<1> DEFINE E == NoDanglingSender /\ ToldMatchesFlag
<1>1. SUFFICES ASSUME TypeInv, WalkExcludes, E, [Next]_vars PROVE E'
  BY DEF IInv
<1> USE NoneAssumption, DevOfAssumption DEF TypeInv, TypeOK, WalkExcludes, NoDanglingSender,
      ToldMatchesFlag, Online, clientVars, connVars, readVars, Goto, Leaving
<1>2. CASE UNCHANGED vars
  BY <1>1, <1>2 DEF vars
<1>3. ASSUME NEW c \in Conns, ClientStep(c) PROVE E'
  <2>1. CASE PairUpsert(c)
    BY <1>1, <2>1 DEF PairUpsert
  <2>2. CASE PairRegister(c)
    <3>1. NoDanglingSender'
      BY <1>1, <2>2 DEF PairRegister, EntryApproved
    <3>2. ASSUME NEW d \in Devices, (Online(d) /\ clients[d] \notin broken)'
          PROVE  (approved[d] <=> told[clients[d]] = "approved")'
      <4>1. CASE d = DevOf[c]
        <5>1. approved'[d] = (told[c] = "approved")
          BY <1>1, <2>2, <4>1 DEF PairRegister, EntryApproved
        <5>2. clients'[d] = c /\ told' = told
          BY <1>1, <2>2, <4>1 DEF PairRegister, EntryApproved
        <5> QED
          BY <5>1, <5>2, Zenon
      <4>2. CASE d # DevOf[c]
        <5>1. clients'[d] = clients[d] /\ approved'[d] = approved[d]
          BY <1>1, <2>2, <4>2 DEF PairRegister, EntryApproved
        <5>2. told' = told /\ broken' = broken
          BY <2>2 DEF PairRegister, EntryApproved
        <5> QED
          BY <1>1, <3>2, <5>1, <5>2
      <4> QED
        BY <4>1, <4>2
    <3> QED
      BY <3>1, <3>2
  <2>3. ASSUME NEW r \in Reqs, NEW kind \in Ended, ClientEnd(c, r, kind) PROVE E'
    BY <1>1, <2>3 DEF ClientEnd
  <2>4. CASE ClientEndRemove(c)
    BY <1>1, <2>4 DEF ClientEndRemove, ToRemove
  <2>5. CASE WriterDies(c)
    BY <1>1, <2>5 DEF WriterDies
  <2>6. CASE ClientLeave(c)
    BY <1>1, <2>6 DEF ClientLeave
  <2>7. CASE DisconnectRemove(c)
    BY <1>1, <2>7 DEF DisconnectRemove
  <2>8. CASE DisconnectScan(c)
    BY <1>1, <2>8 DEF DisconnectScan
  <2>9. CASE DisconnectPurge(c)
    BY <1>1, <2>9 DEF DisconnectPurge, ToRemove
  <2>10. CASE /\ UNCHANGED <<clients, approved, told, broken>>
              /\ cpc[c] \notin {"loop", "ended", "remove"}
              /\ \E l : Goto(c, l)
    BY <1>1, <2>10
  <2> QED
    BY <1>3, <2>1, <2>2, <2>3, <2>4, <2>5, <2>6, <2>7, <2>8, <2>9, <2>10 DEF ClientStep,
       PairStep, Refuse, ClientConnect, PairAuthFailed, PairExists, PairCount, PairWithinLimit,
       PairLimitExceeded, PairLookup, PairUpsertFails
<1>4. ASSUME NEW r \in Reqs, OshStep(r) PROVE E'
  <2>1. UNCHANGED <<clients, approved, told, cpc, broken>>
    BY <1>4 DEF OshStep, ExecRefused, ExecFind, ExecClient, ExecSpawn, InputUnknown, OshClose,
       CleanupKill, CleanupDrop
  <2> QED
    BY <1>1, <2>1
<1>5. ASSUME NEW a \in Admins, AdminStep(a) PROVE E'
  <2>1. CASE ReloadSwap(a) \/ ReloadLock(a)
    BY <1>1, <2>1 DEF ReloadSwap, ReloadLock, AfterVisit
  <2>2. ASSUME NEW d \in Devices, ReloadOne(a, d) PROVE E'
    <3>1. clients' = clients /\ cpc' = cpc /\ broken' = broken
      BY <2>2 DEF ReloadOne, AfterVisit
    <3>2. NoDanglingSender'
      BY <1>1, <3>1
    <3>3. ASSUME NEW e \in Devices, (Online(e) /\ clients[e] \notin broken)'
          PROVE  (approved[e] <=> told[clients[e]] = "approved")'
      <4>1. Online(d)
        BY <1>1, <2>2 DEF ReloadOne, AfterVisit
      <4>2. approved'[d] = (store[d] = "approved")
        BY <1>1, <2>2 DEF ReloadOne, AfterVisit
      <4>3. told' = IF (store[d] = "approved") = approved[d] \/ clients[d] \in broken THEN told
                    ELSE [told EXCEPT ![clients[d]] =
                            IF store[d] = "approved" THEN "approved" ELSE "rejected"]
        BY <2>2 DEF ReloadOne, AfterVisit
      <4>4. CASE e = d
        <5>1. clients[d] \in Conns /\ clients[d] \notin broken
          BY <1>1, <3>1, <3>3, <4>1, <4>4
        <5>2. approved[d] <=> told[clients[d]] = "approved"
          BY <1>1, <4>1, <5>1
        <5>3. CASE (store[d] = "approved") = approved[d]
          BY <3>1, <4>2, <4>3, <4>4, <5>2, <5>3, Zenon
        <5>4. CASE (store[d] = "approved") # approved[d]
          <6>1. told'[clients[d]] = IF store[d] = "approved" THEN "approved" ELSE "rejected"
            BY <1>1, <4>3, <5>1, <5>4
          <6>2. told'[clients[d]] = "approved" <=> store[d] = "approved"
            BY <6>1
          <6> QED
            BY <3>1, <4>2, <4>4, <6>2, Zenon
        <5> QED
          BY <5>3, <5>4
      <4>5. CASE e # d
        <5>1. clients[e] # clients[d] /\ clients[e] \in Conns
          BY <1>1, <3>1, <3>3, <4>1, <4>5
        <5>2. approved'[e] = approved[e]
          BY <1>1, <2>2, <4>5 DEF ReloadOne, AfterVisit
        <5>3. told'[clients[e]] = told[clients[e]]
          BY <1>1, <4>3, <5>1
        <5> QED
          BY <1>1, <3>1, <3>3, <5>2, <5>3
      <4> QED
        BY <4>4, <4>5
    <3> QED
      BY <3>2, <3>3
  <2> QED
    BY <1>5, <2>1, <2>2 DEF AdminStep
<1> QED
  BY <1>1, <1>2, <1>3, <1>4, <1>5 DEF Next

\* The inductive invariant holds always.
THEOREM Inductive == Spec => []IInv
<1>1. Init => IInv
  <2>1. Init => TypeInv
    BY NoneAssumption, LimitAssumption DEF Init, TypeInv, TypeOK, TargetFound, Status, Message, ConnPC, OshPC,
       Answer
  <2>2. Init => /\ WalkExcludes /\ SpawnIsAuthorised /\ Unstarted /\ RemovalAnswered
                /\ NeverDropped /\ SessionHasClient /\ NoDanglingSender /\ ToldMatchesFlag
    BY DEF Init, WalkExcludes, SpawnIsAuthorised, Unstarted, RemovalAnswered, NeverDropped,
       SessionHasClient, NoDanglingSender, ToldMatchesFlag, Online
  <2> QED
    BY <2>1, <2>2 DEF IInv
<1>2. IInv /\ [Next]_vars => IInv'
  BY TypeStep, TargetStep, LockStep, AnswerStep, OwnerStep, EntryStep DEF IInv, TypeInv
<1> QED
  BY <1>1, <1>2, PTL DEF Spec

\* SPAWN is only ever sent to a client that has an entry and is approved in it at
\* that moment (EXEC, relay.rs 546-594).
THEOREM SpawnAuthorised == Spec => []SpawnIsAuthorised
<1>1. IInv => SpawnIsAuthorised
  BY DEF IInv
<1> QED
  BY <1>1, Inductive, PTL

\* A session always has a client, or a disconnect handler that is about to deal
\* with it (relay.rs 346-373).
THEOREM SessionsHaveClients == Spec => []SessionHasClient
<1>1. IInv => SessionHasClient
  BY DEF IInv
<1> QED
  BY <1>1, Inductive, PTL

\* A CLI whose EXEC has been handled has a session or an answer, and is never
\* ended by INVALID_REQ_ID (relay.rs 309-338, 354-372, 609-615).
THEOREM CliNeverDropped == Spec => []NeverDropped
<1>1. IInv => NeverDropped
  BY DEF IInv
<1> QED
  BY <1>1, Inductive, PTL

\* No entry of `clients` outlives its connection (relay.rs 282-291, 350).
THEOREM EntriesHaveConnections == Spec => []NoDanglingSender
<1>1. IInv => NoDanglingSender
  BY DEF IInv
<1> QED
  BY <1>1, Inductive, PTL

\* The approval flag agrees with what the daemon was told last (relay.rs 278-291,
\* 658-680).
THEOREM FlagsMatchMessages == Spec => []ToldMatchesFlag
<1>1. IInv => ToldMatchesFlag
  BY DEF IInv
<1> QED
  BY <1>1, Inductive, PTL

-----------------------------------------------------------------------------
(* When a daemon connects again only after the relay has finished with its *)
(* previous connection, no two connections have the same device.  What     *)
(* follows needs that: MCRelay shows it false without.                     *)

Apart == \A c, e \in Conns : DevOf[c] = DevOf[e] => c = e

\* A connection that paired is the entry of its device until it removes it.
OwnEntry == \A c \in Conns : cpc[c] \in {"loop", "ended", "remove"} => clients[DevOf[c]] = c

\* Nobody else replaces or removes the entry of a connection.
LEMMA OwnEntryStep ==
  ASSUME Apart, TypeOK, OwnEntry, [Next]_vars
  PROVE  OwnEntry'
<1> USE DevOfAssumption DEF TypeOK, OwnEntry, Goto, connVars, readVars, clientVars
<1>1. CASE UNCHANGED vars
  BY <1>1 DEF vars
<1>2. ASSUME NEW c \in Conns, ClientStep(c) PROVE OwnEntry'
  <2>1. CASE PairRegister(c)
    BY <2>1 DEF PairRegister, EntryApproved, Apart
  <2>2. CASE DisconnectRemove(c)
    BY <2>2 DEF DisconnectRemove, Apart
  <2>3. CASE ClientEndRemove(c)
    BY <2>3 DEF ClientEndRemove, ToRemove
  <2>4. CASE ClientLeave(c)
    BY <2>4 DEF ClientLeave
  <2>5. ASSUME NEW r \in Reqs, NEW kind \in Ended, ClientEnd(c, r, kind) PROVE OwnEntry'
    BY <2>5 DEF ClientEnd
  <2>6. CASE WriterDies(c)
    BY <2>6 DEF WriterDies
  <2>7. CASE /\ UNCHANGED clients
             /\ \E l \in ConnPC \ {"loop", "ended", "remove"} : Goto(c, l)
    BY <2>7
  <2>8. CASE PairUpsert(c)
    BY <2>8 DEF PairUpsert
  <2> QED
    BY <1>2, <2>1, <2>2, <2>3, <2>4, <2>5, <2>6, <2>7, <2>8 DEF ClientStep, PairStep, Refuse,
       ClientConnect, PairAuthFailed, PairExists, PairCount, PairWithinLimit, PairLimitExceeded,
       PairLookup, PairUpsertFails, DisconnectScan, DisconnectPurge, ConnPC, Pairing, Leaving
<1>3. ASSUME NEW r \in Reqs, OshStep(r) PROVE OwnEntry'
  <2>1. UNCHANGED <<clients, cpc>>
    BY <1>3 DEF OshStep, ExecRefused, ExecFind, ExecClient, ExecSpawn, InputUnknown, OshClose,
       CleanupKill, CleanupDrop
  <2> QED
    BY <2>1
<1>4. ASSUME NEW a \in Admins, AdminStep(a) PROVE OwnEntry'
  BY <1>4 DEF AdminStep, ReloadSwap, ReloadLock, ReloadOne, AfterVisit
<1> QED
  BY <1>1, <1>2, <1>3, <1>4 DEF Next

\* While a paired connection is served its device is online (relay.rs 54, 350),
\* provided that connections are apart.
THEOREM ServedOnline ==
  ASSUME Apart
  PROVE  Spec => []ServedIsOnline
<1>1. Init => OwnEntry
  BY DEF Init, OwnEntry
<1>2. TypeOK /\ OwnEntry /\ [Next]_vars => OwnEntry'
  BY OwnEntryStep
<1>3. TypeOK /\ OwnEntry => ServedIsOnline
  BY NoneAssumption, DevOfAssumption DEF TypeOK, OwnEntry, ServedIsOnline, Alive, Online
<1> QED
  BY <1>1, <1>2, <1>3, TypeCorrect, PTL DEF Spec

\* A session is with the device its request was for.
SessionTarget == \A r \in Reqs : sessions[r] # None => sessions[r] = target[r]

\* A process runs behind a connection of its device that has not been freed.
HostServes ==
    \A r \in Reqs : host[r] # None =>
        /\ DevOf[host[r]] = target[r]
        /\ cpc[host[r]] \in {"loop", "ended"} \cup Leaving

\* A connection is about to remove only sessions of processes that have ended or
\* end with it.
BatchHost ==
    \A c \in Conns : \A r \in batch[c] :
        /\ host[r] \in {None, c}
        /\ cpc[c] = "ended" => host[r] = None

\* A process of a CLI that is there, or about to be cleaned up after, has its
\* session; once it has been cleaned up after, it has been sent KILL.
ProcessTracked ==
    \A r \in Reqs : host[r] # None /\ Alive(host[r]) =>
        /\ opc[r] \in {"loop", "kill"} => sessions[r] # None
        /\ opc[r] \in {"drop", "closed"} /\ host[r] \notin broken => r \in killed

ClosedClean == \A r \in Reqs : opc[r] = "closed" => sessions[r] = None

PInv == SessionTarget /\ HostServes /\ BatchHost /\ ProcessTracked /\ ClosedClean

\* Each step keeps the processes accounted for.
LEMMA ProcessStep ==
  ASSUME Apart, IInv, OwnEntry, PInv, [Next]_vars
  PROVE  PInv'
<1>1. /\ TypeOK /\ TargetFound /\ Unstarted /\ SpawnIsAuthorised /\ NoDanglingSender
      /\ SessionTarget /\ HostServes /\ BatchHost /\ ProcessTracked /\ ClosedClean
  BY DEF IInv, TypeInv, PInv
<1> USE NoneAssumption, DevOfAssumption DEF TypeOK, SessionTarget, HostServes, BatchHost,
      ProcessTracked, ClosedClean, PInv, Alive, Leaving, connVars, readVars, oshVars, procVars,
      clientVars, adminVars, Goto, OshGoto, Reply
<1>2. CASE UNCHANGED vars
  BY <1>1, <1>2 DEF vars
<1>3. ASSUME NEW c \in Conns, ClientStep(c) PROVE PInv'
  <2>1. ASSUME NEW r \in Reqs, NEW kind \in Ended, ClientEnd(c, r, kind) PROVE PInv'
    BY <1>1, <2>1 DEF ClientEnd
  <2>2. CASE ClientEndRemove(c)
    BY <1>1, <2>2 DEF ClientEndRemove, ToRemove
  <2>3. CASE WriterDies(c)
    BY <1>1, <2>3 DEF WriterDies
  <2>4. CASE ClientLeave(c)
    BY <1>1, <2>4 DEF ClientLeave
  <2>5. CASE DisconnectRemove(c)
    BY <1>1, <2>5 DEF DisconnectRemove
  <2>6. CASE DisconnectScan(c)
    BY <1>1, <2>6 DEF DisconnectScan, SessionsOf, Apart
  <2>7. CASE DisconnectPurge(c)
    BY <1>1, <2>7 DEF DisconnectPurge, ToRemove, LoseHost
  <2>8. CASE /\ UNCHANGED <<sessions, broken, batch, opc, target, host, killed>>
             /\ cpc[c] \notin {"loop", "ended", "remove", "scan", "purge"}
             /\ \E l \in ConnPC \ {"ended"} : Goto(c, l)
    BY <1>1, <2>8
  <2> QED
    BY <1>3, <2>1, <2>2, <2>3, <2>4, <2>5, <2>6, <2>7, <2>8 DEF ClientStep, PairStep, Refuse,
       ClientConnect, PairAuthFailed, PairExists, PairCount, PairWithinLimit, PairLimitExceeded,
       PairLookup, PairUpsertFails, PairUpsert, PairRegister, ConnPC, Pairing
<1>4. ASSUME NEW r \in Reqs, OshStep(r) PROVE PInv'
  <2>1. CASE ExecRefused(r)
    BY <1>1, <2>1 DEF ExecRefused, Unstarted
  <2>2. ASSUME NEW d \in Devices, ExecFind(r, d) PROVE PInv'
    BY <1>1, <2>2 DEF ExecFind, Unstarted
  <2>3. CASE ExecClient(r)
    BY <1>1, <2>3 DEF ExecClient, Unstarted
  <2>4. CASE ExecSpawn(r)
    BY <1>1, <2>4 DEF ExecSpawn, Unstarted, SpawnIsAuthorised, NoDanglingSender, TargetFound, Online
  <2>5. CASE InputUnknown(r)
    BY <1>1, <2>5 DEF InputUnknown
  <2>6. CASE OshClose(r)
    BY <1>1, <2>6 DEF OshClose
  <2>7. CASE CleanupKill(r)
    <3>1. host[r] # None /\ Alive(host[r]) => clients[target[r]] = host[r]
      BY <1>1 DEF OwnEntry
    <3> QED
      BY <1>1, <2>7, <3>1 DEF CleanupKill, KillReaches
  <2>8. CASE CleanupDrop(r)
    BY <1>1, <2>8 DEF CleanupDrop
  <2> QED
    BY <1>4, <2>1, <2>2, <2>3, <2>4, <2>5, <2>6, <2>7, <2>8 DEF OshStep
<1>5. ASSUME NEW a \in Admins, AdminStep(a) PROVE PInv'
  BY <1>1, <1>5 DEF AdminStep, ReloadSwap, ReloadLock, ReloadOne, AfterVisit
<1> QED
  BY <1>2, <1>3, <1>4, <1>5 DEF Next

\* A CLI that has gone leaves no session and no process that has not been sent
\* KILL (relay.rs 449-492), provided that connections are apart.
THEOREM NoOrphans ==
  ASSUME Apart
  PROVE  Spec => []NoOrphanProcess
<1>1. Init => OwnEntry /\ PInv
  BY DEF Init, OwnEntry, PInv, SessionTarget, HostServes, BatchHost, ProcessTracked, ClosedClean
<1>2. IInv /\ OwnEntry /\ PInv /\ [Next]_vars => OwnEntry' /\ PInv'
  BY OwnEntryStep, ProcessStep DEF IInv, TypeInv
<1>3. PInv => NoOrphanProcess
  BY DEF PInv, ProcessTracked, ClosedClean, NoOrphanProcess
<1> QED
  BY <1>1, <1>2, <1>3, Inductive, PTL DEF Spec

-----------------------------------------------------------------------------
(* The limit of the store.                                                 *)

Known(s) == {d \in Devices : s[d] # "absent"}

\* Only a pairing and a reload change the store.
LEMMA StoreStep ==
  ASSUME TypeOK, [Next]_vars
  PROVE  \/ UNCHANGED store
         \/ Reloading
         \/ \E c \in Conns : ~UpsertRefused(DevOf[c]) /\ store' = Upserted(DevOf[c], seen[c])
<1>1. CASE UNCHANGED vars
  BY <1>1 DEF vars, storeVars
<1>2. ASSUME NEW c \in Conns, ClientStep(c)
      PROVE  \/ UNCHANGED store
             \/ ~UpsertRefused(DevOf[c]) /\ store' = Upserted(DevOf[c], seen[c])
  BY <1>2
  DEF storeVars, ClientStep, ClientConnect, PairAuthFailed, Refuse, PairStep, PairExists, PairCount, PairWithinLimit,
      PairLimitExceeded, PairLookup, PairUpsertFails, PairUpsert, PairRegister, ClientEnd,
      ClientEndRemove, WriterDies, ClientLeave, DisconnectRemove, DisconnectScan, DisconnectPurge
<1>3. ASSUME NEW r \in Reqs, OshStep(r) PROVE UNCHANGED store
  BY <1>3
  DEF storeVars, OshStep, ExecRefused, ExecFind, ExecClient, ExecSpawn, InputUnknown, OshClose,
      CleanupKill, CleanupDrop
<1>4. ASSUME NEW a \in Admins, AdminStep(a) PROVE UNCHANGED store \/ Reloading
  BY <1>4 DEF storeVars, AdminStep, ReloadSwap, ReloadLock, ReloadOne, Reloading, TypeOK
<1> QED
  BY <1>1, <1>2, <1>3, <1>4 DEF Next

\* A pairing adds at most one device, and only to a store that is not full.
LEMMA UpsertWithinLimit ==
  ASSUME TypeOK, NEW c \in Conns,
         ~UpsertRefused(DevOf[c]), store' = Upserted(DevOf[c], seen[c])
  PROVE  Count(store') > Count(store) => Count(store') <= limit
<1> DEFINE d == DevOf[c]
<1>1. /\ d \in Devices /\ store \in [Devices -> Status] /\ Recorded(seen[c]) # "absent"
      /\ limit \in Nat
  BY DevOfAssumption DEF TypeOK, Recorded
<1>2. IsFiniteSet(Known(store)) /\ Cardinality(Known(store)) \in Nat
  BY DeviceAssumption, FS_Subset, FS_CardinalityType DEF Known
<1>3. CASE store[d] # "absent"
  <2>1. store' = store
    BY <1>3 DEF Upserted
  <2> QED  BY <1>2, <2>1 DEF Count, Known
<1>4. CASE store[d] = "absent"
  <2>1. store' = [store EXCEPT ![d] = Recorded(seen[c])]
    BY <1>4 DEF Upserted
  <2>2. Known(store') = Known(store) \cup {d} /\ d \notin Known(store)
    BY <1>1, <1>4, <2>1 DEF Known
  <2>3. Cardinality(Known(store')) = Cardinality(Known(store)) + 1
    BY <1>2, <2>2, FS_AddElement
  <2>4. Cardinality(Known(store)) < limit
    BY <1>1, <1>2, <1>4 DEF UpsertRefused, Full, Count, Known
  <2> QED  BY <1>1, <1>2, <2>3, <2>4 DEF Count, Known
<1> QED  BY <1>3, <1>4

\* Pairing does not take the store past max_devices, although the handler reads
\* count and limit apart and long before the push, and other devices pair and
\* reloads change both in between (relay.rs 201-214, device_store.rs 222-226).
THEOREM PairingKeepsLimit == Spec => PairingRespectsLimit
<1> DEFINE Within == Count(store') > Count(store) => Reloading \/ Count(store') <= limit
<1>1. TypeInv /\ [Next]_vars => [Within]_vars
  <2> SUFFICES ASSUME TypeInv, [Next]_vars PROVE Within
    OBVIOUS
  <2>1. CASE UNCHANGED store
    <3>1. Count(store') = Count(store) /\ Count(store) \in Nat
      BY <2>1, CountType
    <3> QED  BY <3>1
  <2>2. ASSUME NEW c \in Conns, ~UpsertRefused(DevOf[c]), store' = Upserted(DevOf[c], seen[c])
        PROVE  Within
    BY <2>2, UpsertWithinLimit DEF TypeInv
  <2> QED  BY <2>1, <2>2, StoreStep DEF TypeInv
<1>2. Spec => []TypeInv
  BY Inductive, PTL DEF IInv
<1> QED
  BY <1>1, <1>2, PTL DEF Spec, PairingRespectsLimit

-----------------------------------------------------------------------------
(* The service: the relay implements ExecService, what a CLI sees of it is *)
(* one fitting answer.                                                     *)


phases == [r \in Reqs |-> Phase(r)]

\* The phase of a task, case by case.
LEMMA PhaseValue ==
  ASSUME NEW l, NEW said
  PROVE  /\ PhaseOf("idle", said) = "idle"
         /\ l \in {"found", "locked"} => PhaseOf(l, said) = "submitted"
         /\ said = "none" => PhaseOf("loop", said) = "running"
         /\ said # "none" => PhaseOf("loop", said) = "answered"
         /\ l \in {"kill", "drop", "closed"} => PhaseOf(l, said) = "gone"
BY DEF PhaseOf

\* A step that moves one CLI task changes the phase of its request only.
LEMMA PhaseChange ==
  ASSUME NEW r \in Reqs, NEW p, PhaseOf(opc'[r], answer'[r]) = p,
         \A q \in Reqs \ {r} : opc'[q] = opc[q] /\ answer'[q] = answer[q]
  PROVE  phases' = [phases EXCEPT ![r] = p]
BY DEF phases, Phase

\* A step that moves no CLI task and answers nothing is invisible to the CLIs.
LEMMA Invisible ==
  ASSUME UNCHANGED <<opc, answer>>
  PROVE  UNCHANGED Service!serviceVars
BY DEF Phase, Service!serviceVars

\* An answer to requests that run is the end of those that still wait for one.
LEMMA Answering ==
  ASSUME TypeOK, Unstarted,
         NEW R \in SUBSET Reqs, NEW kind \in {"EXIT", "ERROR", "OFFLINE"},
         \A r \in R : opc[r] \notin {"idle", "found", "locked"},
         Reply(R, kind), opc' = opc
  PROVE  [Service!ServiceNext]_Service!serviceVars
<1> DEFINE W == {r \in R : Reads(r)}
<1>1. answer' = [r \in Reqs |-> IF r \in W THEN kind ELSE answer[r]]
  BY DEF Reply
<1>2. \A r \in W : Phase(r) = "running" /\ Phase(r)' = "answered"
  <2> SUFFICES ASSUME NEW r \in W PROVE Phase(r) = "running" /\ Phase(r)' = "answered"
    OBVIOUS
  <2>1. opc[r] = "loop" /\ answer[r] = "none"
    BY DEF Reads, Gone, TypeOK, OshPC
  <2>2. opc'[r] = "loop" /\ answer'[r] # "none"
    BY <1>1, <2>1
  <2> QED
    BY <2>1, <2>2, PhaseValue DEF Phase
<1>3. \A r \in Reqs \ W : Phase(r)' = Phase(r)
  BY <1>1 DEF Phase
<1>4. CASE W = {}
  BY <1>1, <1>3, <1>4, Invisible DEF TypeOK
<1>5. CASE W # {}
  <2>1. Service!Finish(W, kind)
    BY <1>1, <1>2, <1>3, <1>5 DEF Service!Finish
  <2> QED
    BY <2>1 DEF Service!ServiceNext, Service!Endings
<1> QED
  BY <1>4, <1>5

\* Every step of the relay is a step of the service or changes nothing a CLI sees.
LEMMA ServiceStep ==
  ASSUME IInv, [Next]_vars
  PROVE  [Service!ServiceNext]_Service!serviceVars
<1>1. TypeOK /\ TargetFound /\ Unstarted /\ NeverDropped
  BY DEF IInv, TypeInv
<1>2. CASE UNCHANGED <<opc, answer>>
  BY <1>2, Invisible
<1>3. ASSUME NEW c \in Conns, ClientStep(c) PROVE [Service!ServiceNext]_Service!serviceVars
  <2>1. ASSUME NEW r \in Reqs, NEW kind \in Ended, ClientEnd(c, r, kind)
        PROVE  [Service!ServiceNext]_Service!serviceVars
    <3>1. opc' = opc /\ opc[r] \notin {"idle", "found", "locked"}
      BY <1>1, <2>1, NoneAssumption DEF ClientEnd, oshVars, Unstarted
    <3>2. CASE sessions[r] # None
      BY <1>1, <2>1, <3>1, <3>2, Answering DEF ClientEnd, Ended
    <3>3. CASE sessions[r] = None
      BY <1>2, <2>1, <3>1, <3>3 DEF ClientEnd
    <3> QED
      BY <3>2, <3>3
  <2>2. CASE DisconnectScan(c)
    <3>1. opc' = opc /\ Reply(SessionsOf(DevOf[c]), "OFFLINE")
      BY <2>2 DEF DisconnectScan, oshVars
    <3>2. \A r \in SessionsOf(DevOf[c]) : opc[r] \notin {"idle", "found", "locked"}
      BY <1>1, NoneAssumption, DevOfAssumption DEF SessionsOf, Unstarted
    <3>3. SessionsOf(DevOf[c]) \in SUBSET Reqs
      BY DEF SessionsOf
    <3> QED
      BY <1>1, <3>1, <3>2, <3>3, Answering
  <2>3. CASE UNCHANGED <<opc, answer>>
    BY <1>2, <2>3
  <2> QED
    BY <1>3, <2>1, <2>2, <2>3 DEF ClientStep, PairStep, Refuse, ClientConnect, PairAuthFailed,
       PairExists, PairCount, PairWithinLimit, PairLimitExceeded, PairLookup, PairUpsertFails, PairUpsert,
       PairRegister, ClientEndRemove, WriterDies, ClientLeave, DisconnectRemove,
       DisconnectPurge, oshVars
<1>4. ASSUME NEW r \in Reqs, OshStep(r) PROVE [Service!ServiceNext]_Service!serviceVars
  <2> USE DEF TypeOK, OshGoto
  <2>1. ASSUME NEW kind \in {"NOT_FOUND", "NOT_APPROVED", "OFFLINE"},
               opc[r] \in {"idle", "found"}, Reply({r}, kind), OshGoto(r, "loop")
        PROVE  [Service!ServiceNext]_Service!serviceVars
    <3>1. Reads(r)
      BY <1>1, <2>1 DEF Reads, Gone, Unstarted
    <3>2. answer' = [answer EXCEPT ![r] = kind]
      BY <1>1, <2>1, <3>1 DEF Reply
    <3>3. phases' = [phases EXCEPT ![r] = "answered"]
      <4>1. opc'[r] = "loop" /\ answer'[r] # "none"
        BY <1>1, <2>1, <3>2
      <4>2. PhaseOf(opc'[r], answer'[r]) = "answered"
        BY <4>1, PhaseValue
      <4> QED
        BY <1>1, <2>1, <3>2, <4>2, PhaseChange
    <3>4. phases[r] \in {"idle", "submitted"}
      BY <2>1, PhaseValue DEF phases, Phase
    <3>5. Service!Refuse(r, kind)
      BY <3>2, <3>3, <3>4 DEF Service!Refuse, phases
    <3> QED
      BY <3>5 DEF Service!ServiceNext, Service!Refusals
  <2>2. CASE ExecRefused(r)
    BY <2>1, <2>2 DEF ExecRefused
  <2>3. ASSUME NEW d \in Devices, ExecFind(r, d)
        PROVE  [Service!ServiceNext]_Service!serviceVars
    <3>1. answer' = answer /\ opc' = [opc EXCEPT ![r] = "found"]
      BY <2>3 DEF ExecFind
    <3>2. phases' = [phases EXCEPT ![r] = "submitted"]
      BY <1>1, <3>1, PhaseValue, PhaseChange
    <3>3. phases[r] = "idle"
      BY <2>3, PhaseValue DEF ExecFind, phases, Phase
    <3>4. Service!Submit(r)
      BY <3>1, <3>2, <3>3 DEF Service!Submit, phases
    <3> QED
      BY <3>4 DEF Service!ServiceNext
  <2>4. CASE ExecClient(r)
    <3>1. CASE UNCHANGED answer /\ OshGoto(r, "locked") /\ opc[r] = "found"
      <4>1. phases' = [phases EXCEPT ![r] = "submitted"]
        BY <1>1, <3>1, PhaseValue, PhaseChange
      <4>2. phases[r] = "submitted"
        BY <3>1, PhaseValue DEF phases, Phase
      <4> QED
        BY <3>1, <4>1, <4>2 DEF Service!serviceVars, phases
    <3> QED
      BY <2>1, <2>4, <3>1 DEF ExecClient
  <2>5. CASE ExecSpawn(r)
    <3>1. /\ opc[r] = "locked" /\ answer[r] = "none"
          /\ answer' = answer /\ opc' = [opc EXCEPT ![r] = "loop"]
      BY <1>1, <2>5 DEF ExecSpawn, Unstarted
    <3>2. phases' = [phases EXCEPT ![r] = "running"]
      BY <1>1, <3>1, PhaseValue, PhaseChange
    <3>3. phases[r] = "submitted"
      BY <3>1, PhaseValue DEF phases, Phase
    <3>4. Service!Start(r)
      BY <3>1, <3>2, <3>3 DEF Service!Start, phases
    <3> QED
      BY <3>4 DEF Service!ServiceNext
  <2>6. CASE InputUnknown(r)
    <3>1. answer' = answer
      BY <1>1, <2>6 DEF InputUnknown, Reply, Reads, NeverDropped
    <3> QED
      BY <1>2, <2>6, <3>1 DEF InputUnknown, oshVars
  <2>7. CASE OshClose(r)
    <3>1. /\ opc[r] = "loop" /\ answer' = answer
          /\ \E l \in {"kill", "closed"} : opc' = [opc EXCEPT ![r] = l]
      BY <2>7 DEF OshClose
    <3>2. phases' = [phases EXCEPT ![r] = "gone"]
      BY <1>1, <3>1, PhaseValue, PhaseChange
    <3>3. phases[r] \in {"running", "answered"}
      BY <3>1, PhaseValue DEF phases, Phase
    <3>4. Service!Leave(r)
      BY <3>1, <3>2, <3>3 DEF Service!Leave, phases
    <3> QED
      BY <3>4 DEF Service!ServiceNext
  <2>8. CASE CleanupKill(r) \/ CleanupDrop(r)
    <3>1. /\ opc[r] \in {"kill", "drop"} /\ answer' = answer
          /\ \E l \in {"drop", "closed"} : opc' = [opc EXCEPT ![r] = l]
      BY <2>8 DEF CleanupKill, CleanupDrop
    <3>2. phases' = [phases EXCEPT ![r] = "gone"]
      BY <1>1, <3>1, PhaseValue, PhaseChange
    <3>3. phases[r] = "gone"
      BY <3>1, PhaseValue DEF phases, Phase
    <3> QED
      BY <3>1, <3>2, <3>3 DEF Service!serviceVars, phases
  <2> QED
    BY <1>4, <2>2, <2>3, <2>4, <2>5, <2>6, <2>7, <2>8 DEF OshStep
<1>5. ASSUME NEW a \in Admins, AdminStep(a) PROVE UNCHANGED <<opc, answer>>
  BY <1>5 DEF AdminStep, ReloadSwap, ReloadLock, ReloadOne, oshVars
<1>6. CASE UNCHANGED vars
  BY <1>2, <1>6 DEF vars, oshVars
<1> QED
  BY <1>2, <1>3, <1>4, <1>5, <1>6 DEF Next

\* The relay implements the service (relay.rs 309-373, 509-615).
THEOREM RelayImplementsService == Spec => ImplementsService
<1>1. Init => Service!ServiceInit
  BY PhaseValue DEF Init, Service!ServiceInit, Phase
<1>2. IInv /\ [Next]_vars => [Service!ServiceNext]_Service!serviceVars
  BY ServiceStep
<1> QED
  BY <1>1, <1>2, Inductive, PTL DEF Spec, ImplementsService, Service!ServiceSpec
=============================================================================
