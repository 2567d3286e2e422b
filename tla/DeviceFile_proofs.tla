-------------------------- MODULE DeviceFile_proofs --------------------------
(***************************************************************************)
(* What TLAPS proves of DeviceFile: for any devices, osh-admin processes   *)
(* and reloads, no copy of the configuration ever approves a device that   *)
(* nobody approved; and as long as only pairings write, the file follows   *)
(* memory and no registration is lost.                                     *)
(***************************************************************************)
EXTENDS DeviceFile, TLAPS

\* Every variable keeps its type in every step.
LEMMA TypeStep == TypeOK /\ [Next]_vars => TypeOK'
<1>1. SUFFICES ASSUME TypeOK, [Next]_vars PROVE TypeOK'
  OBVIOUS
<1> USE PairingAssumption DEF TypeOK, Config, Status, Blank, relayVars, adminVars, historyVars
<1>2. CASE UNCHANGED vars
  BY <1>1, <1>2 DEF vars
<1>3. ASSUME NEW d \in Pairing, PairStep(d) PROVE TypeOK'
  <2>1. CASE PairLookup(d)
    BY <1>1, <2>1 DEF PairLookup
  <2>2. CASE PairUpsert(d)
    BY <1>1, <2>2 DEF PairUpsert, Upsert, Recorded
  <2>3. CASE PairRefused(d)
    BY <1>1, <2>3 DEF PairRefused
  <2>4. CASE PairSaved(d)
    BY <1>1, <2>4 DEF PairSaved, HandlerDone, Written, Saved
  <2>5. CASE PairSaveFails(d)
    BY <1>1, <2>5 DEF PairSaveFails, Upsert, Recorded, HandlerDone
  <2> QED
    BY <1>3, <2>1, <2>2, <2>3, <2>4, <2>5 DEF PairStep
<1>4. ASSUME NEW l \in Reloads, ReloadLoad(l) \/ ReloadSwap(l) PROVE TypeOK'
  <2>1. CASE ReloadLoad(l)
    BY <1>1, <2>1 DEF ReloadLoad, Parses
  <2>2. CASE ReloadSwap(l)
    BY <1>1, <2>2 DEF ReloadSwap, Replaced
  <2> QED
    BY <1>4, <2>1, <2>2
<1>5. ASSUME NEW a \in Admins, EditStep(a) PROVE TypeOK'
  <2>1. CASE EditLoad(a)
    BY <1>1, <2>1 DEF EditLoad, Parses
  <2>2. CASE EditNothing(a)
    BY <1>1, <2>2 DEF EditNothing
  <2>3. CASE EditSaved(a)
    BY <1>1, <2>3 DEF EditSaved, Written
  <2>4. CASE EditCrash(a)
    BY <1>1, <2>4 DEF EditCrash
  <2>5. ASSUME NEW d \in Devices, NEW status \in {"approved", "rejected", "absent"},
               EditSave(a, d, status)
        PROVE  TypeOK'
    BY <1>1, <2>5 DEF EditSave
  <2>6. CASE EditAlias(a)
    BY <1>1, <2>6 DEF EditAlias
  <2> QED
    BY <1>5, <2>1, <2>2, <2>3, <2>4, <2>5, <2>6 DEF EditStep
<1>6. CASE RelayCrash
  BY <1>1, <1>6 DEF RelayCrash
<1>7. CASE RelayStart
  BY <1>1, <1>7 DEF RelayStart, Parses
<1> QED
  BY <1>1, <1>2, <1>3, <1>4, <1>5, <1>6, <1>7 DEF Next

\* The variables have the types TypeOK gives them, always.
THEOREM TypeCorrect == Spec => []TypeOK
<1>1. Init => TypeOK
  BY DEF Init, TypeOK, Config, Status, Blank
<1> QED
  BY <1>1, TypeStep, PTL DEF Spec

-----------------------------------------------------------------------------
(* Approvals.                                                              *)

Granted(config) == \A d \in Devices : config[d] = "approved" => d \in granted

\* Every copy of the configuration is granted, wherever it is held.
CopiesGranted ==
    /\ Granted(mem)
    /\ Parses => Granted(file)
    /\ Granted(seen)
    /\ \A a \in Admins : Granted(edited[a])
    /\ \A l \in Reloads : Granted(loaded[l])

\* No step puts an approval into a copy that was not granted.
LEMMA GrantStep == TypeOK /\ CopiesGranted /\ [Next]_vars => CopiesGranted'
<1>1. SUFFICES ASSUME TypeOK, CopiesGranted, [Next]_vars PROVE CopiesGranted'
  OBVIOUS
<1> USE PairingAssumption, FileAssumption DEF TypeOK, Config, Status, Blank, relayVars,
      adminVars, historyVars, CopiesGranted, Granted, Parses
<1>2. CASE UNCHANGED vars
  BY <1>1, <1>2 DEF vars
<1>3. ASSUME NEW d \in Pairing, PairStep(d) PROVE CopiesGranted'
  <2>1. CASE PairLookup(d)
    BY <1>1, <2>1 DEF PairLookup
  <2>2. CASE PairUpsert(d)
    BY <1>1, <2>2 DEF PairUpsert, Upsert, Recorded
  <2>3. CASE PairRefused(d)
    BY <1>1, <2>3 DEF PairRefused
  <2>4. CASE PairSaved(d)
    BY <1>1, <2>4 DEF PairSaved, HandlerDone, Written, Saved
  <2>5. CASE PairSaveFails(d)
    BY <1>1, <2>5 DEF PairSaveFails, Upsert, Recorded, HandlerDone
  <2> QED
    BY <1>3, <2>1, <2>2, <2>3, <2>4, <2>5 DEF PairStep
<1>4. ASSUME NEW l \in Reloads, ReloadLoad(l) \/ ReloadSwap(l) PROVE CopiesGranted'
  <2>1. CASE ReloadLoad(l)
    BY <1>1, <2>1 DEF ReloadLoad
  <2>2. CASE ReloadSwap(l)
    BY <1>1, <2>2 DEF ReloadSwap, Replaced
  <2> QED
    BY <1>4, <2>1, <2>2
<1>5. ASSUME NEW a \in Admins, EditStep(a) PROVE CopiesGranted'
  <2>1. CASE EditLoad(a)
    BY <1>1, <2>1 DEF EditLoad
  <2>2. CASE EditNothing(a)
    BY <1>1, <2>2 DEF EditNothing
  <2>3. CASE EditSaved(a)
    BY <1>1, <2>3 DEF EditSaved, Written
  <2>4. CASE EditCrash(a)
    BY <1>1, <2>4 DEF EditCrash
  <2>5. ASSUME NEW d \in Devices, NEW status \in {"approved", "rejected", "absent"},
               EditSave(a, d, status)
        PROVE  CopiesGranted'
    BY <1>1, <2>5 DEF EditSave
  <2>6. CASE EditAlias(a)
    BY <1>1, <2>6 DEF EditAlias
  <2> QED
    BY <1>5, <2>1, <2>2, <2>3, <2>4, <2>5, <2>6 DEF EditStep
<1>6. CASE RelayCrash
  BY <1>1, <1>6 DEF RelayCrash
<1>7. CASE RelayStart
  BY <1>1, <1>7 DEF RelayStart
<1> QED
  BY <1>1, <1>2, <1>3, <1>4, <1>5, <1>6, <1>7 DEF Next

\* Only what was approved at the start or by osh-admin is ever approved, in
\* memory and in the file (relay.rs 255-264, device_store.rs 206-232).
THEOREM ApprovalsGranted == Spec => []OnlyGranted
<1>1. Init => CopiesGranted
  BY DEF Init, CopiesGranted, Granted, Blank, Config, Status, Parses
<1>2. CopiesGranted => OnlyGranted
  BY DEF CopiesGranted, Granted, OnlyGranted
<1> QED
  BY <1>1, <1>2, GrantStep, TypeCorrect, PTL DEF Spec

-----------------------------------------------------------------------------
(* The relay alone with its file.                                          *)

\* The handler that saves is the one that holds the lock.  While the relay is
\* alone, nobody else has written since it truncated the file, and what was
\* confirmed is in memory and in every file that parses.
SaveInvariant ==
    /\ \A d \in Devices : hpc[d] = "save" <=> saving = d
    /\ saving # None => up
    /\ alone => /\ \A a \in Admins : epc[a] # "save"
                /\ saving # None => file = Empty
                /\ \A d \in Devices : hpc[d] = "save" => mem[d] # "absent"
                /\ Parses => \A d \in told : file[d] # "absent"
    /\ FileIsMemory
    /\ RegistrationKept

\* Every step keeps the save invariant.
LEMMA SaveStep == TypeOK /\ SaveInvariant /\ [Next]_vars => SaveInvariant'
<1>1. SUFFICES ASSUME TypeOK, SaveInvariant, [Next]_vars PROVE SaveInvariant'
  OBVIOUS
<1> USE PairingAssumption, FileAssumption DEF TypeOK, Config, Status, SaveInvariant,
      FileIsMemory, RegistrationKept, StoreFree, Parses, relayVars, adminVars, historyVars
<1>2. CASE UNCHANGED vars
  BY <1>1, <1>2 DEF vars
<1>3. ASSUME NEW d \in Pairing, PairStep(d) PROVE SaveInvariant'
  <2>1. CASE PairLookup(d)
    BY <1>1, <2>1 DEF PairLookup
  <2>2. CASE PairUpsert(d)
    BY <1>1, <2>2 DEF PairUpsert, Upsert, Recorded
  <2>3. CASE PairRefused(d)
    BY <1>1, <2>3 DEF PairRefused
  <2>4. CASE PairSaved(d)
    BY <1>1, <2>4 DEF PairSaved, HandlerDone, Written, Saved
  <2>5. CASE PairSaveFails(d)
    BY <1>1, <2>5 DEF PairSaveFails, Upsert, Recorded, HandlerDone
  <2> QED
    BY <1>3, <2>1, <2>2, <2>3, <2>4, <2>5 DEF PairStep
<1>4. ASSUME NEW l \in Reloads, ReloadLoad(l) \/ ReloadSwap(l) PROVE SaveInvariant'
  <2>1. CASE ReloadLoad(l)
    BY <1>1, <2>1 DEF ReloadLoad
  <2>2. CASE ReloadSwap(l)
    BY <1>1, <2>2 DEF ReloadSwap
  <2> QED
    BY <1>4, <2>1, <2>2
<1>5. ASSUME NEW a \in Admins, EditStep(a) PROVE SaveInvariant'
  <2>1. CASE EditLoad(a)
    BY <1>1, <2>1 DEF EditLoad
  <2>2. CASE EditNothing(a)
    BY <1>1, <2>2 DEF EditNothing
  <2>3. CASE EditSaved(a)
    BY <1>1, <2>3 DEF EditSaved
  <2>4. CASE EditCrash(a)
    BY <1>1, <2>4 DEF EditCrash
  <2>5. ASSUME NEW d \in Devices, NEW status \in {"approved", "rejected", "absent"},
               EditSave(a, d, status)
        PROVE  SaveInvariant'
    BY <1>1, <2>5 DEF EditSave
  <2>6. CASE EditAlias(a)
    BY <1>1, <2>6 DEF EditAlias
  <2> QED
    BY <1>5, <2>1, <2>2, <2>3, <2>4, <2>5, <2>6 DEF EditStep
<1>6. CASE RelayCrash
  BY <1>1, <1>6 DEF RelayCrash
<1>7. CASE RelayStart
  BY <1>1, <1>7 DEF RelayStart
<1> QED
  BY <1>1, <1>2, <1>3, <1>4, <1>5, <1>6, <1>7 DEF Next

\* The save invariant holds in every reachable state.
LEMMA SaveInvariantHolds == Spec => []SaveInvariant
<1>1. Init => SaveInvariant
  BY FileAssumption DEF Init, SaveInvariant, FileIsMemory, RegistrationKept
<1> QED
  BY <1>1, SaveStep, TypeCorrect, PTL DEF Spec

\* As long as only pairings change it, the file holds what memory holds whenever
\* no save is under way, also after crashes (device_store.rs 206-232, 251-257).
THEOREM FileFollowsMemory == Spec => []FileIsMemory
<1>1. SaveInvariant => FileIsMemory
  BY DEF SaveInvariant
<1> QED
  BY <1>1, SaveInvariantHolds, PTL

\* As long as only pairings change the store, a device that was told it is
\* registered stays registered (relay.rs 266-278).
THEOREM RegistrationsKept == Spec => []RegistrationKept
<1>1. SaveInvariant => RegistrationKept
  BY DEF SaveInvariant
<1> QED
  BY <1>1, SaveInvariantHolds, PTL
==============================================================================
