----------------------------- MODULE DeviceFile -----------------------------
(***************************************************************************)
(* devices.json and its copies: the relay's DeviceStore in memory, the     *)
(* pairing handlers that save it, the reloads that replace it, and the     *)
(* osh-admin processes that load, edit and save the file on their own      *)
(* (osh-relay/src/device_store.rs, osh-cli/src/bin/osh-admin.rs).          *)
(*                                                                         *)
(* Nothing locks the file.  fs::write truncates it and then writes it, so  *)
(* a save is two steps, between which anybody may read, truncate or write  *)
(* it; the relay holds the write lock of its store across its own save.    *)
(* A configuration is the status of each device; a file that does not      *)
(* parse is Empty (truncated) or Garbled (a shorter configuration written  *)
(* over a longer one that another writer left).                            *)
(***************************************************************************)
EXTENDS Naturals, FiniteSets

CONSTANTS
    Devices,     \* device ids; each device has at most one pairing handler
    Pairing,     \* the devices whose daemons connect
    Admins,      \* osh-admin processes that edit, one after another
    Reloads,     \* ADMIN_RELOAD handlers
    MaxDevices,  \* max_devices
    None, Empty, Garbled,
    MayCrash,    \* whether the relay and osh-admin may stop at any point
    SaveMayFail  \* whether the relay's write may fail

ASSUME PairingAssumption == Pairing \subseteq Devices
ASSUME MaxAssumption == MaxDevices \in Nat
ASSUME FileAssumption ==
    /\ None \notin Devices
    /\ {Empty, Garbled} \cap [Devices -> {"absent", "pending", "approved", "rejected"}] = {}

VARIABLES
    up,       \* whether the relay runs
    mem,      \* DeviceStore.config of the running relay
    saving,   \* the device whose handler holds the store's write lock
    hpc,      \* pairing handlers
    seen,     \* what a handler read before its upsert
    file,     \* devices.json
    epc,      \* osh-admin processes
    edited,   \* the configuration an osh-admin process loaded, then edited
    rpc,      \* reload handlers
    loaded,   \* the configuration a reload has loaded
    told,     \* history: devices whose registration was confirmed to them
    granted,  \* history: devices that were approved at the start or by osh-admin
    alone     \* history: only the relay's own pairings changed memory and file

relayVars   == <<up, mem, saving, hpc, seen, rpc, loaded>>
adminVars   == <<epc, edited>>
historyVars == <<told, granted, alone>>
vars == <<relayVars, file, adminVars, historyVars>>

Status == {"absent", "pending", "approved", "rejected"}
Config == [Devices -> Status]
Blank  == [d \in Devices |-> "absent"]

TypeOK ==
    /\ up      \in BOOLEAN
    /\ mem     \in Config
    /\ saving  \in Devices \cup {None}
    /\ hpc     \in [Devices -> {"idle", "lookup", "save"}]
    /\ seen    \in Config
    /\ file    \in Config \cup {Empty, Garbled}
    /\ epc     \in [Admins -> {"idle", "loaded", "save", "done"}]
    /\ edited  \in [Admins -> Config]
    /\ rpc     \in [Reloads -> {"idle", "swap"}]
    /\ loaded  \in [Reloads -> Config]
    /\ told    \in SUBSET Devices
    /\ granted \in SUBSET Devices
    /\ alone   \in BOOLEAN

Init ==
    /\ up = TRUE
    /\ mem \in Config
    /\ saving = None
    /\ hpc = [d \in Devices |-> "idle"]
    /\ seen = Blank
    /\ file = mem
    /\ epc = [a \in Admins |-> "idle"]
    /\ edited = [a \in Admins |-> Blank]
    /\ rpc = [l \in Reloads |-> "idle"]
    /\ loaded = [l \in Reloads |-> Blank]
    /\ told = {}
    /\ granted = {d \in Devices : mem[d] = "approved"}
    /\ alone = TRUE

\* mutant: whatever the file holds is taken for a configuration.
ParsesAnything == TRUE

Parses == file \notin {Empty, Garbled}

\* A writer that truncated the file finds it Empty unless another one wrote
\* since; then the lengths decide whether that one's tail stays behind.
Written(config) == IF file = Empty THEN {config} ELSE {config, Garbled}

-----------------------------------------------------------------------------
(* Pairing handlers of the relay.                                          *)

\* mutant: a handler does not wait for the save of another.
StoreUnlocked == up

StoreFree == up /\ saving = None

Count(s) == Cardinality({d \in Devices : s[d] # "absent"})

PairLookup(d) ==
    /\ hpc[d] = "idle"
    /\ StoreFree
    /\ hpc' = [hpc EXCEPT ![d] = "lookup"]
    /\ seen' = [seen EXCEPT ![d] = mem[d]]
    /\ UNCHANGED <<up, mem, saving, rpc, loaded, file, adminVars, historyVars>>

\* mutant: an unknown device is approved.
RecordedApproved(s) == IF s = "absent" THEN "approved" ELSE s

Recorded(s) == IF s = "absent" THEN "pending" ELSE s

\* upsert_device takes the lock and changes memory ...
Upsert(d) ==
    /\ hpc[d] = "lookup"
    /\ StoreFree
    /\ mem[d] # "absent" \/ Count(mem) < MaxDevices
    /\ mem' = IF mem[d] = "absent" THEN [mem EXCEPT ![d] = Recorded(seen[d])] ELSE mem

\* ... and the first half of the save follows.
PairUpsert(d) ==
    /\ Upsert(d)
    /\ saving' = d
    /\ file' = Empty
    /\ hpc' = [hpc EXCEPT ![d] = "save"]
    /\ UNCHANGED <<up, seen, rpc, loaded, adminVars, told, granted, alone>>

PairRefused(d) ==
    /\ hpc[d] = "lookup"
    /\ StoreFree
    /\ mem[d] = "absent" /\ Count(mem) >= MaxDevices
    /\ hpc' = [hpc EXCEPT ![d] = "idle"]
    /\ seen' = [seen EXCEPT ![d] = "absent"]
    /\ UNCHANGED <<up, mem, saving, rpc, loaded, file, adminVars, historyVars>>

HandlerDone(d) ==
    /\ saving' = None
    /\ hpc' = [hpc EXCEPT ![d] = "idle"]
    /\ seen' = [seen EXCEPT ![d] = "absent"]

\* mutant: the configuration is saved as it was before the device was pushed.
SavedBefore(d) == [mem EXCEPT ![d] = seen[d]]

Saved(d) == mem

\* The second half of the save; then the reply is sent.
PairSaved(d) ==
    /\ up /\ hpc[d] = "save"
    /\ file' \in Written(Saved(d))
    /\ told' = told \cup {d}
    /\ HandlerDone(d)
    /\ UNCHANGED <<up, mem, rpc, loaded, adminVars, granted, alone>>

\* The file cannot be opened, or not be written once it is truncated: memory is not
\* rolled back, and no reply is sent.
PairSaveFails(d) ==
    /\ SaveMayFail
    /\ \/ Upsert(d)
       \/ up /\ hpc[d] = "save" /\ UNCHANGED mem
    /\ HandlerDone(d)
    /\ alone' = FALSE
    /\ UNCHANGED <<up, rpc, loaded, file, adminVars, told, granted>>

-----------------------------------------------------------------------------
(* Reloads.                                                                *)

\* load_config takes no lock; a file that does not parse ends the reload with
\* ADMIN_RELOAD_ERROR.
ReloadLoad(l) ==
    /\ up /\ rpc[l] = "idle"
    /\ Parses
    /\ rpc' = [rpc EXCEPT ![l] = "swap"]
    /\ loaded' = [loaded EXCEPT ![l] = file]
    /\ UNCHANGED <<up, mem, saving, hpc, seen, file, adminVars, told, granted, alone>>

Replaced(l) == loaded[l]

ReloadSwap(l) ==
    /\ rpc[l] = "swap"
    /\ StoreFree
    /\ mem' = Replaced(l)
    /\ rpc' = [rpc EXCEPT ![l] = "idle"]
    /\ loaded' = [loaded EXCEPT ![l] = Blank]
    /\ alone' = FALSE
    /\ UNCHANGED <<up, saving, hpc, seen, file, adminVars, told, granted>>

-----------------------------------------------------------------------------
(* osh-admin approve, reject, remove and alias: a process each.            *)

EditLoad(a) ==
    /\ epc[a] = "idle"
    /\ Parses
    /\ epc' = [epc EXCEPT ![a] = "loaded"]
    /\ edited' = [edited EXCEPT ![a] = file]
    /\ UNCHANGED <<relayVars, file, historyVars>>

\* A device already in the wanted state is left alone and nothing is saved.
EditNothing(a) ==
    /\ epc[a] = "loaded"
    /\ epc' = [epc EXCEPT ![a] = "done"]
    /\ edited' = [edited EXCEPT ![a] = Blank]
    /\ UNCHANGED <<relayVars, file, historyVars>>

\* The edit and the first half of save_config.
EditSave(a, d, status) ==
    /\ epc[a] = "loaded"
    /\ edited[a][d] \notin {"absent", status}
    /\ edited' = [edited EXCEPT ![a][d] = status]
    /\ epc' = [epc EXCEPT ![a] = "save"]
    /\ file' = Empty
    /\ granted' = IF status = "approved" THEN granted \cup {d} ELSE granted
    /\ told' = IF status = "absent" THEN told \ {d} ELSE told
    /\ alone' = FALSE
    /\ UNCHANGED relayVars

\* osh-admin alias: saves what it loaded, with an alias but every status as it was.
EditAlias(a) ==
    /\ epc[a] = "loaded"
    /\ edited[a] # Blank
    /\ epc' = [epc EXCEPT ![a] = "save"]
    /\ file' = Empty
    /\ alone' = FALSE
    /\ UNCHANGED <<relayVars, edited, told, granted>>

EditSaved(a) ==
    /\ epc[a] = "save"
    /\ file' \in Written(edited[a])
    /\ epc' = [epc EXCEPT ![a] = "done"]
    /\ edited' = [edited EXCEPT ![a] = Blank]
    /\ UNCHANGED <<relayVars, historyVars>>

-----------------------------------------------------------------------------
(* Crashes.                                                                *)

RelayCrash ==
    /\ MayCrash /\ up
    /\ up' = FALSE
    /\ mem' = Blank
    /\ saving' = None
    /\ hpc' = [d \in Devices |-> "idle"]
    /\ seen' = Blank
    /\ rpc' = [l \in Reloads |-> "idle"]
    /\ loaded' = [l \in Reloads |-> Blank]
    /\ UNCHANGED <<file, adminVars, told, granted, alone>>

\* The relay starts only from a file that parses.
RelayStart ==
    /\ ~up
    /\ Parses
    /\ up' = TRUE
    /\ mem' = file
    /\ UNCHANGED <<saving, hpc, seen, rpc, loaded, file, adminVars, historyVars>>

EditCrash(a) ==
    /\ MayCrash /\ epc[a] = "save"
    /\ epc' = [epc EXCEPT ![a] = "done"]
    /\ edited' = [edited EXCEPT ![a] = Blank]
    /\ UNCHANGED <<relayVars, file, told, granted, alone>>

PairStep(d) ==
    PairLookup(d) \/ PairUpsert(d) \/ PairRefused(d) \/ PairSaved(d) \/ PairSaveFails(d)

EditStep(a) ==
    \/ EditLoad(a) \/ EditNothing(a) \/ EditAlias(a) \/ EditSaved(a) \/ EditCrash(a)
    \/ \E d \in Devices, status \in {"approved", "rejected", "absent"} : EditSave(a, d, status)

Next ==
    \/ \E d \in Pairing : PairStep(d)
    \/ \E l \in Reloads : ReloadLoad(l) \/ ReloadSwap(l)
    \/ \E a \in Admins : EditStep(a)
    \/ RelayCrash \/ RelayStart

Spec == Init /\ [][Next]_vars

-----------------------------------------------------------------------------
(* Properties.                                                             *)

\* Through all copies, stale or overwritten, a device is approved only if it was
\* approved at the start or by osh-admin: pairing never approves
\* (relay.rs 255-264, device_store.rs 206-232).
OnlyGranted ==
    \A d \in Devices :
        /\ mem[d] = "approved" => d \in granted
        /\ Parses /\ file[d] = "approved" => d \in granted

\* As long as only the relay's own pairings change the file, it is what memory
\* is whenever no save is under way, after any crash as well: the saves of
\* pairings that overlap are not mixed or reordered (device_store.rs 206-232).
FileIsMemory == alone /\ up /\ saving = None => file = mem

\* ... and a device that was told it is registered is in the store from then on,
\* also when it was not the only one that registered and the relay crashed
\* (relay.rs 266-278).
RegistrationKept == alone /\ up => \A d \in told : mem[d] # "absent"
=============================================================================
