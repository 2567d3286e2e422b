-------------------------------- MODULE Names --------------------------------
(***************************************************************************)
(* What a device is called.  A user of osh and an administrator name a     *)
(* device by its id, by its alias or by the beginning of its id, and two   *)
(* programs look the name up, each in its own copy of devices.json and in  *)
(* its own order: osh-admin in the file it has just loaded                 *)
(* (osh-cli/src/protocol.rs), the relay for osh in its memory              *)
(* (osh-relay/src/device_store.rs).  Neither loads a file in which two     *)
(* devices have one alias.                                                 *)
(*                                                                         *)
(* An osh-admin command, a reload and the relay's save are single steps:   *)
(* what happens when they overlap is the subject of DeviceFile.  The       *)
(* pairing handler looks the device up in one step and writes it in        *)
(* another.                                                                *)
(***************************************************************************)
CONSTANTS
    Ids,     \* device ids
    Pairing, \* the devices whose daemons connect
    Names,   \* whatever may be given as an id, an alias or a beginning of an id
    Begins,  \* <<d, n>>: the id d begins with n
    None

ASSUME NamesAssumption ==
    /\ Ids \subseteq Names
    /\ Pairing \subseteq Ids
    /\ None \notin Names
    /\ Begins \subseteq Ids \X Names
    /\ \A d \in Ids : <<d, d>> \in Begins

VARIABLES
    file,   \* devices.json
    mem,    \* DeviceStore.config of the relay
    seen,   \* the entry that the pairing handler of each device has looked up
    clean,  \* history: no alias was given by an ambiguous name, no entry pushed back
    asked   \* history: the last approve or reject that nobody has saved over

vars == <<file, mem, seen, clean, asked>>

Status == {"absent", "pending", "approved", "rejected"}
Entry  == [status : Status, alias : Names \cup {None}]
Config == [Ids -> Entry]
Absent == [status |-> "absent", alias |-> None]

NamesTypeOK ==
    /\ file  \in Config
    /\ mem   \in Config
    /\ seen  \in [Ids -> Entry \cup {None}]
    /\ clean \in BOOLEAN
    /\ asked \in {None} \cup (Names \X {"approved", "rejected"})

-----------------------------------------------------------------------------
(* Looking a name up.                                                      *)

Listed(c)      == {d \in Ids : c[d].status # "absent"}
Holders(c, n)  == {d \in Listed(c) : c[d].alias = n}
Matching(c, n) == {d \in Listed(c) : <<d, n>> \in Begins}

\* The devices that a name may mean to one or the other program.
Meant(c, n) == Holders(c, n) \cup Matching(c, n)

Ambiguous(c, n) == \E d, e \in Meant(c, n) : d # e

\* A beginning must be that of one device only.
Only(S) == IF \E d \in S : S = {d} THEN CHOOSE d \in S : S = {d} ELSE None

\* DeviceStore::find_device: the id before the alias.
RelayFinds(c, n) ==
    IF n \in Listed(c) THEN n
    ELSE IF Holders(c, n) # {} THEN CHOOSE d \in Holders(c, n) : TRUE
    ELSE Only(Matching(c, n))

\* mutant: a beginning need not be that of one device only.
AdminFindsFirst(c, n) ==
    IF Holders(c, n) # {} THEN CHOOSE d \in Holders(c, n) : TRUE
    ELSE IF n \in Listed(c) THEN n
    ELSE IF Matching(c, n) # {} THEN CHOOSE d \in Matching(c, n) : TRUE
    ELSE None

\* DevicesConfig::find_device_mut and remove_device: the alias before the id.
AdminFinds(c, n) ==
    IF Holders(c, n) # {} THEN CHOOSE d \in Holders(c, n) : TRUE
    ELSE IF n \in Listed(c) THEN n
    ELSE Only(Matching(c, n))

\* validate_config and load_config: no alias is given twice.
Valid(c) ==
    \A d, e \in Listed(c) : c[d].alias # None /\ c[d].alias = c[e].alias => d = e

-----------------------------------------------------------------------------
NamesInit ==
    /\ file \in {c \in Config : Valid(c) /\ \A d \in Ids : c[d] = Absent \/ c[d].status # "absent"}
    /\ mem = file
    /\ seen = [d \in Ids |-> None]
    /\ clean = TRUE
    /\ asked = None

\* osh-admin approve and osh-admin reject.  A device that has the status
\* already is not saved, but the administrator has asked for it.
SetStatus(n, s) ==
    /\ Valid(file)
    /\ AdminFinds(file, n) # None
    /\ file' = [file EXCEPT ![AdminFinds(file, n)].status = s]
    /\ asked' = <<n, s>>
    /\ UNCHANGED <<mem, seen, clean>>

\* mutant: the holder of the alias is not looked for.
AliasFreeAlways(c, n, a) == TRUE

\* The alias may be taken only by a device whose id begins with the name given.
AliasFree(c, n, a) == \A e \in Holders(c, a) : <<e, n>> \in Begins

\* osh-admin alias.
Alias(n, a) ==
    /\ Valid(file)
    /\ AliasFree(file, n, a)
    /\ AdminFinds(file, n) # None
    /\ file' = [file EXCEPT ![AdminFinds(file, n)].alias = a]
    /\ clean' = (clean /\ ~Ambiguous(file, n))
    /\ asked' = None
    /\ UNCHANGED <<mem, seen>>

\* osh-admin remove.
Remove(n) ==
    /\ Valid(file)
    /\ AdminFinds(file, n) # None
    /\ file' = [file EXCEPT ![AdminFinds(file, n)] = Absent]
    /\ asked' = None
    /\ UNCHANGED <<mem, seen, clean>>

\* The relay's pairing handler: get_device_by_id ...
PairLookup(d) ==
    /\ seen[d] = None
    /\ seen' = [seen EXCEPT ![d] = mem[d]]
    /\ UNCHANGED <<file, mem, clean, asked>>

New == [status |-> "pending", alias |-> None]

Recorded(e) == IF e = Absent THEN New ELSE e

\* ... and upsert_device, which keeps the status and alias of a device that is
\* listed, pushes what was looked up otherwise, and saves the relay's memory.
PairUpsert(d) ==
    /\ seen[d] # None
    /\ mem' = IF mem[d] = Absent THEN [mem EXCEPT ![d] = Recorded(seen[d])] ELSE mem
    /\ file' = mem'
    /\ seen' = [seen EXCEPT ![d] = None]
    /\ clean' = (clean /\ (mem[d] = Absent => seen[d] = Absent))
    /\ asked' = None

\* osh-admin reload, or a restart of the relay; a file that is not valid is
\* refused, by the relay when it starts as well.
Reload ==
    /\ Valid(file)
    /\ mem' = file
    /\ UNCHANGED <<file, seen, clean, asked>>

AdminStep(n) ==
    \/ \E s \in {"approved", "rejected"} : SetStatus(n, s)
    \/ \E a \in Names : Alias(n, a)
    \/ Remove(n)

PairStep(d) == PairLookup(d) \/ PairUpsert(d)

NamesNext ==
    \/ \E n \in Names : AdminStep(n)
    \/ \E d \in Pairing : PairStep(d)
    \/ Reload

NamesSpec == NamesInit /\ [][NamesNext]_vars

-----------------------------------------------------------------------------
(* Properties.                                                             *)

\* What osh-admin and the relay save can be loaded again by both, as long as
\* osh-admin alias is given names that mean one device and no pairing pushes
\* back a device that was removed meanwhile (osh-admin.rs 152-176,
\* device_store.rs 205-231).
Loadable == clean => Valid(file) /\ Valid(mem)

\* One device's id is the other's alias.
Crossed(c, n) == \E d, e \in Listed(c) : d # e /\ d = n /\ c[e].alias = n

\* An approval or rejection that nobody has saved over is in force after a
\* reload for whoever osh reaches by the name that osh-admin was given, unless
\* the name is one device's id and another's alias (osh-admin.rs 101-150,
\* device_store.rs 152-182).
EditApplies ==
    [][Reload /\ asked # None /\ ~Crossed(file, asked[1]) =>
          LET d == RelayFinds(mem', asked[1]) IN d # None /\ mem'[d].status = asked[2]]_vars
==============================================================================
