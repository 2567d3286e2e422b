----------------------------- MODULE Names_proofs -----------------------------
(***************************************************************************)
(* Theorems about Names, for any ids, names and beginnings.                *)
(***************************************************************************)
EXTENDS Names, TLAPS

\* A device that is looked up is listed (protocol.rs 50-106).
LEMMA AdminFindsListed ==
    ASSUME NEW c \in Config, NEW n \in Names, AdminFinds(c, n) # None
    PROVE  /\ AdminFinds(c, n) \in Listed(c)
           /\ AdminFinds(c, n) \in Meant(c, n)
<1>1. CASE Holders(c, n) # {}
  <2>1. (CHOOSE d \in Holders(c, n) : TRUE) \in Holders(c, n)  BY <1>1
  <2> QED  BY <1>1, <2>1 DEF AdminFinds, Holders, Meant
<1>2. CASE Holders(c, n) = {} /\ n \in Listed(c)
  <2>1. n \in Matching(c, n)  BY <1>2, NamesAssumption DEF Listed, Matching
  <2> QED  BY <1>2, <2>1 DEF AdminFinds, Meant
<1>3. CASE Holders(c, n) = {} /\ n \notin Listed(c)
  <2>1. AdminFinds(c, n) = Only(Matching(c, n))  BY <1>3 DEF AdminFinds
  <2>2. PICK d \in Matching(c, n) : Matching(c, n) = {d}  BY <2>1 DEF Only
  <2>3. Only(Matching(c, n)) = d  BY <2>2 DEF Only
  <2> QED  BY <2>1, <2>2, <2>3 DEF Matching, Meant
<1> QED  BY <1>1, <1>2, <1>3

\* The two lookups agree unless the name is one device's id and another's alias
\* (protocol.rs 50-106, device_store.rs 152-182).
LEMMA LookupsAgree ==
    ASSUME NEW c \in Config, NEW n \in Names, ~Crossed(c, n)
    PROVE  AdminFinds(c, n) = RelayFinds(c, n)
<1>1. CASE Holders(c, n) # {} /\ n \in Listed(c)
  <2>1. Holders(c, n) = {n}  BY <1>1 DEF Crossed, Holders
  <2> QED  BY <1>1, <2>1 DEF AdminFinds, RelayFinds
<1>2. CASE Holders(c, n) = {} \/ n \notin Listed(c)
  BY <1>2 DEF AdminFinds, RelayFinds
<1> QED  BY <1>1, <1>2

\* Every variable keeps its type.
THEOREM TypeCorrect == NamesSpec => []NamesTypeOK
<1>1. NamesInit => NamesTypeOK  BY DEF NamesInit, NamesTypeOK
<1>2. NamesTypeOK /\ [NamesNext]_vars => NamesTypeOK'
  <2> SUFFICES ASSUME NamesTypeOK, [NamesNext]_vars  PROVE NamesTypeOK'  OBVIOUS
  <2>1. ASSUME NEW n \in Names, NEW s \in {"approved", "rejected"}, SetStatus(n, s)
        PROVE  NamesTypeOK'
    <3>1. AdminFinds(file, n) \in Ids
      BY <2>1, AdminFindsListed DEF SetStatus, NamesTypeOK, Listed
    <3>2. file' \in Config
      BY <2>1, <3>1 DEF SetStatus, NamesTypeOK, Config, Entry, Status
    <3> QED  BY <2>1, <3>2 DEF SetStatus, NamesTypeOK
  <2>2. ASSUME NEW n \in Names, NEW a \in Names, Alias(n, a)
        PROVE  NamesTypeOK'
    <3>1. AdminFinds(file, n) \in Ids
      BY <2>2, AdminFindsListed DEF Alias, NamesTypeOK, Listed
    <3>2. file' \in Config
      BY <2>2, <3>1 DEF Alias, NamesTypeOK, Config, Entry
    <3>3. clean' \in BOOLEAN  BY <2>2 DEF Alias, Ambiguous, NamesTypeOK
    <3> QED  BY <2>2, <3>2, <3>3 DEF Alias, NamesTypeOK
  <2>3. ASSUME NEW n \in Names, Remove(n)  PROVE NamesTypeOK'
    <3>1. file' \in Config
      BY <2>3 DEF Remove, NamesTypeOK, Config, Entry, Status, Absent
    <3> QED  BY <2>3, <3>1 DEF Remove, NamesTypeOK
  <2>4. ASSUME NEW d \in Pairing, PairStep(d)  PROVE NamesTypeOK'
    <3> d \in Ids  BY NamesAssumption
    <3>1. CASE PairLookup(d)  BY <3>1 DEF PairLookup, NamesTypeOK, Config
    <3>2. CASE PairUpsert(d)
      <4>1. Recorded(seen[d]) \in Entry
        BY <3>2 DEF PairUpsert, NamesTypeOK, Recorded, New, Entry, Status
      <4>2. mem' \in Config  BY <3>2, <4>1 DEF PairUpsert, NamesTypeOK, Config
      <4>3. clean' \in BOOLEAN  BY <3>2 DEF PairUpsert, NamesTypeOK
      <4> QED  BY <3>2, <4>2, <4>3 DEF PairUpsert, NamesTypeOK
    <3> QED  BY <2>4, <3>1, <3>2 DEF PairStep
  <2>5. CASE Reload  BY <2>5 DEF Reload, NamesTypeOK
  <2>6. CASE UNCHANGED vars  BY <2>6 DEF vars, NamesTypeOK
  <2> QED  BY <2>1, <2>2, <2>3, <2>4, <2>5, <2>6 DEF NamesNext, AdminStep
<1> QED  BY <1>1, <1>2, PTL DEF NamesSpec

-----------------------------------------------------------------------------
(* Aliases stay unique.                                                    *)

\* An alias given by a name that means one device is given to its holder, if it
\* has one (osh-admin.rs 152-176).
LEMMA AliasKeepsValid ==
    ASSUME NEW c \in Config, NEW n \in Names, NEW a \in Names,
           Valid(c), AliasFree(c, n, a), ~Ambiguous(c, n), AdminFinds(c, n) # None
    PROVE  Valid([c EXCEPT ![AdminFinds(c, n)].alias = a])
<1> DEFINE f  == AdminFinds(c, n)
           c2 == [c EXCEPT ![f].alias = a]
<1>1. f \in Listed(c) /\ f \in Meant(c, n)  BY AdminFindsListed
<1>2. \A e \in Listed(c) : c[e].alias = a => e = f
  BY <1>1 DEF AliasFree, Holders, Matching, Meant, Ambiguous
<1>3. f \in Ids /\ Listed(c2) = Listed(c)
  BY <1>1 DEF Listed, Config, Entry
<1>4. c2[f].alias = a  BY <1>3 DEF Config, Entry
<1>5. \A e \in Ids \ {f} : c2[e] = c[e]  BY DEF Config
<1>6. SUFFICES ASSUME NEW d \in Listed(c), NEW e \in Listed(c),
                      c2[d].alias # None, c2[d].alias = c2[e].alias
               PROVE  d = e
  BY <1>3 DEF Valid
<1>7. d \in Ids /\ e \in Ids  BY DEF Listed
<1>8. CASE d = f \/ e = f  BY <1>2, <1>4, <1>5, <1>6, <1>7, <1>8
<1>9. CASE d # f /\ e # f  BY <1>5, <1>6, <1>7, <1>9 DEF Valid
<1> QED  BY <1>8, <1>9

\* What both programs save can be loaded again, as far as Loadable says.
THEOREM FilesLoad == NamesSpec => []Loadable
<1>1. NamesInit => Loadable  BY DEF NamesInit, Loadable
<1>2. NamesTypeOK /\ Loadable /\ [NamesNext]_vars => Loadable'
  <2> SUFFICES ASSUME NamesTypeOK, Loadable, [NamesNext]_vars, clean'
               PROVE  Valid(file)' /\ Valid(mem)'
    BY DEF Loadable
  <2>1. ASSUME NEW n \in Names, NEW s \in {"approved", "rejected"}, SetStatus(n, s)
        PROVE  Valid(file)' /\ Valid(mem)'
    <3>1. AdminFinds(file, n) \in Listed(file)
      BY <2>1, AdminFindsListed DEF SetStatus, NamesTypeOK
    <3>2. Listed(file') = Listed(file) /\ \A d \in Ids : file'[d].alias = file[d].alias
      BY <2>1, <3>1 DEF SetStatus, NamesTypeOK, Listed, Config, Entry
    <3>3. Valid(file)'  BY <2>1, <3>2 DEF SetStatus, Valid, Listed
    <3> QED  BY <2>1, <3>3 DEF SetStatus, Loadable, Valid, Listed
  <2>2. ASSUME NEW n \in Names, NEW a \in Names, Alias(n, a)
        PROVE  Valid(file)' /\ Valid(mem)'
    <3>1. clean /\ ~Ambiguous(file, n)  BY <2>2 DEF Alias
    <3>2. Valid(file')  BY <2>2, <3>1, AliasKeepsValid DEF Alias, NamesTypeOK
    <3> QED  BY <2>2, <3>1, <3>2 DEF Alias, Loadable, Valid, Listed
  <2>3. ASSUME NEW n \in Names, Remove(n)  PROVE Valid(file)' /\ Valid(mem)'
    <3>1. \A d \in Ids : file'[d] = file[d] \/ file'[d] = Absent
      BY <2>3 DEF Remove, NamesTypeOK, Config
    <3>2. Valid(file)'  BY <2>3, <3>1 DEF Remove, Valid, Listed, Absent
    <3> QED  BY <2>3, <3>2 DEF Remove, Loadable, Valid, Listed
  <2>4. ASSUME NEW d \in Pairing, PairStep(d)  PROVE Valid(file)' /\ Valid(mem)'
    <3> d \in Ids  BY NamesAssumption
    <3>1. CASE PairLookup(d)  BY <3>1 DEF PairLookup, Loadable, Valid, Listed
    <3>2. CASE PairUpsert(d) /\ mem[d] = Absent
      <4>1. clean /\ mem' = [mem EXCEPT ![d] = New] /\ file' = mem'
        BY <3>2 DEF PairUpsert, Recorded
      <4>2. mem'[d] = New /\ \A e \in Ids \ {d} : mem'[e] = mem[e]
        BY <4>1 DEF NamesTypeOK, Config
      <4>3. Valid(mem)  BY <4>1 DEF Loadable
      <4>4. Valid(mem')
        BY <4>2, <4>3, NamesAssumption DEF Valid, Listed, New
      <4> QED  BY <4>1, <4>4 DEF Valid, Listed
    <3>3. CASE PairUpsert(d) /\ mem[d] # Absent
      BY <3>3 DEF PairUpsert, Loadable, Valid, Listed
    <3> QED  BY <2>4, <3>1, <3>2, <3>3 DEF PairStep
  <2>5. CASE Reload  BY <2>5 DEF Reload, Loadable, Valid, Listed
  <2>6. CASE UNCHANGED vars  BY <2>6 DEF vars, Loadable, Valid, Listed
  <2> QED  BY <2>1, <2>2, <2>3, <2>4, <2>5, <2>6 DEF NamesNext, AdminStep
<1> QED  BY <1>1, <1>2, TypeCorrect, PTL DEF NamesSpec

-----------------------------------------------------------------------------
(* Edits take effect.                                                      *)

\* What was asked for is what the file says, for whoever osh-admin finds.
Asked == asked # None =>
    /\ asked[1] \in Names
    /\ AdminFinds(file, asked[1]) # None
    /\ file[AdminFinds(file, asked[1])].status = asked[2]

LEMMA AskedIsSaved == NamesSpec => []Asked
<1>1. NamesInit => Asked  BY DEF NamesInit, Asked
<1>2. NamesTypeOK /\ Asked /\ [NamesNext]_vars => Asked'
  <2> SUFFICES ASSUME NamesTypeOK, Asked, [NamesNext]_vars  PROVE Asked'
    OBVIOUS
  <2>1. ASSUME NEW n \in Names, NEW s \in {"approved", "rejected"}, SetStatus(n, s)
        PROVE  Asked'
    <3> DEFINE d == AdminFinds(file, n)
    <3>1. d \in Listed(file)
      BY <2>1, AdminFindsListed DEF SetStatus, NamesTypeOK
    <3>2. /\ Listed(file') = Listed(file)
          /\ file'[d].status = s
          /\ \A e \in Ids : file'[e].alias = file[e].alias
      BY <2>1, <3>1 DEF SetStatus, NamesTypeOK, Listed, Config, Entry
    <3>3. Holders(file', n) = Holders(file, n) /\ Matching(file', n) = Matching(file, n)
      BY <3>2 DEF Holders, Matching, Listed
    <3>4. AdminFinds(file', n) = d  BY <3>2, <3>3 DEF AdminFinds
    <3>5. asked' = <<n, s>>  BY <2>1 DEF SetStatus
    <3>6. d # None  BY <2>1 DEF SetStatus
    <3> QED  BY <3>2, <3>4, <3>5, <3>6 DEF Asked
  <2>2. CASE \E n \in Names : Remove(n) \/ \E a \in Names : Alias(n, a)
    BY <2>2 DEF Remove, Alias, Asked
  <2>3. ASSUME NEW d \in Pairing, PairStep(d)  PROVE Asked'
    BY <2>3 DEF PairStep, PairLookup, PairUpsert, Asked
  <2>4. CASE Reload  BY <2>4 DEF Reload, Asked
  <2>5. CASE UNCHANGED vars  BY <2>5 DEF vars, Asked
  <2> QED  BY <2>1, <2>2, <2>3, <2>4, <2>5 DEF NamesNext, AdminStep
<1> QED  BY <1>1, <1>2, TypeCorrect, PTL DEF NamesSpec

\* Whoever osh reaches by the name has the status that was asked for.
THEOREM EditsApply == NamesSpec => EditApplies
<1>1. NamesTypeOK /\ Asked /\ [NamesNext]_vars =>
        (Reload /\ asked # None /\ ~Crossed(file, asked[1]) =>
            LET d == RelayFinds(mem', asked[1]) IN d # None /\ mem'[d].status = asked[2])
  <2> SUFFICES ASSUME NamesTypeOK, Asked, Reload, asked # None, ~Crossed(file, asked[1])
               PROVE  LET d == RelayFinds(mem', asked[1]) IN d # None /\ mem'[d].status = asked[2]
    OBVIOUS
  <2>1. RelayFinds(file, asked[1]) = AdminFinds(file, asked[1])
    BY LookupsAgree DEF Asked, NamesTypeOK
  <2>2. mem' = file  BY DEF Reload
  <2> QED  BY <2>1, <2>2 DEF Asked
<1> QED  BY <1>1, TypeCorrect, AskedIsSaved, PTL DEF NamesSpec, EditApplies
==============================================================================
