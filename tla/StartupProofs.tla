--------------------------- MODULE StartupProofs ----------------------------
(***************************************************************************)
(* What starting Probes guarantees for any number of them, any documents   *)
(* and any order of their entries, and any room in the array they share.   *)
(***************************************************************************)
EXTENDS Startup, SequenceTheorems, TLAPS

-----------------------------------------------------------------------------
(* The configuration of a Probe.  Of a document being parsed, what was visited
   was good and is in the configuration, and nothing else is. *)
Parsed(p, visited) ==
  /\ raw[p] \in Raw
  /\ raw[p].is = "JSON object"
  /\ \A h \in visited : FaultOf(entry(p, h)) = Nil
  /\ config[p] = [h \in visited |->
                    [ Tier |-> entry(p, h).tier, Extra |-> entry(p, h).extra ]]

(* The fault that ended a parse is one the named entry has. *)
Refused(p) ==
  /\ raw[p] \in Raw
  /\ config[p] = Nil
  /\ raw[p].is = "JSON object" =>
       err[p].handle \in declared(p) /\ FaultOf(entry(p, err[p].handle)) = err[p].what

(* What a Probe that resolved its tier has, or failed for. *)
Resolved(p) ==
  \/ /\ ~At(p, "failed")
     /\ err[p] = Nil
     /\ tier[p] \in Spellings
     /\ raw[p] = Nil => HandleOf[p] \in DOMAIN config[p]
     /\ raw[p] # Nil => /\ HandleOf[p] \in declared(p)
                        /\ entry(p, HandleOf[p]).tier = tier[p]
  \/ At(p, "failed") /\ err[p] # Nil /\ tier[p] = "UNSPECIFIED"

ConfigInv(p) ==
  /\ At(p, "idle") => raw[p] = Nil /\ tier[p] = Nil
  /\ At(p, "parsing") => /\ tier[p] = Nil
                         /\ left[p] \subseteq declared(p)
                         /\ Parsed(p, declared(p) \ left[p])
  /\ At(p, "configured") => tier[p] = Nil /\ (raw[p] # Nil => Parsed(p, declared(p)))
  /\ At(p, "failed") /\ tier[p] = Nil => Refused(p)
  /\ tier[p] # Nil => Resolved(p)
  /\ stage[p] \in {"resolved", "cloned", "assembled", "started"} => tier[p] # Nil

ConfigDomains ==
  /\ DOMAIN stage = Probes /\ DOMAIN raw = Probes /\ DOMAIN left = Probes
  /\ DOMAIN config = Probes /\ DOMAIN tier = Probes /\ DOMAIN err = Probes

ConfigsInv == ConfigDomains /\ \A p \in Probes : ConfigInv(p)

(* Nothing of p's configuration changes, or all p does is go on building. *)
Elsewhere(p) ==
  /\ raw'[p] = raw[p] /\ left'[p] = left[p] /\ config'[p] = config[p]
  /\ tier'[p] = tier[p] /\ err'[p] = err[p]
  /\ \/ stage'[p] = stage[p]
     \/ {stage[p], stage'[p]} \subseteq {"resolved", "cloned", "assembled", "started"}

LEMMA ElsewhereKeeps ==
  ASSUME NEW p \in Probes, ConfigInv(p), Elsewhere(p)
  PROVE  ConfigInv(p)'
<1> USE DEF Elsewhere, At, declared, entry
<1>1. \A visited : Parsed(p, visited) => Parsed(p, visited)'
  BY DEF Parsed
<1>2. Refused(p) => Refused(p)'
  BY DEF Refused
<1>3. Resolved(p) => Resolved(p)'
  BY DEF Resolved
<1>4. QED
  BY <1>1, <1>2, <1>3 DEF ConfigInv

LEMMA ErrorsAreNotNil ==
  ASSUME NEW what \in Faults, NEW h \in Handles
  PROVE  Error(what, h) # Nil
<1>1. Error(what, h) \in Errors
  BY DEF Error, Errors
<1>2. QED
  BY <1>1, StartupAssumption

(* An entry without a fault spells a tier the schema knows. *)
LEMMA NoFaultIsSpelled ==
  ASSUME NEW e, FaultOf(e) = Nil
  PROVE  e.tier \in Spellings
<1>1. /\ "entry is no object" # Nil /\ "no tier" # Nil
      /\ "tier is no string" # Nil /\ "unknown tier" # Nil
  BY StartupAssumption DEF Faults
<1>2. QED
  BY <1>1 DEF FaultOf

LEMMA LoadKeeps ==
  ASSUME ConfigsInv, NEW p \in Probes, NEW document \in Raw, Load(p, document)
  PROVE  ConfigsInv'
<1> USE DEF ConfigsInv, ConfigDomains, Load, Fail, Goto, At
<1>1. raw'[p] = document /\ tier'[p] = Nil /\ document # Nil
  BY StartupAssumption DEF ConfigInv
<1>2. ConfigInv(p)'
  <2>1. CASE document.is = "JSON object"
    <3>1. /\ stage'[p] = "parsing" /\ left'[p] = DOMAIN document.entries
          /\ config'[p] = [h \in {} |-> Nil]
      BY <2>1
    <3>2. declared(p)' \ left'[p] = {}
      BY <1>1, <3>1 DEF declared
    <3>3. Parsed(p, {})'
      BY <1>1, <2>1, <3>1 DEF Parsed
    <3>4. QED
      BY <1>1, <3>1, <3>2, <3>3 DEF ConfigInv, declared
  <2>2. CASE document.is # "JSON object"
    <3>1. stage'[p] = "failed" /\ config'[p] = Nil
      BY <2>2
    <3>2. QED
      BY <1>1, <2>2, <3>1 DEF ConfigInv, Refused
  <2>3. QED
    BY <2>1, <2>2
<1>3. \A q \in Probes : q # p => Elsewhere(q)
  BY DEF Elsewhere
<1>4. QED
  BY <1>2, <1>3, ElsewhereKeeps

LEMMA EntryFailsKeeps ==
  ASSUME ConfigsInv, NEW p \in Probes, NEW h \in left[p], EntryFails(p, h)
  PROVE  ConfigsInv'
<1> USE DEF ConfigsInv, ConfigDomains, EntryFails, Fail, Goto, At
<1>1. /\ raw[p] \in Raw /\ h \in declared(p) /\ tier[p] = Nil
      /\ raw'[p] = raw[p] /\ tier'[p] = Nil
  BY DEF ConfigInv, Parsed
<1>2. /\ stage'[p] = "failed" /\ config'[p] = Nil
      /\ err'[p].what = FaultOf(entry(p, h)) /\ err'[p].handle = h
  BY DEF Error
<1>3. Refused(p)'
  BY <1>1, <1>2 DEF Refused, declared, entry
<1>4. ConfigInv(p)'
  BY <1>1, <1>2, <1>3 DEF ConfigInv
<1>5. \A q \in Probes : q # p => Elsewhere(q)
  BY DEF Elsewhere
<1>6. QED
  BY <1>4, <1>5, ElsewhereKeeps

LEMMA EntryParsesKeeps ==
  ASSUME ConfigsInv, NEW p \in Probes, NEW h \in left[p], EntryParses(p, h)
  PROVE  ConfigsInv'
<1> USE DEF ConfigsInv, ConfigDomains, EntryParses, At
<1> DEFINE visited == declared(p) \ left[p]
<1>1. /\ Parsed(p, visited) /\ h \in declared(p) /\ tier[p] = Nil
      /\ left[p] \subseteq declared(p)
  BY DEF ConfigInv
<1>2. /\ stage' = stage /\ raw' = raw /\ tier' = tier /\ err' = err
      /\ left'[p] = left[p] \ {h}
  OBVIOUS
<1>3. declared(p)' \ left'[p] = visited \cup {h}
  BY <1>1, <1>2 DEF declared
<1>4. DOMAIN config[p] = visited
  BY <1>1 DEF Parsed
<1>5. config'[p] = [g \in visited \cup {h} |->
                      [ Tier |-> entry(p, g).tier, Extra |-> entry(p, g).extra ]]
  BY <1>1, <1>4 DEF Parsed
<1>6. Parsed(p, declared(p) \ left[p])'
  BY <1>1, <1>2, <1>3, <1>5 DEF Parsed, entry
<1>7. ConfigInv(p)'
  BY <1>1, <1>2, <1>6 DEF ConfigInv, declared
<1>8. \A q \in Probes : q # p => Elsewhere(q)
  BY DEF Elsewhere
<1>9. QED
  BY <1>7, <1>8, ElsewhereKeeps

LEMMA ConfiguredKeeps ==
  ASSUME ConfigsInv, NEW p \in Probes,
         ParseDone(p) \/ \E c \in HandBuilt : BuildByHand(p, c)
  PROVE  ConfigsInv'
<1> USE DEF ConfigsInv, ConfigDomains, Goto, At
<1>1. \A q \in Probes : q # p => Elsewhere(q)
  BY DEF Elsewhere, ParseDone, BuildByHand, configVars
<1>2. CASE ParseDone(p)
  <2>1. Parsed(p, declared(p)) /\ tier[p] = Nil
    <3>1. declared(p) \ left[p] = declared(p)
      BY <1>2 DEF ParseDone
    <3>2. QED
      BY <1>2, <3>1 DEF ParseDone, ConfigInv
  <2>2. stage'[p] = "configured" /\ UNCHANGED configVars
    BY <1>2 DEF ParseDone
  <2>3. ConfigInv(p)'
    BY <2>1, <2>2 DEF ConfigInv, configVars, Parsed, declared, entry
  <2>4. QED
    BY <1>1, <1>2, <2>3, ElsewhereKeeps DEF ParseDone, configVars
<1>3. ASSUME NEW c \in HandBuilt, BuildByHand(p, c) PROVE ConfigsInv'
  <2>1. /\ stage'[p] = "configured" /\ raw'[p] = Nil /\ tier'[p] = Nil
    BY <1>3 DEF BuildByHand, ConfigInv
  <2>2. ConfigInv(p)'
    BY <2>1 DEF ConfigInv
  <2>3. QED
    BY <1>1, <1>3, <2>2, ElsewhereKeeps DEF BuildByHand
<1>4. QED
  BY <1>2, <1>3

LEMMA ResolveKeeps ==
  ASSUME ConfigsInv, NEW p \in Probes, Resolve(p)
  PROVE  ConfigsInv'
<1> USE DEF ConfigsInv, ConfigDomains, Goto, At
<1> DEFINE answer == TierForHandle(config[p], HandleOf[p])
<1>1. /\ tier'[p] = answer[1] /\ err'[p] = answer[2]
      /\ stage'[p] = IF answer[2] = Nil THEN "resolved" ELSE "failed"
      /\ raw' = raw /\ left' = left /\ config' = config
      /\ raw[p] # Nil => Parsed(p, declared(p))
  BY DEF Resolve, ConfigInv
<1>2. HandleOf[p] \in Handles
  BY StartupAssumption
<1>3. \/ /\ HandleOf[p] \in DOMAIN config[p]
         /\ config[p][HandleOf[p]].Tier \in Spellings
         /\ answer[1] = config[p][HandleOf[p]].Tier /\ answer[2] = Nil
      \/ answer[1] = "UNSPECIFIED" /\ answer[2] # Nil
  <2>1. /\ Error("no entry", HandleOf[p]) # Nil
        /\ Error("unknown tier", HandleOf[p]) # Nil
    BY <1>2, ErrorsAreNotNil DEF Faults
  <2>2. QED
    BY <2>1 DEF TierForHandle
<1>4. answer[1] # Nil
  BY <1>3, StartupAssumption DEF Spellings, SourceTiers
<1>5. Resolved(p)'
  <2>1. CASE answer[2] = Nil
    <3>1. raw[p] # Nil => /\ HandleOf[p] \in declared(p)
                          /\ entry(p, HandleOf[p]).tier = answer[1]
      <4> SUFFICES ASSUME raw[p] # Nil
                   PROVE  HandleOf[p] \in declared(p) /\ entry(p, HandleOf[p]).tier = answer[1]
        OBVIOUS
      <4>1. config[p] = [h \in declared(p) |->
                           [ Tier |-> entry(p, h).tier, Extra |-> entry(p, h).extra ]]
        BY <1>1 DEF Parsed
      <4>2. /\ HandleOf[p] \in DOMAIN config[p]
            /\ answer[1] = config[p][HandleOf[p]].Tier
        BY <1>3, <2>1
      <4> HIDE DEF answer
      <4>3. QED
        BY <4>1, <4>2
    <3>2. QED
      BY <1>1, <1>3, <2>1, <3>1 DEF Resolved, declared, entry
  <2>2. CASE answer[2] # Nil
    BY <1>1, <1>3, <2>2 DEF Resolved
  <2>3. QED
    BY <2>1, <2>2
<1>6. ConfigInv(p)'
  BY <1>1, <1>4, <1>5 DEF ConfigInv
<1>7. \A q \in Probes : q # p => Elsewhere(q)
  BY DEF Elsewhere, Resolve
<1>8. QED
  BY <1>6, <1>7, ElsewhereKeeps DEF Resolve

LEMMA BuildingKeeps ==
  ASSUME ConfigsInv, NEW p \in Probes,
         Clone(p) \/ (\E drift \in BOOLEAN : AppendResource(p, drift)) \/ BuildProvider(p)
  PROVE  ConfigsInv'
<1> USE DEF ConfigsInv, ConfigDomains, Clone, AppendResource, BuildProvider, Goto, At,
        configVars
<1>1. \A q \in Probes : Elsewhere(q)
  BY DEF Elsewhere
<1>2. QED
  BY <1>1, ElsewhereKeeps

LEMMA ConfigsInvariant == Spec => []ConfigsInv
<1>1. Init => ConfigsInv
  BY DEF Init, ConfigsInv, ConfigDomains, ConfigInv, At
<1>2. ConfigsInv /\ UNCHANGED vars => ConfigsInv'
  <2> SUFFICES ASSUME ConfigsInv, UNCHANGED vars PROVE ConfigsInv'
    OBVIOUS
  <2>1. \A p \in Probes : Elsewhere(p)
    BY DEF vars, configVars, Elsewhere
  <2>2. QED
    BY <2>1, ElsewhereKeeps DEF ConfigsInv, ConfigDomains, vars, configVars
<1>3. ConfigsInv /\ [Next]_vars => ConfigsInv'
  BY <1>2, LoadKeeps, EntryFailsKeeps, EntryParsesKeeps, ConfiguredKeeps, ResolveKeeps,
     BuildingKeeps DEF Next
<1>4. QED
  BY <1>1, <1>3, PTL DEF Spec

-----------------------------------------------------------------------------
(* A document is accepted whole or refused for a fault it has, in whatever order
   its entries are met. *)
THEOREM VerdictsAreTheDocuments == Spec => []VerdictIsTheDocuments
<1>1. ConfigsInv => VerdictIsTheDocuments
  <2> SUFFICES ASSUME ConfigsInv, NEW p \in Probes, raw[p] # Nil
               PROVE  /\ At(p, "configured") =>
                           /\ raw[p].is = "JSON object"
                           /\ config[p] = [h \in declared(p) |->
                                [ Tier |-> entry(p, h).tier, Extra |-> entry(p, h).extra ]]
                           /\ \A h \in declared(p) : entry(p, h).tier \in Spellings
                      /\ At(p, "failed") /\ tier[p] = Nil => Refused(p)
    BY DEF VerdictIsTheDocuments, Refused
  <2>1. ConfigInv(p)
    BY DEF ConfigsInv
  <2>2. QED
    BY <2>1, NoFaultIsSpelled DEF ConfigInv, Parsed
<1>2. QED
  BY <1>1, ConfigsInvariant, PTL

(* A Probe starts with the tier declared for its own handle, or not at all. *)
THEOREM TiersAreDeclared == Spec => []NoTierWithoutDeclaration
<1>1. ConfigsInv => NoTierWithoutDeclaration
  BY DEF ConfigsInv, ConfigInv, Resolved, NoTierWithoutDeclaration
<1>2. QED
  BY <1>1, ConfigsInvariant, PTL

-----------------------------------------------------------------------------
(* The host's array is never written, and what a Probe appends to is its own:
   from the clone on its slice is backed by its own array, and once assembled
   holds the host's options and then its resource. *)
HostArray == [i \in 1 .. Capacity |-> IF i <= Len(HostOptions) THEN HostOptions[i] ELSE Nil]

Assembled(p) ==
  IF ServiceName[p] = "" THEN HostOptions
  ELSE Append(HostOptions, WithResource(ServiceName[p], p \in handled))

TracerInv(p) ==
  /\ provider[p] # Nil => At(p, "started") /\ provider[p] = Assembled(p)
  /\ At(p, "cloned") => /\ options[p] = [ array |-> p, len |-> Len(HostOptions) ]
                        /\ arrays[p] = HostArray
                        /\ p \notin handled
  /\ At(p, "assembled") => /\ options[p] = [ array |-> p, len |-> Len(Assembled(p)) ]
                           /\ \A i \in 1 .. Len(Assembled(p)) :
                                arrays[p][i] = Assembled(p)[i]
  /\ p \in handled => stage[p] \in {"assembled", "started"}

TracerDomains ==
  /\ DOMAIN stage = Probes /\ DOMAIN arrays = Probes \cup {"host"}
  /\ DOMAIN options = Probes /\ DOMAIN provider = Probes
  /\ arrays["host"] = HostArray

TracersInv == TracerDomains /\ \A p \in Probes : TracerInv(p)

(* Another Probe's step leaves p's slice, array and provider alone; p's own, up
   to its clone, does not come near them. *)
OthersStep(p) ==
  /\ arrays'[p] = arrays[p] /\ options'[p] = options[p] /\ provider'[p] = provider[p]
  /\ p \in handled' <=> p \in handled
  /\ \/ stage'[p] = stage[p]
     \/ {stage[p], stage'[p]}
          \subseteq {"idle", "parsing", "configured", "failed", "resolved"}

LEMMA OthersStepKeeps ==
  ASSUME NEW p \in Probes, TracerInv(p), OthersStep(p)
  PROVE  TracerInv(p)'
<1>1. (p \in handled') = (p \in handled)
  BY DEF OthersStep
<1>2. Assembled(p)' = Assembled(p)
  BY <1>1 DEF Assembled
<1>3. QED
  BY <1>2 DEF OthersStep, TracerInv, At

LEMMA AssembledIsASequence ==
  ASSUME NEW p \in Probes
  PROVE  /\ Assembled(p) \in Seq(ProviderOption)
         /\ HostOptions \in Seq(ProviderOption)
         /\ Assembled(p) = [i \in 1 .. Len(Assembled(p)) |-> Assembled(p)[i]]
<1>1. HostOptions \in Seq(ProviderOption) /\ ServiceName[p] \in STRING
  BY StartupAssumption
<1>2. WithResource(ServiceName[p], p \in handled) \in ProviderOption
  BY <1>1 DEF WithResource, ProviderOption
<1>3. Assembled(p) \in Seq(ProviderOption)
  BY <1>1, <1>2, AppendProperties DEF Assembled
<1>4. QED
  BY <1>1, <1>3

LEMMA CloneKeeps ==
  ASSUME TracersInv, NEW p \in Probes, Clone(p)
  PROVE  TracersInv'
<1> USE DEF TracersInv, TracerDomains, Clone, Goto, At
<1>1. p # "host"
  BY StartupAssumption
<1>2. arrays'[p] = HostArray /\ arrays'["host"] = HostArray
  <2>1. \A i \in 1 .. Capacity :
          (IF i <= Len(HostOptions) THEN arrays["host"][i] ELSE Nil) = HostArray[i]
    BY DEF HostArray
  <2>2. HostArray = [i \in 1 .. Capacity |-> HostArray[i]]
    BY DEF HostArray
  <2> HIDE DEF TracersInv
  <2>3. arrays'[p] = [i \in 1 .. Capacity |->
                        IF i <= Len(HostOptions) THEN arrays["host"][i] ELSE Nil]
    BY DEF TracersInv
  <2>4. QED
    BY <1>1, <2>1, <2>2, <2>3 DEF TracersInv
<1>3. TracerInv(p)'
  BY <1>2 DEF TracerInv
<1>4. \A q \in Probes : q # p => OthersStep(q)
  BY DEF OthersStep
<1>5. QED
  BY <1>1, <1>2, <1>3, <1>4, OthersStepKeeps

LEMMA AppendKeeps ==
  ASSUME TracersInv, NEW p \in Probes, NEW drift \in BOOLEAN, AppendResource(p, drift)
  PROVE  TracersInv'
<1> USE DEF TracersInv, TracerDomains, Goto, At
<1>1. /\ p # "host" /\ Capacity \in Nat /\ Len(HostOptions) <= Capacity
      /\ Len(HostOptions) \in Nat
  BY StartupAssumption, AssembledIsASequence, LenProperties
<1>2. /\ stage[p] = "cloned" /\ options[p] = [ array |-> p, len |-> Len(HostOptions) ]
      /\ arrays[p] = HostArray /\ p \notin handled /\ provider[p] = Nil
      /\ stage' = [stage EXCEPT ![p] = "assembled"] /\ provider' = provider
  BY DEF AppendResource, TracerInv
<1>3. CASE ServiceName[p] = ""
  <2>1. arrays' = arrays /\ options' = options /\ handled' = handled
    BY <1>3 DEF AppendResource
  <2>2. Assembled(p) = HostOptions /\ Assembled(p)' = HostOptions
    BY <1>3 DEF Assembled
  <2>3. TracerInv(p)'
    BY <1>1, <1>2, <2>1, <2>2 DEF TracerInv, HostArray
  <2>4. \A q \in Probes : q # p => OthersStep(q)
    BY <1>2, <2>1 DEF OthersStep
  <2>5. QED
    BY <1>2, <2>1, <2>3, <2>4, OthersStepKeeps
<1>4. CASE ServiceName[p] # ""
  <2> DEFINE n == Len(HostOptions)
             resource == WithResource(ServiceName[p], drift)
             grown == [i \in 1 .. n |-> HostArray[i]]
  <2>1. /\ options' = [options EXCEPT ![p] = [ array |-> p, len |-> n + 1 ]]
        /\ arrays' = [arrays EXCEPT ![p] =
             IF n < Capacity THEN [HostArray EXCEPT ![n + 1] = resource]
             ELSE Append(grown, resource)]
        /\ handled' = IF drift THEN handled \cup {p} ELSE handled
    <3>1. options[p].array = p /\ options[p].len = n
      BY <1>2
    <3>2. [i \in 1 .. options[p].len |-> arrays[options[p].array][i]] = grown
      BY <1>2, <3>1
    <3>3. QED
      BY <1>2, <1>4, <3>1, <3>2 DEF AppendResource
  <2>2. Assembled(p)' = Append(HostOptions, resource)
    <3>1. (p \in handled') = drift
      BY <1>2, <2>1
    <3>2. QED
      BY <1>4, <3>1 DEF Assembled
  <2>3. resource \in ProviderOption /\ HostOptions \in Seq(ProviderOption)
    BY StartupAssumption DEF WithResource, ProviderOption
  <2>4. /\ Len(Append(HostOptions, resource)) = n + 1
        /\ \A i \in 1 .. n : Append(HostOptions, resource)[i] = HostOptions[i]
        /\ Append(HostOptions, resource)[n + 1] = resource
    BY <2>3, AppendProperties
  <2>5. \A i \in 1 .. n : HostArray[i] = HostOptions[i]
    BY <1>1 DEF HostArray
  <2>6. \A i \in 1 .. n + 1 : arrays'[p][i] = Append(HostOptions, resource)[i]
    <3>1. CASE n < Capacity
      <4>1. arrays'[p] = [HostArray EXCEPT ![n + 1] = resource]
        BY <2>1, <3>1
      <4>2. DOMAIN HostArray = 1 .. Capacity
        BY DEF HostArray
      <4>3. QED
        BY <1>1, <2>4, <2>5, <3>1, <4>1, <4>2
    <3>2. CASE ~(n < Capacity)
      <4>1. arrays'[p] = Append(grown, resource)
        BY <2>1, <3>2
      <4>2. grown = HostOptions
        BY <1>1, <2>3, <2>5
      <4>3. QED
        BY <4>1, <4>2
    <3>3. QED
      BY <3>1, <3>2
  <2>7. TracerInv(p)'
    BY <1>2, <2>1, <2>2, <2>4, <2>6 DEF TracerInv
  <2>8. \A q \in Probes : q # p => OthersStep(q)
    BY <1>2, <2>1 DEF OthersStep
  <2>9. QED
    BY <1>1, <1>2, <2>1, <2>7, <2>8, OthersStepKeeps
<1>5. QED
  BY <1>3, <1>4

LEMMA BuildProviderKeeps ==
  ASSUME TracersInv, NEW p \in Probes, BuildProvider(p)
  PROVE  TracersInv'
<1> USE DEF TracersInv, TracerDomains, BuildProvider, Goto, At
<1>1. /\ options[p] = [ array |-> p, len |-> Len(Assembled(p)) ]
      /\ \A i \in 1 .. Len(Assembled(p)) : arrays[p][i] = Assembled(p)[i]
  BY DEF TracerInv
<1>2. provider'[p] = [i \in 1 .. Len(Assembled(p)) |-> arrays[p][i]]
  BY <1>1
<1>3. provider'[p] = Assembled(p)
  BY <1>1, <1>2, AssembledIsASequence
<1>4. Assembled(p)' = Assembled(p)
  BY DEF Assembled
<1>5. TracerInv(p)'
  BY <1>3, <1>4 DEF TracerInv
<1>6. \A q \in Probes : q # p => OthersStep(q)
  BY DEF OthersStep
<1>7. QED
  BY <1>5, <1>6, OthersStepKeeps

(* Every step before the clone, of any Probe. *)
LEMMA ConfiguringKeeps ==
  ASSUME TracersInv, NEW p \in Probes,
         \/ \E document \in Raw : Load(p, document)
         \/ \E h \in left[p] : EntryFails(p, h) \/ EntryParses(p, h)
         \/ ParseDone(p) \/ (\E c \in HandBuilt : BuildByHand(p, c)) \/ Resolve(p)
  PROVE  TracersInv'
<1> USE DEF TracersInv, TracerDomains, Goto, At
<1>1. /\ UNCHANGED tracerVars /\ DOMAIN stage' = Probes
      /\ \A q \in Probes : q # p => stage'[q] = stage[q]
      /\ {stage[p], stage'[p]} \subseteq {"idle", "parsing", "configured", "failed", "resolved"}
  BY DEF Load, Fail, EntryFails, EntryParses, ParseDone, BuildByHand, Resolve, tracerVars
<1>2. \A q \in Probes : OthersStep(q)
  BY <1>1 DEF OthersStep, tracerVars
<1>3. QED
  BY <1>1, <1>2, OthersStepKeeps DEF tracerVars

LEMMA TracersInvariant == Spec => []TracersInv
<1>1. Init => TracersInv
  BY StartupAssumption DEF Init, TracersInv, TracerDomains, TracerInv, At, HostArray
<1>2. TracersInv /\ UNCHANGED vars => TracersInv'
  <2> SUFFICES ASSUME TracersInv, UNCHANGED vars PROVE TracersInv'
    OBVIOUS
  <2>1. \A p \in Probes : OthersStep(p)
    BY DEF vars, tracerVars, OthersStep
  <2>2. QED
    BY <2>1, OthersStepKeeps DEF TracersInv, TracerDomains, vars, tracerVars
<1>3. TracersInv /\ [Next]_vars => TracersInv'
  BY <1>2, ConfiguringKeeps, CloneKeeps, AppendKeeps, BuildProviderKeeps DEF Next
<1>4. QED
  BY <1>1, <1>3, PTL DEF Spec

(* Each provider has the host's options and its own resource, and the host's
   array is as the host wrote it. *)
THEOREM ProvidersDoNotShare == Spec => []ProvidersAreTheirOwn
<1>1. TracersInv => ProvidersAreTheirOwn
  BY DEF TracersInv, TracerDomains, TracerInv, ProvidersAreTheirOwn, HostArray, Assembled
<1>2. QED
  BY <1>1, TracersInvariant, PTL
=============================================================================
