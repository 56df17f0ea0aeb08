---------------------------- MODULE ProbeProofs -----------------------------
(***************************************************************************)
(* What projection keeps, what a flow that keeps its snapshot may rely on, *)
(* and when its three loads of the store agree, for any filters, any       *)
(* events and any number of goroutines.                                    *)
(***************************************************************************)
EXTENDS Probe, Loops

(* The loop of OfKeys, which appends an entry or nothing. *)
keptOf(keys) ==
  [ entry \in AttributeEntry |-> IF entry.key \in keys THEN << entry >> ELSE << >> ]

KeysOf(attributes) == {entry.key : entry \in ToSet(attributes)}

LEMMA KeptAppends ==
  ASSUME NEW keys
  PROVE  Appends(keptOf(keys), AttributeEntry, AttributeEntry)
<1>1. ASSUME NEW entry \in AttributeEntry
      PROVE  << entry >> \in Seq(AttributeEntry) /\ << >> \in Seq(AttributeEntry)
  OBVIOUS
<1>2. QED
  BY <1>1 DEF Appends, keptOf

LEMMA OfKeysLoops ==
  ASSUME NEW attributes \in Seq(AttributeEntry), NEW keys
  PROVE  OfKeys(attributes, keys) = FlatMap(keptOf(keys), attributes)
<1> DEFINE keep == keptOf(keys)
<1>1. \A i \in DOMAIN attributes : attributes[i] \in AttributeEntry
  BY ElementOfSeq, LenProperties
<1>2. Mapped(keep, attributes)
        = [ i \in DOMAIN attributes |->
              IF attributes[i].key \in keys THEN << attributes[i] >> ELSE << >> ]
  BY <1>1 DEF Mapped, keptOf
<1>3. QED
  BY <1>2 DEF OfKeys, FlatMap

(* It keeps the entries of those keys, and depends on the keys the attributes have. *)
LEMMA OfKeysKeeps ==
  ASSUME NEW attributes \in Seq(AttributeEntry), NEW keys
  PROVE  /\ OfKeys(attributes, keys) \in Seq(AttributeEntry)
         /\ KeysOf(OfKeys(attributes, keys)) = KeysOf(attributes) \cap keys
<1> DEFINE keep == keptOf(keys)
           kept == OfKeys(attributes, keys)
<1>1. kept = FlatMap(keep, attributes)
  BY OfKeysLoops
<1>2. Appends(keep, AttributeEntry, AttributeEntry)
  BY KeptAppends
<1> HIDE DEF keep, kept
<1>3. kept \in Seq(AttributeEntry)
  BY <1>1, <1>2, FlatMapType
<1>4. Range(kept) = UNION {Range(keep[x]) : x \in Range(attributes)}
  BY <1>1, <1>2, FlatMapRange
<1>5. Range(attributes) \subseteq AttributeEntry
  BY ElementOfSeq, LenProperties DEF Range
<1>6. ASSUME NEW x \in AttributeEntry
      PROVE  Range(keep[x]) = IF x.key \in keys THEN {x} ELSE {}
  <2>1. Range(<< x >>) = {x} /\ Range(<< >>) = {}
    BY DEF Range
  <2>2. keep[x] = IF x.key \in keys THEN << x >> ELSE << >>
    BY DEF keep, keptOf
  <2>3. CASE x.key \in keys
    <3>1. keep[x] = << x >>
      BY <2>2, <2>3
    <3>2. QED
      BY <2>1, <2>3, <3>1
  <2>4. CASE x.key \notin keys
    <3>1. keep[x] = << >>
      BY <2>2, <2>4
    <3>2. QED
      BY <2>1, <2>4, <3>1
  <2>5. QED
    BY <2>3, <2>4
<1>7. Range(kept) = {x \in Range(attributes) : x.key \in keys}
  <2>1. ASSUME NEW y \in Range(kept)
        PROVE  y \in Range(attributes) /\ y.key \in keys
    <3>1. PICK x \in Range(attributes) : y \in Range(keep[x])
      BY <1>4
    <3>2. Range(keep[x]) = IF x.key \in keys THEN {x} ELSE {}
      BY <1>5, <1>6
    <3>3. QED
      BY <3>1, <3>2
  <2>2. ASSUME NEW x \in Range(attributes), x.key \in keys
        PROVE  x \in Range(kept)
    <3>1. Range(keep[x]) = {x}
      BY <1>5, <1>6, <2>2
    <3>2. QED
      BY <1>4, <3>1
  <2>3. QED
    BY <2>1, <2>2
<1>8. ToSet(kept) = Range(kept) /\ ToSet(attributes) = Range(attributes)
  BY DEF ToSet, Range
<1>9. KeysOf(kept) = KeysOf(attributes) \cap keys
  BY <1>7, <1>8 DEF KeysOf
<1>10. QED
  BY <1>3, <1>9 DEF kept

LEMMA OfKeysAgrees ==
  ASSUME NEW attributes \in Seq(AttributeEntry), NEW keys, NEW same,
         KeysOf(attributes) \cap keys = KeysOf(attributes) \cap same
  PROVE  OfKeys(attributes, keys) = OfKeys(attributes, same)
<1>1. \A i \in DOMAIN attributes : attributes[i].key \in KeysOf(attributes)
  BY DEF KeysOf, ToSet
<1>2. \A i \in DOMAIN attributes : attributes[i].key \in keys <=> attributes[i].key \in same
  BY <1>1
<1>3. QED
  BY <1>2 DEF OfKeys

(* Of all keys: all of them, as they were. *)
LEMMA OfAllKeys ==
  ASSUME NEW attributes \in Seq(AttributeEntry)
  PROVE  OfKeys(attributes, KeysOf(attributes)) = attributes
<1> DEFINE own == KeysOf(attributes)
           kept == Range(attributes)
           keep == keptOf(own)
<1>1. kept \subseteq AttributeEntry /\ attributes \in Seq(kept)
  BY ElementOfSeq, LenProperties, SeqOfRange DEF Range
<1>2. \A x \in kept : x.key \in own
  BY DEF KeysOf, ToSet, Range
<1>3. OfKeys(attributes, own) = FlatMap(keep, attributes)
  BY OfKeysLoops
<1>4. \A x \in kept : keep[x] = << x >>
  BY <1>1, <1>2 DEF keptOf
<1> HIDE DEF own, kept, keep
<1>5. FlatMap(keep, attributes) = attributes
  BY <1>1, <1>4, FlatMapCopies
<1>6. QED
  BY <1>3, <1>5 DEF own

(* filter.ApplyFilter drops an event only if nothing selects it; it keeps every
   field but the attributes and supplies what a selecting specification needs. *)
LEMMA ProjectionKeepsWhatIsNeeded ==
  ASSUME NEW e \in ProducerEvent, NEW f, Nil \notin ProducerEvent,
         NEW spec \in Selecting(f, e)
  PROVE  LET kept == ApplyFilter(e, f)
         IN  /\ kept \in ProducerEvent
             /\ kept = [e EXCEPT !.attributes = kept.attributes]
             /\ Supplies(kept.attributes, e.attributes, spec)
<1> DEFINE selecting == Selecting(f, e)
           trimmed == Trimmed(e, selecting)
           keys == MatchOf(spec).projectedAttributeKeys
           attributes == e.attributes
<1>1. ApplyFilter(e, f) = [e EXCEPT !.attributes = trimmed]
  BY DEF ApplyFilter
<1>2. attributes \in Seq(AttributeEntry)
  BY DEF ProducerEvent
<1>3. Needed(spec, attributes) = {key \in KeysOf(attributes) : keys = {} \/ key \in keys}
  BY DEF Needed, KeysOf
<1>4. trimmed \in Seq(AttributeEntry) /\ Supplies(trimmed, attributes, spec)
  <2>1. CASE ProjectAll(selecting)
    <3>1. trimmed = attributes
      BY <2>1 DEF Trimmed
    <3>2. Needed(spec, attributes) \subseteq KeysOf(attributes)
      BY <1>3
    <3>3. OfKeys(attributes, KeysOf(attributes)) = attributes
      BY <1>2, OfAllKeys
    <3>4. QED
      BY <1>2, <3>1, <3>2, <3>3 DEF Supplies, KeysOf
  <2>2. CASE ~ ProjectAll(selecting)
    <3> DEFINE all == ProjectedKeys(selecting)
    <3>1. trimmed = OfKeys(attributes, all)
      BY <2>2 DEF Trimmed
    <3>2. keys # {} /\ keys \subseteq all
      BY <2>2 DEF ProjectAll, ProjectedKeys
    <3> HIDE DEF all, trimmed, keys, attributes
    <3>3. KeysOf(trimmed) = KeysOf(attributes) \cap all /\ trimmed \in Seq(AttributeEntry)
      BY <1>2, <3>1, OfKeysKeeps
    <3>4. Needed(spec, attributes) \subseteq KeysOf(trimmed)
      BY <1>3, <3>2, <3>3
    <3>5. OfKeys(attributes, KeysOf(trimmed)) = trimmed
      <4>1. KeysOf(attributes) \cap KeysOf(trimmed) = KeysOf(attributes) \cap all
        BY <3>3
      <4>2. QED
        BY <1>2, <3>1, <4>1, OfKeysAgrees
    <3>6. QED
      BY <3>3, <3>4, <3>5 DEF Supplies, KeysOf
  <2>3. QED
    BY <2>1, <2>2
<1> HIDE DEF trimmed
<1>5. /\ ApplyFilter(e, f) \in ProducerEvent
      /\ ApplyFilter(e, f).attributes = trimmed
  BY <1>1, <1>4 DEF ProducerEvent
<1>6. QED
  BY <1>1, <1>4, <1>5

(* A dropped event is one nothing selects. *)
LEMMA DroppedIsUnselected ==
  ASSUME NEW e \in ProducerEvent, NEW f, Nil \notin ProducerEvent, ApplyFilter(e, f) = Nil
  PROVE  Selecting(f, e) = {}
<1>1. SUFFICES ASSUME NEW spec \in Selecting(f, e) PROVE FALSE
  OBVIOUS
<1>2. ApplyFilter(e, f) \in ProducerEvent
  BY ProjectionKeepsWhatIsNeeded
<1>3. QED
  BY <1>2

(* Whether a specification enforces an event depends on its kind only. *)
LEMMA EnforcementIsByKind ==
  ASSUME NEW f, NEW d, NEW e, KindOf(d) = KindOf(e)
  PROVE  Enforcing(f, d) = Enforcing(f, e)
BY DEF Enforcing, Selects

(* The gate of a projected event enforces what it would of the whole event. *)
LEMMA EnforcementIgnoresProjection ==
  ASSUME NEW e \in ProducerEvent, NEW f, Nil \notin ProducerEvent,
         NEW g, ApplyFilter(e, g) # Nil
  PROVE  Enforcing(f, ApplyFilter(e, g)) = Enforcing(f, e)
<1>1. PICK spec \in Selecting(g, e) : TRUE
  BY DEF ApplyFilter
<1>2. /\ ApplyFilter(e, g) \in ProducerEvent
      /\ ApplyFilter(e, g) = [e EXCEPT !.attributes = ApplyFilter(e, g).attributes]
  BY <1>1, ProjectionKeepsWhatIsNeeded
<1>3. ApplyFilter(e, g).kind = e.kind
  BY <1>2 DEF ProducerEvent
<1>4. KindOf(ApplyFilter(e, g)) = KindOf(e)
  BY <1>2, <1>3 DEF KindOf, OrZero
<1>5. QED
  BY <1>4, EnforcementIsByKind

LEMMA ApplyFilterType ==
  ASSUME NEW e \in ProducerEvent, NEW f, Nil \notin ProducerEvent
  PROVE  ApplyFilter(e, f) \in ProducerEvent \cup {Nil}
<1>1. CASE Selecting(f, e) = {}
  BY <1>1 DEF ApplyFilter
<1>2. CASE Selecting(f, e) # {}
  BY <1>2, ProjectionKeepsWhatIsNeeded
<1>3. QED
  BY <1>1, <1>2

LEMMA PolicyContent ==
  ASSUME NEW p \in Policies \cup {Nil}
  PROVE  /\ Message(p) \in EventFilter \cup {Nil}
         /\ Store!epochOf(p) \in Nat \cup {Nil}
         /\ HasPolicy(p) => /\ Content[p].epoch = Store!epochOf(p)
                            /\ Content[p].epoch \in Nat
                            /\ Message(p) # Nil
<1>1. CASE p = Nil
  BY <1>1 DEF Message, HasPolicy, Store!epochOf
<1>2. CASE p \in Policies /\ p # Nil
  <2>1. Content[p] \in EventFilter /\ Content[p] # Nil
    BY <1>2, ProbeAssumption
  <2>2. Content[p].epoch \in Nat \cup {Nil}
    BY <2>1 DEF EventFilter
  <2>3. QED
    BY <1>2, <2>1, <2>2, ProbeAssumption
    DEF Message, HasPolicy, Store!epochOf
<1>3. QED
  BY <1>1, <1>2
-----------------------------------------------------------------------------
(* Inductive invariant: what the projection of each flow was computed from, how
   the flow ended, and which of its loads of the store agreed. *)
FlowInv(r) ==
  /\ stage[r] # "idle" => /\ event[r] \in ProducerEvent
                          /\ event[r].acknowledgedFilterEpoch = ack[r]
  /\ stage[r] = "stamped" =>
       /\ flow[r] = "stamped"
       /\ moved[r] \/ ack[r] = Store!epochOf(current)
  /\ stage[r] \in {"projected", "dropped", "unasked", "asked"} =>
       /\ projected[r] = ApplyFilter(event[r], Message(snapshot[r]))
       /\ moved[r] \/ ack[r] = Store!epochOf(snapshot[r])
       /\ flow[r] = "snapshot"
  /\ stage[r] = "projected" => replaced[r] \/ current = snapshot[r]
  /\ stage[r] = "dropped" => projected[r] = Nil
  /\ stage[r] = "unasked" =>
       ~(HasPolicy(policy[r]) /\ Enforcing(Message(policy[r]), projected[r]) # {})
  /\ stage[r] = "asked" =>
       /\ request[r].producerEvent = projected[r]
       /\ request[r].filterEpoch = ack[r] \/ moved[r] \/ replaced[r]

Inv == TypeOK /\ \A r \in Emitters : FlowInv(r)

(* A step of a setter that does not store touches no flow and no pointer. *)
LEMMA PushWithoutStoreKeeps ==
  ASSUME Inv, NEW s \in Setters,
         \/ \E f \in Policies \cup {Nil} : Store!SetCall(s, f)
         \/ Store!SetUnchanged(s)
         \/ Store!SetLoad(s),
         UNCHANGED flowVars
  PROVE  Inv'
<1> USE DEF Inv, TypeOK, Store!TypeOK, Store!Pointers, flowVars, Store!readVars
<1>1. /\ current' = current /\ moved' = moved
      /\ UNCHANGED <<flow, ack, snapshot, refresh>>
      /\ UNCHANGED <<stage, event, projected, policy, request, replaced>>
  BY DEF Store!SetCall, Store!SetUnchanged, Store!SetLoad
<1>2. TypeOK'
  <2>1. ASSUME NEW f \in Policies \cup {Nil}, Store!SetCall(s, f)
        PROVE  Store!TypeOK'
    BY <2>1 DEF Store!SetCall
  <2>2. CASE Store!SetUnchanged(s)
    BY <2>2 DEF Store!SetUnchanged
  <2>3. CASE Store!SetLoad(s)
    BY <2>3 DEF Store!SetLoad
  <2>4. Store!TypeOK'
    BY <2>1, <2>2, <2>3
  <2>5. QED
    BY <1>1, <2>4
<1>3. ASSUME NEW r \in Emitters PROVE FlowInv(r)'
  <2>1. FlowInv(r)
    OBVIOUS
  <2> HIDE DEF Inv, TypeOK, Store!TypeOK, Store!Pointers, flowVars, Store!readVars
  <2>2. QED
    BY <1>1, <2>1 DEF FlowInv, Message, HasPolicy, Store!epochOf
<1>4. QED
  BY <1>2, <1>3

(* A store moves the pointer under every flow, and each one knows. *)
LEMMA PushStoreKeeps ==
  ASSUME Inv, NEW s \in Setters, Store!SetStore(s),
         replaced' = [r \in Emitters |-> replaced[r] \/ stage[r] = "projected"],
         UNCHANGED <<stage, event, projected, policy, request>>
  PROVE  Inv'
<1> USE DEF Inv, TypeOK, Store!TypeOK, Store!Pointers, Store!SetStore, Store!readVars,
        Store!RecordStore
<1>1. UNCHANGED <<flow, ack, snapshot, refresh>>
  OBVIOUS
<1>2. TypeOK'
  <2>1. seen' \in [Setters -> SUBSET (Policies \cup {Nil})]
    OBVIOUS
  <2>2. moved' \in [Emitters -> BOOLEAN] /\ replaced' \in [Emitters -> BOOLEAN]
    OBVIOUS
  <2>3. QED
    BY <1>1, <2>1, <2>2
<1>3. ASSUME NEW r \in Emitters PROVE FlowInv(r)'
  <2>1. /\ moved'[r] = (moved[r] \/ flow[r] = "stamped")
        /\ replaced'[r] = (replaced[r] \/ stage[r] = "projected")
    OBVIOUS
  <2>2. FlowInv(r)
    OBVIOUS
  <2> HIDE DEF Inv
  <2>3. QED
    BY <1>1, <2>1, <2>2 DEF FlowInv, Message, HasPolicy, Store!epochOf
<1>4. QED
  BY <1>2, <1>3

(* What a step of one flow leaves of the others. *)
OthersKept(r) ==
  /\ current' = current
  /\ \A q \in Emitters \ {r} :
       /\ snapshot'[q] = snapshot[q] /\ flow'[q] = flow[q] /\ ack'[q] = ack[q]
       /\ moved'[q] = moved[q] /\ replaced'[q] = replaced[q]
       /\ stage'[q] = stage[q] /\ event'[q] = event[q]
       /\ projected'[q] = projected[q] /\ policy'[q] = policy[q]
       /\ request'[q] = request[q]

LEMMA OneFlow ==
  ASSUME Inv, NEW r \in Emitters, TypeOK', FlowInv(r)', OthersKept(r)
  PROVE  Inv'
<1>1. ASSUME NEW q \in Emitters \ {r} PROVE FlowInv(q)'
  <2>1. FlowInv(q)
    BY DEF Inv
  <2>2. QED
    BY <2>1 DEF FlowInv, OthersKept, Message, HasPolicy, Store!epochOf
<1>2. QED
  BY <1>1 DEF Inv

LEMMA StampType ==
  ASSUME NEW e \in ProducerEvent, NEW epoch \in Nat \cup {Nil}
  PROVE  LET stamped == [e EXCEPT !.acknowledgedFilterEpoch = epoch]
         IN  stamped \in ProducerEvent /\ stamped.acknowledgedFilterEpoch = epoch
BY DEF ProducerEvent

LEMMA ObserveKeeps ==
  ASSUME Inv, NEW r \in Emitters, NEW e \in Events, Observe(r, e)
  PROVE  Inv'
<1> USE DEF Inv, TypeOK, Store!TypeOK, Store!Pointers, Store!Epochs, Observe,
        Store!ReadEpoch, Store!setVars
<1> DEFINE epoch == Store!epochOf(current)
           stamped == [e EXCEPT !.acknowledgedFilterEpoch = epoch]
<1>1. epoch \in Nat \cup {Nil}
  BY PolicyContent
<1>2. stamped \in ProducerEvent /\ stamped.acknowledgedFilterEpoch = epoch
  <2> HIDE DEF epoch
  <2>1. e \in ProducerEvent
    BY ProbeAssumption
  <2>2. QED
    BY <1>1, <2>1, StampType
<1>3. /\ event' = [event EXCEPT ![r] = stamped]
      /\ ack' = [ack EXCEPT ![r] = epoch]
      /\ current' = current
  OBVIOUS
<1> HIDE DEF epoch, stamped
<1>4. TypeOK'
  <2>1. Store!TypeOK'
    BY <1>1, <1>3
  <2>2. event' \in [Emitters -> ProducerEvent \cup {Nil}]
    BY <1>2, <1>3
  <2>3. QED
    BY <2>1, <2>2
<1>5. OthersKept(r)
  BY <1>3 DEF OthersKept
<1>6. epoch' = epoch
  BY <1>3 DEF epoch, Store!epochOf
<1>7. FlowInv(r)'
  <2>1. /\ event'[r] = stamped /\ ack'[r] = epoch /\ stage'[r] = "stamped"
        /\ flow'[r] = "stamped"
    BY <1>3
  <2>2. Store!epochOf(current)' = epoch
    BY <1>3 DEF epoch, Store!epochOf
  <2> HIDE DEF Inv, Observe
  <2>3. QED
    BY <1>2, <2>1, <2>2 DEF FlowInv
<1>8. QED
  BY <1>4, <1>5, <1>7, OneFlow

LEMMA ProjectKeeps ==
  ASSUME Inv, NEW r \in Emitters, Project(r)
  PROVE  Inv'
<1> USE DEF Inv, TypeOK, Store!TypeOK, Store!Pointers, Project,
        Store!ReadFilter, Store!setVars
<1>1. FlowInv(r) /\ event[r] \in ProducerEvent
  BY DEF FlowInv
<1>2. ApplyFilter(event[r], Message(current)) \in ProducerEvent \cup {Nil}
  BY <1>1, ProbeAssumption, ApplyFilterType
<1>3. TypeOK'
  BY <1>2
<1>4. OthersKept(r)
  BY DEF OthersKept
<1>5. FlowInv(r)'
  <2>1. /\ snapshot'[r] = current /\ stage'[r] = "projected" /\ event'[r] = event[r]
        /\ flow'[r] = "snapshot" /\ ack'[r] = ack[r] /\ moved'[r] = moved[r]
        /\ current' = current /\ stage[r] = "stamped"
    OBVIOUS
  <2>2. projected'[r] = ApplyFilter(event[r], Message(current))
    OBVIOUS
  <2> HIDE DEF Inv, Project
  <2>3. QED
    BY <1>1, <2>1, <2>2 DEF FlowInv, Message, Store!epochOf
<1>6. QED
  BY <1>3, <1>4, <1>5, OneFlow

LEMMA DropKeeps ==
  ASSUME Inv, NEW r \in Emitters, Drop(r)
  PROVE  Inv'
<1> USE DEF Inv, TypeOK, Drop, storeVars
<1>1. TypeOK'
  BY DEF Store!TypeOK
<1>2. OthersKept(r)
  BY DEF OthersKept
<1>3. FlowInv(r)'
  BY DEF FlowInv, Message, Store!epochOf
<1>4. QED
  BY <1>1, <1>2, <1>3, OneFlow

(* The gate is entered with the snapshot, or with what the store holds now. *)
LEMMA EnterGateKeeps ==
  ASSUME Inv, NEW r \in Emitters, NEW p, p \in {snapshot[r], current}, EnterGate(r, p)
  PROVE  Inv'
<1> USE DEF Inv, TypeOK, EnterGate, storeVars
<1>0. p \in Policies \cup {Nil}
  BY DEF Store!TypeOK, Store!Pointers
<1>1. HasPolicy(p) => Content[p].epoch \in Nat /\ Content[p].epoch = Store!epochOf(p)
  BY <1>0, PolicyContent
<1>2. TypeOK'
  <2>1. Store!TypeOK'
    BY DEF Store!TypeOK
  <2>2. policy' \in [Emitters -> Policies \cup {Nil}]
    BY <1>0
  <2>3. projected[r] \in ProducerEvent \cup {Nil}
    OBVIOUS
  <2>4. CASE HasPolicy(p) /\ Enforcing(Message(p), projected[r]) # {}
    BY <1>1, <2>1, <2>2, <2>3, <2>4
  <2>5. CASE ~(HasPolicy(p) /\ Enforcing(Message(p), projected[r]) # {})
    BY <2>1, <2>2, <2>5
  <2>6. QED
    BY <2>4, <2>5
<1>3. OthersKept(r)
  BY DEF OthersKept
<1>4. FlowInv(r)'
  <2>1. FlowInv(r) /\ stage[r] = "projected"
    OBVIOUS
  <2>2. /\ policy'[r] = p /\ stage'[r] \in {"asked", "unasked"}
        /\ snapshot' = snapshot /\ event' = event /\ projected' = projected
        /\ ack' = ack /\ moved' = moved /\ replaced' = replaced /\ flow' = flow
        /\ stage'[r] = "asked" => /\ request'[r].producerEvent = projected[r]
                                  /\ request'[r].filterEpoch = Store!epochOf(p)
        /\ stage'[r] = "unasked" =>
             ~(HasPolicy(p) /\ Enforcing(Message(p), projected[r]) # {})
    BY <1>1
  <2> HIDE DEF Inv, EnterGate
  <2>3. QED
    BY <2>1, <2>2 DEF FlowInv, Message, HasPolicy, Store!epochOf
<1>5. QED
  BY <1>2, <1>3, <1>4, OneFlow

LEMMA BuildDecideRequestKeeps ==
  ASSUME Inv, NEW r \in Emitters, BuildDecideRequest(r)
  PROVE  Inv'
<1> USE DEF Inv, TypeOK, BuildDecideRequest, storeVars
<1>1. Store!epochOf(current) \in Nat \cup {Nil} /\ snapshot[r] \in Policies \cup {Nil}
  BY PolicyContent DEF Store!TypeOK, Store!Pointers
<1>2. TypeOK'
  BY <1>1 DEF Store!TypeOK
<1>3. OthersKept(r)
  BY DEF OthersKept
<1>4. FlowInv(r)'
  <2>1. FlowInv(r) /\ stage[r] = "projected"
    OBVIOUS
  <2>2. /\ policy'[r] = snapshot[r] /\ stage'[r] = "asked"
        /\ snapshot' = snapshot /\ event' = event /\ projected' = projected
        /\ ack' = ack /\ moved' = moved /\ replaced' = replaced /\ flow' = flow
        /\ request'[r].producerEvent = projected[r]
        /\ request'[r].filterEpoch = Store!epochOf(current)
    BY <1>1
  <2> HIDE DEF Inv, BuildDecideRequest
  <2>3. QED
    BY <2>1, <2>2 DEF FlowInv, Message, HasPolicy, Store!epochOf
<1>5. QED
  BY <1>2, <1>3, <1>4, OneFlow

LEMMA Invariance == Spec => []Inv
<1>1. Init => Inv
  BY DEF Init, Store!Init, Store!Pointers, Store!Epochs, Inv, TypeOK, Store!TypeOK, FlowInv
<1>2. Inv /\ [Next]_vars => Inv'
  <2> SUFFICES ASSUME Inv, [Next]_vars PROVE Inv'
    OBVIOUS
  <2>1. ASSUME NEW r \in Emitters, GateSnapshot(r) \/ GateReload(r) PROVE Inv'
    BY <2>1, EnterGateKeeps DEF GateSnapshot, GateReload
  <2>2. CASE UNCHANGED vars
    BY <2>2 DEF vars, storeVars, flowVars, Inv, TypeOK, Store!TypeOK, FlowInv, Message,
       HasPolicy, Store!epochOf
  <2>3. ASSUME NEW s \in Setters, Push(s) PROVE Inv'
    BY <2>3, PushWithoutStoreKeeps, PushStoreKeeps DEF Push
  <2>4. QED
    BY <2>1, <2>2, <2>3, ObserveKeeps, ProjectKeeps, DropKeeps,
       BuildDecideRequestKeeps DEF Next
<1>3. QED
  BY <1>1, <1>2, PTL DEF Spec

-----------------------------------------------------------------------------
(* A flow that got past its projection holds what that left of its event. *)
LEMMA FlowsHoldProjections ==
  ASSUME Inv, NEW r \in Emitters, stage[r] \in {"dropped", "unasked", "asked"}
  PROVE  /\ event[r] \in ProducerEvent
         /\ Nil \notin ProducerEvent
         /\ projected[r] = ApplyFilter(event[r], Message(snapshot[r]))
BY ProbeAssumption DEF Inv, FlowInv

(* The endpoint is sent what each specification that enforces the event, and that
   the projection knew, needs, whatever is pushed meanwhile. *)
THEOREM EndpointSees == Spec => []EndpointSeesWhatItNeeds
<1>1. Inv => EndpointSeesWhatItNeeds
  <2> SUFFICES ASSUME Inv, NEW r \in Emitters, stage[r] = "asked",
                      NEW spec \in Enforcing(Message(policy[r]), event[r]) \cap Projecting(r)
               PROVE  LET sent == request[r].producerEvent
                      IN  /\ sent # Nil
                          /\ sent = [event[r] EXCEPT !.attributes = sent.attributes]
                          /\ Supplies(sent.attributes, event[r].attributes, spec)
    BY DEF EndpointSeesWhatItNeeds
  <2>1. /\ event[r] \in ProducerEvent /\ Nil \notin ProducerEvent
        /\ projected[r] = ApplyFilter(event[r], Message(snapshot[r]))
    BY FlowsHoldProjections
  <2>2. spec \in Selecting(Message(snapshot[r]), event[r])
    BY DEF Enforcing, Selecting, Projecting
  <2>3. request[r].producerEvent = ApplyFilter(event[r], Message(snapshot[r]))
    BY <2>1 DEF Inv, FlowInv
  <2>4. QED
    BY <2>1, <2>2, <2>3, ProjectionKeepsWhatIsNeeded
<1>2. QED
  BY <1>1, Invariance, PTL

(* Nothing proceeds unasked that its projection knew to be enforced, or that the
   projection left anything of. *)
THEOREM UnaskedIsUnenforced == Spec => []UnaskedMeansUnenforced
<1>1. ASSUME Inv, NEW r \in Emitters, stage[r] = "dropped"
      PROVE  Enforcing(Message(snapshot[r]), event[r]) = {}
  <2>1. projected[r] = Nil
    BY <1>1 DEF Inv, FlowInv
  <2>2. Selecting(Message(snapshot[r]), event[r]) = {}
    BY <1>1, <2>1, FlowsHoldProjections, DroppedIsUnselected
  <2>3. QED
    BY <2>2 DEF Selecting, Enforcing
<1>2. ASSUME Inv, NEW r \in Emitters, stage[r] = "unasked", HasPolicy(policy[r]),
             NEW spec \in Enforcing(Message(policy[r]), event[r])
      PROVE  spec \notin Projecting(r) /\ projected[r] = Nil
  <2>1. /\ event[r] \in ProducerEvent /\ Nil \notin ProducerEvent
        /\ projected[r] = ApplyFilter(event[r], Message(snapshot[r]))
    BY <1>2, FlowsHoldProjections
  <2>2. Enforcing(Message(policy[r]), projected[r]) = {}
    BY <1>2 DEF Inv, FlowInv
  <2>3. projected[r] = Nil
    BY <1>2, <2>1, <2>2, EnforcementIgnoresProjection
  <2>4. Selecting(Message(snapshot[r]), event[r]) = {}
    BY <2>1, <2>3, DroppedIsUnselected
  <2>5. Selects(spec, event[r])
    BY <1>2 DEF Enforcing
  <2>6. QED
    BY <2>3, <2>4, <2>5 DEF Selecting, Projecting
<1>3. Inv => UnaskedMeansUnenforced
  BY <1>1, <1>2 DEF UnaskedMeansUnenforced
<1>4. QED
  BY <1>3, Invariance, PTL

(* Only a push makes the epochs of an event and of its request disagree. *)
THEOREM EpochsAgree == Spec => []OneEpochUnlessPushed
<1>1. Inv => OneEpochUnlessPushed
  <2> SUFFICES ASSUME Inv, NEW r \in Emitters, stage[r] = "asked"
               PROVE  LET sent == request[r].producerEvent
                      IN  /\ request[r].filterEpoch = ack[r] \/ moved[r] \/ replaced[r]
                          /\ sent # Nil => sent.acknowledgedFilterEpoch = ack[r]
    BY DEF OneEpochUnlessPushed
  <2>1. /\ event[r] \in ProducerEvent
        /\ event[r].acknowledgedFilterEpoch = ack[r]
        /\ request[r].producerEvent = ApplyFilter(event[r], Message(snapshot[r]))
        /\ request[r].filterEpoch = ack[r] \/ moved[r] \/ replaced[r]
    BY DEF Inv, FlowInv
  <2>2. CASE Selecting(Message(snapshot[r]), event[r]) = {}
    BY <2>1, <2>2 DEF ApplyFilter
  <2>3. CASE Selecting(Message(snapshot[r]), event[r]) # {}
    <3> DEFINE sent == request[r].producerEvent
    <3>1. sent = [event[r] EXCEPT !.attributes = sent.attributes]
      <4>1. PICK spec \in Selecting(Message(snapshot[r]), event[r]) : TRUE
        BY <2>3
      <4> DEFINE kept == ApplyFilter(event[r], Message(snapshot[r]))
      <4>2. event[r] \in ProducerEvent /\ Nil \notin ProducerEvent
        BY <2>1, ProbeAssumption
      <4>3. kept = [event[r] EXCEPT !.attributes = kept.attributes]
        BY <4>1, <4>2, ProjectionKeepsWhatIsNeeded
      <4>4. sent = kept
        BY <2>1
      <4> HIDE DEF kept, sent
      <4>5. QED
        BY <4>3, <4>4
    <3>2. sent.acknowledgedFilterEpoch = ack[r]
      BY <2>1, <3>1 DEF ProducerEvent
    <3>3. QED
      BY <2>1, <3>2
  <2>4. QED
    BY <2>2, <2>3
<1>2. QED
  BY <1>1, Invariance, PTL
-----------------------------------------------------------------------------
(* The store of a Probe at work is FilterStore's: every step of a flow or a push
   is one of FilterStore's steps or leaves the store alone. *)
THEOREM ProbeUsesTheStore == Spec => Store!Spec
<1>1. Init => Store!Init
  BY DEF Init
<1>2. [Next]_vars => [Store!Next]_(Store!vars)
  <2> SUFFICES ASSUME [Next]_vars PROVE [Store!Next]_(Store!vars)
    OBVIOUS
  <2>1. ASSUME UNCHANGED storeVars PROVE UNCHANGED Store!vars
    BY <2>1 DEF storeVars, Store!vars, Store!setVars, Store!readVars
  <2>2. ASSUME NEW s \in Setters, Push(s) PROVE Store!Next
    BY <2>2 DEF Push, Store!Next, Store!Pointers
  <2>3. ASSUME NEW r \in Emitters, NEW e \in Events, Observe(r, e) PROVE Store!Next
    BY <2>3 DEF Observe, Store!Next
  <2>4. ASSUME NEW r \in Emitters, Project(r) PROVE Store!Next
    BY <2>4 DEF Project, Store!Next
  <2>5. QED
    BY <2>1, <2>2, <2>3, <2>4
    DEF Next, Drop, GateSnapshot, GateReload, EnterGate, BuildDecideRequest, vars
<1>3. QED
  BY <1>1, <1>2, PTL DEF Spec, Store!Spec

(* The same store, with the theorems of FilterStoreProofs about it. *)
StoreFacts == INSTANCE FilterStoreProofs WITH
  Readers <- Emitters, Filters <- Policies, InitialFilter <- Nil,
  DeclaredEpoch <- [p \in Policies |-> Content[p].epoch], Announcements <- {}

LEMMA StoreFactsAreOfTheStore == Store!Spec => StoreFacts!Spec
<1>1. Store!Init => StoreFacts!Init
  BY DEF Store!Init, StoreFacts!Init
<1>2. [Store!Next]_(Store!vars) => [StoreFacts!Next]_(StoreFacts!vars)
  BY DEF Store!Next, StoreFacts!Next, Store!vars, StoreFacts!vars,
         Store!setVars, StoreFacts!setVars, Store!readVars, StoreFacts!readVars,
         Store!SetCall, StoreFacts!SetCall, Store!SetLoad, StoreFacts!SetLoad,
         Store!SetUnchanged, StoreFacts!SetUnchanged, Store!SetStore, StoreFacts!SetStore,
         Store!RecordStore, StoreFacts!RecordStore, Store!Pointers, StoreFacts!Pointers,
         Store!ReadEpoch, StoreFacts!ReadEpoch, Store!ReadFilter, StoreFacts!ReadFilter,
         Store!ShouldRefresh, StoreFacts!ShouldRefresh,
         Store!NeedsRefresh, StoreFacts!NeedsRefresh,
         Store!UnchangedBy, StoreFacts!UnchangedBy,
         Store!equalEpoch, StoreFacts!equalEpoch, Store!epochOf, StoreFacts!epochOf
<1>3. QED
  BY <1>1, <1>2, PTL DEF Store!Spec, StoreFacts!Spec

(* FilterStore's assumption of the filters, from what ProbeAssumption says of the
   messages they point to. *)
LEMMA PoliciesAreFilters ==
  /\ Nil \notin Policies
  /\ Nil \notin Nat
  /\ [p \in Policies |-> Content[p].epoch] \in [Policies -> Nat \cup {Nil}]
  /\ Nil \in Policies \cup {Nil}
  /\ {} \subseteq Nat \cup {Nil}
BY ProbeAssumption DEF EventFilter

(* What is proved of FilterStore holds while flows run: a push answers what was
   true of the store at some moment of that call, it replaces a filter of the same
   epoch only in a race, and a flow's stamp is the epoch of the snapshot it
   projects under unless a push landed between the two. *)
THEOREM ProbeStoreIsTrue ==
  Spec => /\ []StoreFacts!ReplyIsTrueOfTheCall
          /\ StoreFacts!RedundantSwapNeedsRace
          /\ []StoreFacts!StampMatchesSnapshot
<1>1. StoreFacts!Spec => []StoreFacts!ReplyIsTrueOfTheCall
  BY PoliciesAreFilters, StoreFacts!RepliesAreTrue
<1>2. StoreFacts!Spec => StoreFacts!RedundantSwapNeedsRace
  BY PoliciesAreFilters, StoreFacts!RedundantSwapsAreRaces
<1>3. StoreFacts!Spec => []StoreFacts!StampMatchesSnapshot
  BY PoliciesAreFilters, StoreFacts!StampsMatch
<1>4. QED
  BY <1>1, <1>2, <1>3, ProbeUsesTheStore, StoreFactsAreOfTheStore, PTL

(* With one pushing goroutine, what the flows of a Probe see is EpochStore: a push
   in a single step. *)
THEOREM OnePusherServesFlowsAtomically ==
  StoreFacts!OnePusher => (Spec => StoreFacts!ImplementsEpochStore)
<1>1. StoreFacts!OnePusher => (StoreFacts!Spec => StoreFacts!ImplementsEpochStore)
  BY PoliciesAreFilters, StoreFacts!OnePusherIsAtomic
<1>2. QED
  BY <1>1, ProbeUsesTheStore, StoreFactsAreOfTheStore, PTL
=============================================================================
