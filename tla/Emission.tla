------------------------------ MODULE Emission ------------------------------
(***************************************************************************)
(* emission/spantoevent.go: ended spans become ProducerEvents.  A trace of *)
(* spans runs in the host; each span names its causal predecessors by the  *)
(* event identifiers its producer threads through attributes, the child's  *)
(* own for its parent and each link's own for the target of the link       *)
(* (emission/doc.go, the producer contract), or by nothing it can use.     *)
(* Spans are converted as they end, in any order: an event may be shipped  *)
(* before those it names.                                                  *)
(*                                                                         *)
(* An attribute.Value is its type, what a leaf holds, and the items of a   *)
(* slice or a map; an AttributeValue is its oneof arm and likewise.        *)
(***************************************************************************)
EXTENDS Int128Codec, SequencesExt

CONSTANTS
  Spans,      \* the span identifiers of a trace
  Remote,     \* a span of another process, started before all of these
  EventId,    \* the event identifier each span's producer assigned
  Recording,  \* name, start and domain attributes of each span
  Values,     \* the attribute.Values that occur
  Conversion, \* the rest of each span's SpanConversion
  Depth,      \* how deep each value and each message is nested
  MaxLinks    \* bound: the links each span may be given

(* SpanID().String() of the zero identifier. *)
InvalidSpanID == "0000000000000000"

(* A SpanContext: a span identifier, and whether it has a trace identifier too,
   without either of which it is not valid. *)
SpanContext == [ spanId : STRING, traced : BOOLEAN ]
IsValid(context) == context.traced /\ context.spanId # InvalidSpanID

(* What becomes of the context of t on its way into the process that names it. *)
Journeys == {"whole", "untraced", "lost"}
ContextOf(t, journey) ==
  [ spanId |-> IF journey = "lost" THEN InvalidSpanID ELSE t, traced |-> journey = "whole" ]

AttributeEventID == "sentinel.event.id"
AttributeParentEventID == "sentinel.parent.event.id"
Reserved == {AttributeEventID, AttributeParentEventID}

LeafTypes == {"STRING", "BOOL", "INT64", "FLOAT64", "BYTESLICE"}
SliceTypes == {"BOOLSLICE", "INT64SLICE", "FLOAT64SLICE", "STRINGSLICE", "SLICE"}
(* EMPTY, and the types of a later OpenTelemetry: no arm to put them in. *)
Skipped == {"EMPTY", "UNKNOWN"}
Types == LeafTypes \cup SliceTypes \cup Skipped \cup {"MAP"}

SpanConversion ==
  [ eventId : STRING, sequence : SequenceCoordinate \cup {Nil}, schemaVersion : STRING,
    acknowledgedEpoch : Nat \cup {Nil},
    claimedCapabilities : SUBSET SourceCapabilities, claimedSensitivity : Sensitivities ]

(* An attribute.KeyValue and an attribute.Value, the items of a slice without keys;
   and an attribute a host may record, for the reserved keys are the producer's. *)
KeyValue == [ key : STRING, value : Values ]
Value == [ type : Types, leaf : STRING, items : Seq(KeyValue) ]
DomainAttribute == [ key : STRING \ Reserved, value : Values ]

Leaf(type, leaf) == [ type |-> type, leaf |-> leaf, items |-> <<>> ]

(* These literals are strings, which provers do not know. *)
ASSUME LiteralAssumption ==
  {"", "unix", "parent", "link", InvalidSpanID} \cup Reserved \subseteq STRING

(* What the Go types of the arguments say. *)
ASSUME EmissionAssumption ==
  /\ Spans \cup {Remote} \subseteq STRING \ {InvalidSpanID}
  /\ Remote \notin Spans
  /\ EventId \in [Spans \cup {Remote} -> STRING]
  /\ Values \subseteq Value
  /\ Nil \notin Values \cup STRING
  /\ {Leaf(type, EventId[s]) : type \in {"STRING", "INT64"}, s \in Spans \cup {Remote}}
       \subseteq Values
  /\ \A s \in Spans :
       /\ Recording[s].name \in STRING
       /\ Recording[s].start \in Time
       /\ Recording[s].attributes \in Seq(DomainAttribute)
       /\ Conversion[s] \in SpanConversion

(* Values and messages are finite trees. *)
ASSUME TreeAssumption ==
  /\ AttributeValues \subseteq AttributeValue /\ Nil \notin AttributeValue
  /\ Depth \in [ Values \cup AttributeValues -> Nat ]
  /\ \A v \in Values : \A i \in DOMAIN v.items : Depth[v.items[i].value] < Depth[v]
  /\ \A m \in AttributeValues :
       /\ \A i \in DOMAIN m.values : Depth[m.values[i]] < Depth[m]
       /\ \A i \in DOMAIN m.entries :
            m.entries[i].value # Nil /\ Depth[m.entries[i].value] < Depth[m]

VARIABLES
  phase,    \* of each span: "idle", "running", "ended" or "converted"
  span,     \* what each span recorded, as its ReadOnlySpan shows it, or Nil
  event,    \* the ProducerEvent of each converted span, or Nil
  reports,  \* the calls of OnMalformedLink during each conversion
  edges     \* history: the predecessors each producer meant, and how it put it

vars == <<phase, span, event, reports, edges>>

-----------------------------------------------------------------------------
ZeroAttributeValue == [ arm |-> "", leaf |-> "", values |-> <<>>, entries |-> <<>> ]

ArmOf ==
  [ STRING |-> "string_value", BOOL |-> "bool_value", INT64 |-> "integer_value",
    FLOAT64 |-> "double_value", BYTESLICE |-> "bytes_value" ]

arrayValue(values) ==
  [ ZeroAttributeValue EXCEPT !.arm = "array_value", !.values = values ]

mapOf(entries) ==
  [ ZeroAttributeValue EXCEPT !.arm = "map_value", !.entries = entries ]

EntryOf(key, value) ==
  [ ZeroAttributeEntry EXCEPT !.key = key, !.value = value ]

(* What a round of a loop appends: a value, or nothing for Nil. *)
Appended(item, value) == IF value = Nil THEN <<>> ELSE << item >>

(* mapValue: by type, never by value; Nil for the types skipped. *)
mapValue[v \in Values] ==
  IF v.type \in LeafTypes
  THEN [ ZeroAttributeValue EXCEPT !.arm = ArmOf[v.type], !.leaf = v.leaf ]
  ELSE IF v.type \in SliceTypes
  THEN arrayValue(FlattenSeq([ i \in DOMAIN v.items |->
         Appended(mapValue[v.items[i].value], mapValue[v.items[i].value]) ]))
  ELSE IF v.type = "MAP"
  THEN mapOf(FlattenSeq([ i \in DOMAIN v.items |->
         Appended(EntryOf(v.items[i].key, mapValue[v.items[i].value]),
                  mapValue[v.items[i].value]) ]))
  ELSE Nil

(* Of the messages that occur are those mapValue makes. *)
ASSUME MappedAssumption ==
  \A v \in Values : mapValue[v] \in AttributeValues \cup {Nil}

(* A slip: one reserved key shipped as a domain attribute. *)
mapAttributesOwnId(attributes) ==
  FlattenSeq([ i \in DOMAIN attributes |->
    IF attributes[i].key = AttributeParentEventID THEN <<>>
    ELSE Appended(EntryOf(attributes[i].key, mapValue[attributes[i].value]),
                  mapValue[attributes[i].value]) ])

mapAttributes(attributes) ==
  FlattenSeq([ i \in DOMAIN attributes |->
    IF attributes[i].key \in Reserved THEN <<>>
    ELSE Appended(EntryOf(attributes[i].key, mapValue[attributes[i].value]),
                  mapValue[attributes[i].value]) ])

(* The value of the first attribute of that key, or Nil. *)
valueOf(attributes, key) ==
  LET found == {i \in DOMAIN attributes : attributes[i].key = key}
  IN  IF found = {} THEN Nil ELSE attributes[Min(found)].value

(* A slip: a reserved attribute of any type read as a string. *)
stringAttributeUntyped(attributes, key) ==
  LET value == valueOf(attributes, key)
  IN  IF value = Nil THEN Nil ELSE value.leaf

(* stringAttribute: what it holds, if it is a string; Nil for false. *)
stringAttribute(attributes, key) ==
  LET value == valueOf(attributes, key)
  IN  IF value = Nil \/ value.type # "STRING" THEN Nil ELSE value.leaf

(* An edge as collectCausalPredecessors sees it: the predecessor to append and
   the source to report, Nil for none. *)
Edge(id, fallback, source) ==
  IF id # Nil THEN [ predecessor |-> id, source |-> Nil ]
  ELSE [ predecessor |-> fallback, source |-> source ]

(* A slip: an unusable parent that nobody is told of. *)
ParentEdgeSilent(sp) ==
  LET id == stringAttribute(sp.attributes, AttributeParentEventID)
  IN  IF id = Nil /\ ~IsValid(sp.parent) THEN <<>>
      ELSE << Edge(id, sp.parent.spanId, Nil) >>

(* The parent: by the child's attribute, or by a valid parent context. *)
ParentEdge(sp) ==
  LET id == stringAttribute(sp.attributes, AttributeParentEventID)
  IN  IF id = Nil /\ ~IsValid(sp.parent) THEN <<>>
      ELSE << Edge(id, sp.parent.spanId, "parent") >>

(* The links: each by its own attributes, or by its context, valid or not. *)
LinkEdges(sp) ==
  [ i \in DOMAIN sp.links |->
      Edge(stringAttribute(sp.links[i].attributes, AttributeEventID),
           sp.links[i].context.spanId, "link") ]

collected(sp) == ParentEdge(sp) \o LinkEdges(sp)

(* The events' predecessors, and the calls of the host's OnMalformedLink. *)
Predecessors(sp) == [ i \in DOMAIN collected(sp) |-> collected(sp)[i].predecessor ]
Reports(sp) ==
  FlattenSeq([ i \in DOMAIN collected(sp) |->
    Appended(<< collected(sp)[i].source, collected(sp)[i].predecessor >>,
             collected(sp)[i].source) ])

BuildOccurrenceTime(sp) ==
  [ clockDomainId |-> "unix",
    nanoseconds |-> FromBigInt(TimeToNanoseconds(sp.start)),
    uncertaintyNanoseconds |-> 0 ]

SpanToEvent(conversion, sp) ==
  [ id |-> conversion.eventId,
    sequence |-> conversion.sequence,
    schemaVersion |-> conversion.schemaVersion,
    acknowledgedFilterEpoch |-> conversion.acknowledgedEpoch,
    kind |-> sp.name,
    occurrenceTime |-> BuildOccurrenceTime(sp),
    attributes |-> mapAttributes(sp.attributes),
    claimedCapabilities |-> conversion.claimedCapabilities,
    claimedSensitivity |-> conversion.claimedSensitivity,
    causalPredecessorIds |-> Predecessors(sp) ]

-----------------------------------------------------------------------------
Init ==
  /\ phase = [s \in Spans |-> "idle"]
  /\ span = [s \in Spans |-> Nil]
  /\ event = [s \in Spans |-> Nil]
  /\ reports = [s \in Spans |-> <<>>]
  /\ edges = [s \in Spans |-> <<>>]

(* The spans another one may name: started, or another process's. *)
Known == {s \in Spans : phase[s] # "idle"} \cup {Remote}

(* How a producer threads the identifier of t under a reserved key. *)
Threadings == {"threaded", "absent", "mistyped"}
Threaded(key, t, how) ==
  IF how = "absent" THEN <<>>
  ELSE << [ key |-> key,
            value |-> Leaf(IF how = "threaded" THEN "STRING" ELSE "INT64", EventId[t]) ] >>

(* A root span starts, with nothing to name. *)
StartRoot(s) ==
  /\ phase[s] = "idle"
  /\ phase' = [phase EXCEPT ![s] = "running"]
  /\ span' = [span EXCEPT ![s] =
       [ name |-> Recording[s].name, start |-> Recording[s].start,
         parent |-> ContextOf(s, "lost"), links |-> <<>>,
         attributes |-> Threaded(AttributeEventID, s, "threaded")
                        \o Recording[s].attributes ]]
  /\ UNCHANGED <<event, reports, edges>>

(* A child of t starts; the context of t, or its identifier, may be lost. *)
StartChild(s, t, journey, how) ==
  /\ phase[s] = "idle"
  /\ journey # "lost" \/ how # "absent"
  /\ phase' = [phase EXCEPT ![s] = "running"]
  /\ span' = [span EXCEPT ![s] =
       [ name |-> Recording[s].name, start |-> Recording[s].start,
         parent |-> ContextOf(t, journey), links |-> <<>>,
         attributes |-> Threaded(AttributeEventID, s, "threaded")
                        \o Recording[s].attributes
                        \o Threaded(AttributeParentEventID, t, how) ]]
  /\ edges' = [edges EXCEPT ![s] =
       << [ source |-> "parent", target |-> t, journey |-> journey, how |-> how ] >>]
  /\ UNCHANGED <<event, reports>>

(* A running span is linked to a span that has started. *)
AddLink(s, t, journey, how) ==
  /\ phase[s] = "running"
  /\ Len(span[s].links) < MaxLinks[s]
  /\ span' = [span EXCEPT ![s].links = Append(@,
       [ context |-> ContextOf(t, journey),
         attributes |-> Threaded(AttributeEventID, t, how) ])]
  /\ edges' = [edges EXCEPT ![s] = Append(@,
       [ source |-> "link", target |-> t, journey |-> journey, how |-> how ])]
  /\ UNCHANGED <<phase, event, reports>>

EndSpan(s) ==
  /\ phase[s] = "running"
  /\ phase' = [phase EXCEPT ![s] = "ended"]
  /\ UNCHANGED <<span, event, reports, edges>>

(* ToEvent: the host's span processor converts an ended span. *)
Convert(s) ==
  /\ phase[s] = "ended"
  /\ phase' = [phase EXCEPT ![s] = "converted"]
  /\ event' = [event EXCEPT ![s] =
       SpanToEvent([ Conversion[s] EXCEPT !.eventId = EventId[s] ], span[s])]
  /\ reports' = [reports EXCEPT ![s] = Reports(span[s])]
  /\ UNCHANGED <<span, edges>>

Next ==
  \E s \in Spans :
    \/ StartRoot(s)
    \/ \E t \in Known \ {s}, journey \in Journeys, how \in Threadings :
         StartChild(s, t, journey, how) \/ AddLink(s, t, journey, how)
    \/ EndSpan(s)
    \/ Convert(s)

Spec == Init /\ [][Next]_vars

-----------------------------------------------------------------------------
converted(s) == phase[s] = "converted"

(* Events are messages of the schema: words in range, entries with a value. *)
TypeOK ==
  \A s \in Spans :
    /\ phase[s] \in {"idle", "running", "ended", "converted"}
    /\ converted(s) =>
         /\ event[s] \in ProducerEvent
         /\ event[s].occurrenceTime.nanoseconds.low < twoPow64
         /\ \A i \in DOMAIN event[s].attributes : event[s].attributes[i].value # Nil
    /\ ~converted(s) => event[s] = Nil

(* Whether the producer's edge gives SpanToEvent anything to name it by: a parent
   needs a whole context, but a link is named by any, be it the zero one. *)
Named(e) == e.how = "threaded" \/ e.journey = "whole" \/ e.source = "link"

(* The edges the producer meant of which something arrived. *)
Meant(s) ==
  FlattenSeq([ i \in DOMAIN edges[s] |->
    IF Named(edges[s][i]) THEN << edges[s][i] >> ELSE <<>> ])

spanIdOf(e) == ContextOf(e.target, e.journey).spanId

(* Every edge the producer meant is one predecessor, the parent first and the
   links in their order: by the event identifier where it was threaded, even an
   empty one, by the span identifier otherwise, and then reported once with its
   source and in the same order.  An edge of which nothing arrived is a root's
   (collectCausalPredecessors, stringAttribute). *)
EdgesArriveInOrder ==
  \A s \in Spans : converted(s) =>
    /\ event[s].causalPredecessorIds =
         [ i \in DOMAIN Meant(s) |-> IF Meant(s)[i].how = "threaded"
                                     THEN EventId[Meant(s)[i].target]
                                     ELSE spanIdOf(Meant(s)[i]) ]
    /\ reports[s] =
         FlattenSeq([ i \in DOMAIN Meant(s) |->
           IF Meant(s)[i].how = "threaded" THEN <<>>
           ELSE << << Meant(s)[i].source, spanIdOf(Meant(s)[i]) >> >> ])

(* An identifier a consumer of this event can join on: that of an event another
   span, already started, has been or will be converted into, or that its own
   process ships.  An empty one is nobody's. *)
Joinable(id, s) ==
  /\ id # ""
  /\ \E t \in Known \ {s} :
       /\ id = EventId[t]
       /\ t # Remote /\ converted(t) => event[t].id = id

(* An edge to a span that was assigned no identifier, threaded all the same. *)
NamesNobody(e) == e.how = "threaded" /\ EventId[e.target] = ""

(* Silence means joinable, but for what the producer left empty itself: of an
   event whose conversion reported nothing, every predecessor is joinable, or is
   the empty identifier of a span that was assigned none, which stringAttribute
   takes for an identifier and nobody is told of (collectCausalPredecessors,
   SpanConversion.OnMalformedLink; doc.go: a fallback is not joinable). *)
SilenceMeansJoinable ==
  \A s \in Spans : converted(s) /\ reports[s] = <<>> =>
    \A id \in ToSet(event[s].causalPredecessorIds) :
      Joinable(id, s) \/ (id = "" /\ \E e \in ToSet(edges[s]) : NamesNobody(e))

(* A value as it is read, from the outside in: a leaf under its arm, a slice or a
   map between its arm and its end, and in a map each item after its key.  The
   types skipped leave nothing, not even their key.  Walk is the reference, of what
   was recorded; ArrivedWalk reads what was shipped. *)
Enclosed(arm, tokens) == << <<arm, "">> >> \o tokens \o << <<"end", "">> >>
Keyed(key, tokens) == IF tokens = <<>> THEN <<>> ELSE << <<"key", key>> >> \o tokens

Walk[v \in Values] ==
  IF v.type \in LeafTypes THEN << << ArmOf[v.type], v.leaf >> >>
  ELSE IF v.type \in Skipped THEN <<>>
  ELSE IF v.type = "MAP"
  THEN Enclosed("map_value", FlattenSeq([ i \in DOMAIN v.items |->
         Keyed(v.items[i].key, Walk[v.items[i].value]) ]))
  ELSE Enclosed("array_value", FlattenSeq([ i \in DOMAIN v.items |->
         Walk[v.items[i].value] ]))

ArrivedWalk[m \in AttributeValues] ==
  IF m.arm = "array_value"
  THEN Enclosed(m.arm, FlattenSeq([ i \in DOMAIN m.values |-> ArrivedWalk[m.values[i]] ]))
  ELSE IF m.arm = "map_value"
  THEN Enclosed(m.arm, FlattenSeq([ i \in DOMAIN m.entries |->
         Keyed(m.entries[i].key, ArrivedWalk[m.entries[i].value]) ]))
  ELSE << << m.arm, m.leaf >> >>

(* What a span recorded about its domain is what its event carries: its attributes
   in their order and none twice, each leaf under the arm of its own type, each
   slice and map as deep and in the order it was, a map's keys with it, whatever
   they are, without what is skipped, and nothing of the causal metadata the
   producer stored beside it (mapAttributes, mapValue). *)
AttributesArrive ==
  \A s \in Spans : converted(s) =>
    LET shipped == event[s].attributes
        recorded == Recording[s].attributes
    IN  FlattenSeq([ i \in DOMAIN shipped |->
          Keyed(shipped[i].key, ArrivedWalk[shipped[i].value]) ])
        = FlattenSeq([ i \in DOMAIN recorded |->
            Keyed(recorded[i].key, Walk[recorded[i].value]) ])

(* The time of an event is the start of its span, before the epoch or beyond the
   range of a word, so events are ordered as their spans started whatever the
   order they were converted in: the two words decode to the time that was
   encoded (int128.go, BuildOccurrenceTime). *)
TimesArrive ==
  \A s \in Spans : converted(s) =>
    ToBigInt(event[s].occurrenceTime.nanoseconds) = TimeToNanoseconds(Recording[s].start)
=============================================================================
