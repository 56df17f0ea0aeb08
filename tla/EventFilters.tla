---------------------------- MODULE EventFilters ----------------------------
(***************************************************************************)
(* The predicates shared by projection and enforcement: internal/specmatch,*)
(* filter.ApplyFilter, and the helpers of enforcement/gate.go that look at *)
(* specifications.  Messages has the messages they read.                   *)
(***************************************************************************)
EXTENDS Messages, SequencesExt

(* GetEventMatch, whose fields are then read through getters. *)
MatchOf(spec) == OrZero(spec.eventMatch, ZeroEventMatch)

(* GetKind: "" on a missing event. *)
KindOf(event) == OrZero(event, ZeroProducerEvent).kind

(* A slip: a specification that lists no kind selects nothing. *)
SelectsListedOnly(spec, event) == KindOf(event) \in MatchOf(spec).eventKinds

(* specmatch.Selects: no kinds listed, or no match at all, is every event. *)
Selects(spec, event) ==
  MatchOf(spec).eventKinds = {} \/ KindOf(event) \in MatchOf(spec).eventKinds

-----------------------------------------------------------------------------
(* enforcement/gate.go *)

isEnforceable(spec) ==
  /\ MatchOf(spec).deliveryMode = "ASK_AND_BLOCK"
  /\ spec.evaluationMode = "ENFORCE"
  /\ spec.readiness = "ACTIVE"

(* The enforcing set of Gate, empty for a nil filter. *)
Enforcing(filter, event) ==
  {spec \in OrZero(filter, ZeroEventFilter).specifications :
     Selects(spec, event) /\ isEnforceable(spec)}

(* A slip: requiring every specification to be fail-closed. *)
aggregateFailModeOfAll(enforcing, accepted) ==
  IF \A spec \in enforcing : spec.failMode = "CLOSED" /\ spec \in accepted
  THEN "CLOSED" ELSE "OPEN"

(* A slip: every specification that declares CLOSED blocks, agreed to or not. *)
aggregateFailModeDeclared(enforcing, accepted) ==
  IF \E spec \in enforcing : spec.failMode = "CLOSED" THEN "CLOSED" ELSE "OPEN"

(* computeAggregateFailMode; accepted are the specifications for which the
   deployment's AcceptedFailModeFor answers CLOSED. *)
aggregateFailMode(enforcing, accepted) ==
  IF \E spec \in enforcing : spec.failMode = "CLOSED" /\ spec \in accepted
  THEN "CLOSED" ELSE "OPEN"

(* Some enforcing specification declares no latency budget, or none at all. *)
WithoutBudget(enforcing) ==
  \E spec \in enforcing : spec.latencyBudgetNanoseconds \in {Nil, 0}

-----------------------------------------------------------------------------
(* filter/apply.go *)

(* A slip: a second, drifting copy of specmatch.Selects. *)
SelectingDrifted(filter, event) ==
  {spec \in OrZero(filter, ZeroEventFilter).specifications :
     SelectsListedOnly(spec, event)}

Selecting(filter, event) ==
  {spec \in OrZero(filter, ZeroEventFilter).specifications : Selects(spec, event)}

(* The keys the selecting specifications project. *)
ProjectedKeys(selecting) ==
  UNION {MatchOf(spec).projectedAttributeKeys : spec \in selecting}

(* A slip: only when every one of them projects no key. *)
ProjectAllOfAll(selecting) ==
  \A spec \in selecting : MatchOf(spec).projectedAttributeKeys = {}

(* A specification that projects no key may need any attribute. *)
ProjectAll(selecting) ==
  \E spec \in selecting : MatchOf(spec).projectedAttributeKeys = {}

(* The entries of those keys, whole and in their order: a round per entry. *)
OfKeys(attributes, keys) ==
  FlattenSeq([ i \in DOMAIN attributes |->
    IF attributes[i].key \in keys THEN << attributes[i] >> ELSE <<>> ])

(* The attributes kept: AttributeEntry pointers are shared. *)
Trimmed(event, selecting) ==
  IF ProjectAll(selecting) THEN event.attributes
  ELSE OfKeys(event.attributes, ProjectedKeys(selecting))

(* ApplyFilter: Nil, the event can be dropped, when nothing selects it, and
   otherwise the event with its attributes trimmed and nothing else. *)
ApplyFilter(event, filter) ==
  IF event = Nil \/ Selecting(filter, event) = {} THEN Nil
  ELSE [event EXCEPT !.attributes = Trimmed(event, Selecting(filter, event))]
=============================================================================
