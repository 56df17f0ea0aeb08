------------------------------ MODULE Messages ------------------------------
(***************************************************************************)
(* The generated messages the SDK handles (gen/sentinel/model/v1 and       *)
(* gen/sentinel/probe/v1), as Go sees them: a record per message, with the *)
(* fields of its struct under their JSON names, Nil for a nil pointer.     *)
(*                                                                         *)
(* Three abstractions.  Repeated fields the code only searches are sets;   *)
(* the attributes of an event, which it copies, are a sequence.            *)
(* Fields nothing in the SDK reads or writes are left out: versions,       *)
(* target epochs, required sources, watermarks, gate evidence, baselines.  *)
(* And a proto3 enum is open, so each has a member "UNKNOWN" that stands   *)
(* for every number this version of the schema has no name for.            *)
(*                                                                         *)
(* ZeroX is message X after Reset.  It is also what the getters of a nil X *)
(* return field by field, which is what makes them nil-safe, and what      *)
(* decoding fills in for the fields that were not on the wire.             *)
(***************************************************************************)
EXTENDS Integers, Sequences

CONSTANTS
  Nil,             \* Go's nil
  AttributeValues  \* the AttributeValue messages that occur

(* Reading a field of a message that may be nil, through its getter. *)
OrZero(m, zero) == IF m = Nil THEN zero ELSE m

-----------------------------------------------------------------------------
(* sentinel.model.v1, filter.proto *)
FailModes == {"UNSPECIFIED", "OPEN", "CLOSED", "UNKNOWN"}
EvaluationModes == {"UNSPECIFIED", "SHADOW", "DETECT", "ENFORCE", "UNKNOWN"}
ReadinessStates == {"UNSPECIFIED", "WARMING", "ACTIVE", "UNKNOWN"}
DeliveryModes == {"UNSPECIFIED", "SHIP_ASYNC", "ASK_AND_BLOCK", "UNKNOWN"}

EventMatch ==
  [ eventKinds : SUBSET STRING,
    projectedAttributeKeys : SUBSET STRING,
    deliveryMode : DeliveryModes ]

ZeroEventMatch ==
  [ eventKinds |-> {}, projectedAttributeKeys |-> {}, deliveryMode |-> "UNSPECIFIED" ]

SpecificationFilter ==
  [ specificationId : STRING,
    eventMatch : EventMatch \cup {Nil},
    failMode : FailModes,
    latencyBudgetNanoseconds : Nat \cup {Nil},
    evaluationMode : EvaluationModes,
    readiness : ReadinessStates ]

ZeroSpecificationFilter ==
  [ specificationId |-> "", eventMatch |-> Nil, failMode |-> "UNSPECIFIED",
    latencyBudgetNanoseconds |-> Nil, evaluationMode |-> "UNSPECIFIED",
    readiness |-> "UNSPECIFIED" ]

EventFilter ==
  [ epoch : Nat \cup {Nil}, specifications : SUBSET SpecificationFilter ]

ZeroEventFilter == [ epoch |-> Nil, specifications |-> {} ]

-----------------------------------------------------------------------------
(* sentinel.model.v1, common.proto and event.proto *)
SourceCapabilities ==
  {"UNSPECIFIED", "OBSERVE_BEFORE_EFFECT", "CAUSAL_EDGES", "COMPLETENESS_SIGNALS",
   "BOUNDED_CLOCK_UNCERTAINTY", "UNKNOWN"}

Sensitivities ==
  {"UNSPECIFIED", "PUBLIC", "INTERNAL", "CONFIDENTIAL", "RESTRICTED", "UNKNOWN"}

Int128 == [ high : Int, low : Nat ]
ZeroInt128 == [ high |-> 0, low |-> 0 ]

SequenceCoordinate == [ epoch : Nat, sequence : Nat ]

OccurrenceTime ==
  [ clockDomainId : STRING,
    nanoseconds : Int128 \cup {Nil},
    uncertaintyNanoseconds : Nat ]

AttributeEntry ==
  [ key : STRING,
    value : AttributeValues \cup {Nil},
    claimedSensitivity : Sensitivities ]

(* An AttributeValue: the arm of its oneof, and what that arm holds. *)
Arms ==
  {"", "string_value", "bool_value", "integer_value", "double_value", "bytes_value",
   "array_value", "map_value"}

AttributeValue ==
  [ arm : Arms, leaf : STRING, values : Seq(AttributeValues), entries : Seq(AttributeEntry) ]

ZeroAttributeEntry ==
  [ key |-> "", value |-> Nil, claimedSensitivity |-> "UNSPECIFIED" ]

ProducerEvent ==
  [ id : STRING,
    sequence : SequenceCoordinate \cup {Nil},
    schemaVersion : STRING,
    acknowledgedFilterEpoch : Nat \cup {Nil},
    kind : STRING,
    occurrenceTime : OccurrenceTime \cup {Nil},
    attributes : Seq(AttributeEntry),
    claimedCapabilities : SUBSET SourceCapabilities,
    claimedSensitivity : Sensitivities,
    causalPredecessorIds : Seq(STRING) ]

ZeroProducerEvent ==
  [ id |-> "", sequence |-> Nil, schemaVersion |-> "",
    acknowledgedFilterEpoch |-> Nil, kind |-> "", occurrenceTime |-> Nil,
    attributes |-> <<>>, claimedCapabilities |-> {},
    claimedSensitivity |-> "UNSPECIFIED", causalPredecessorIds |-> <<>> ]

-----------------------------------------------------------------------------
(* sentinel.probe.v1, decision.proto *)
DecisionActions == {"UNSPECIFIED", "PERMIT", "DENY", "DEFER", "UNKNOWN"}

UnresolvedReasons ==
  {"UNSPECIFIED", "PREFIX_UNCERTAINTY", "OBSERVATIONAL_UNCERTAINTY",
   "EPISTEMIC_UNCERTAINTY", "EVIDENCE_GAP", "TIMEOUT", "UNKNOWN"}

DecideRequest ==
  [ requestId : STRING,
    idempotencyKey : STRING,
    sourceHandle : STRING,
    filterEpoch : Nat \cup {Nil},
    producerEvent : ProducerEvent \cup {Nil},
    remainingTransportBudgetNanoseconds : Nat \cup {Nil} ]

ZeroDecideRequest ==
  [ requestId |-> "", idempotencyKey |-> "", sourceHandle |-> "", filterEpoch |-> Nil,
    producerEvent |-> Nil, remainingTransportBudgetNanoseconds |-> Nil ]

SpecificationDecision ==
  [ specificationId : STRING,
    action : DecisionActions,
    failMode : FailModes,
    unresolvedReason : UnresolvedReasons \cup {Nil} ]

ZeroSpecificationDecision ==
  [ specificationId |-> "", action |-> "UNSPECIFIED", failMode |-> "UNSPECIFIED",
    unresolvedReason |-> Nil ]

DecideResponse ==
  [ requestId : STRING,
    action : DecisionActions,
    specifications : SUBSET SpecificationDecision ]

ZeroDecideResponse ==
  [ requestId |-> "", action |-> "UNSPECIFIED", specifications |-> {} ]
=============================================================================
