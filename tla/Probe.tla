-------------------------------- MODULE Probe --------------------------------
(***************************************************************************)
(* A Probe at work: goroutines emit an event, project it and ask about it, *)
(* while filters are pushed into the store they share.  A flow loads the   *)
(* store up to three times: for the epoch it stamps (AcknowledgedEpoch),   *)
(* for the projection (ApplyFilter of CurrentFilter) and, unless it kept   *)
(* that snapshot, for the gate (Gate of CurrentFilter) or the request it   *)
(* builds by hand (BuildDecideRequest).  Pushes are FilterStore's, load    *)
(* and store apart; of Gate, only what decides whether and under which     *)
(* policy it asks is here: Gate.tla has the rest.                          *)
(***************************************************************************)
EXTENDS EventFilters

CONSTANTS
  Setters,   \* goroutines that push filters
  Emitters,  \* goroutines that emit and enforce
  Policies,  \* the *EventFilter pointers that may be pushed
  Content,   \* the message each one points to
  Events     \* the events spans are converted into

ASSUME ProbeAssumption ==
  /\ Content \in [Policies -> EventFilter]
  /\ Events \subseteq ProducerEvent
  /\ Nil \notin Policies \cup ProducerEvent \cup EventFilter \cup Nat

VARIABLES
  current, pc, pushed, held, reply,         \* FilterStore and its setters
  flow, ack, snapshot, refresh, seen, moved, \* FilterStore's readers
  stage,      \* where each emitter is in its flow
  event,      \* the event each emitter converted its span into
  projected,  \* what ApplyFilter left of it, Nil when it is dropped
  policy,     \* the filter each emitter passed to Gate
  request,    \* what of each emitter's DecideRequest the flow decides, or Nil
  replaced    \* history: whether a store landed since each emitter's projection

storeVars == <<current, pc, pushed, held, reply,
               flow, ack, snapshot, refresh, seen, moved>>
flowVars == <<stage, event, projected, policy, request, replaced>>
vars == <<storeVars, flowVars>>

Store == INSTANCE FilterStore WITH
  Readers <- Emitters, Filters <- Policies, InitialFilter <- Nil,
  DeclaredEpoch <- [p \in Policies |-> Content[p].epoch], Announcements <- {}

Message(p) == IF p = Nil THEN Nil ELSE Content[p]

HasPolicy(p) == p # Nil /\ Content[p].epoch # Nil

-----------------------------------------------------------------------------
Init ==
  /\ Store!Init
  /\ stage = [r \in Emitters |-> "idle"]
  /\ event = [r \in Emitters |-> Nil]
  /\ projected = [r \in Emitters |-> Nil]
  /\ policy = [r \in Emitters |-> Nil]
  /\ request = [r \in Emitters |-> Nil]
  /\ replaced = [r \in Emitters |-> FALSE]

(* A span ended: SpanToEvent stamps the epoch the store holds now. *)
Observe(r, e) ==
  /\ stage[r] \in {"idle", "dropped", "unasked", "asked"}
  /\ Store!ReadEpoch(r)
  /\ stage' = [stage EXCEPT ![r] = "stamped"]
  /\ event' = [event EXCEPT ![r] =
       [e EXCEPT !.acknowledgedFilterEpoch = Store!epochOf(current)]]
  /\ projected' = [projected EXCEPT ![r] = Nil]
  /\ policy' = [policy EXCEPT ![r] = Nil]
  /\ request' = [request EXCEPT ![r] = Nil]
  /\ replaced' = [replaced EXCEPT ![r] = FALSE]

(* The snapshot the event is projected under. *)
Project(r) ==
  /\ stage[r] = "stamped"
  /\ Store!ReadFilter(r)
  /\ stage' = [stage EXCEPT ![r] = "projected"]
  /\ projected' = [projected EXCEPT ![r] = ApplyFilter(event[r], Message(current))]
  /\ UNCHANGED <<event, policy, request, replaced>>

(* Nothing selects the event: the host may drop it. *)
Drop(r) ==
  /\ stage[r] = "projected"
  /\ projected[r] = Nil
  /\ stage' = [stage EXCEPT ![r] = "dropped"]
  /\ UNCHANGED <<storeVars, event, projected, policy, request, replaced>>

(* Gate under filter p: asked only under a policy that enforces something.
   "asked" is every path of Gate past that point; one that runs out of budget
   before it asks builds, of this request, no more than is here. *)
EnterGate(r, p) ==
  /\ stage[r] = "projected"
  /\ policy' = [policy EXCEPT ![r] = p]
  /\ IF HasPolicy(p) /\ Enforcing(Message(p), projected[r]) # {}
     THEN /\ stage' = [stage EXCEPT ![r] = "asked"]
          /\ request' = [request EXCEPT ![r] =
               [filterEpoch |-> Content[p].epoch, producerEvent |-> projected[r]]]
     ELSE /\ stage' = [stage EXCEPT ![r] = "unasked"]
          /\ UNCHANGED request
  /\ UNCHANGED <<storeVars, event, projected, replaced>>

(* The snapshot is kept for the whole flow, or the store is loaded again. *)
GateSnapshot(r) == EnterGate(r, snapshot[r])
GateReload(r) == EnterGate(r, current)

(* A slip: stamping the request with the getter that flattens absent to 0. *)
BuildDecideRequestFlattened(r) ==
  /\ stage[r] = "projected"
  /\ stage' = [stage EXCEPT ![r] = "asked"]
  /\ policy' = [policy EXCEPT ![r] = snapshot[r]]
  /\ request' = [request EXCEPT ![r] =
       [filterEpoch |-> IF HasPolicy(current) THEN Content[current].epoch ELSE 0,
        producerEvent |-> projected[r]]]
  /\ UNCHANGED <<storeVars, event, projected, replaced>>

(* A host without the gate builds its request: the epoch is loaded again. *)
BuildDecideRequest(r) ==
  /\ stage[r] = "projected"
  /\ stage' = [stage EXCEPT ![r] = "asked"]
  /\ policy' = [policy EXCEPT ![r] = snapshot[r]]
  /\ request' = [request EXCEPT ![r] =
       [filterEpoch |-> Store!epochOf(current), producerEvent |-> projected[r]]]
  /\ UNCHANGED <<storeVars, event, projected, replaced>>

(* A push, one access to the store at a time. *)
Push(s) ==
  \/ /\ \/ \E f \in Policies \cup {Nil} : Store!SetCall(s, f)
        \/ Store!SetUnchanged(s)
        \/ Store!SetLoad(s)
     /\ UNCHANGED flowVars
  \/ /\ Store!SetStore(s)
     /\ replaced' = [r \in Emitters |-> replaced[r] \/ stage[r] = "projected"]
     /\ UNCHANGED <<stage, event, projected, policy, request>>

Next ==
  \/ \E s \in Setters : Push(s)
  \/ \E r \in Emitters :
       \/ \E e \in Events : Observe(r, e)
       \/ Project(r) \/ Drop(r)
       \/ GateSnapshot(r) \/ GateReload(r) \/ BuildDecideRequest(r)

Spec == Init /\ [][Next]_vars

-----------------------------------------------------------------------------
(* The type of the flows; FilterStore has that of the store. *)
TypeOK ==
  /\ Store!TypeOK
  /\ stage \in [Emitters -> {"idle", "stamped", "projected",
                             "dropped", "unasked", "asked"}]
  /\ event \in [Emitters -> ProducerEvent \cup {Nil}]
  /\ projected \in [Emitters -> ProducerEvent \cup {Nil}]
  /\ policy \in [Emitters -> Policies \cup {Nil}]
  /\ request \in [Emitters -> [filterEpoch : Nat \cup {Nil},
                               producerEvent : ProducerEvent \cup {Nil}] \cup {Nil}]
  /\ replaced \in [Emitters -> BOOLEAN]

(* What a specification needs of an event, and whether it is in what was sent: the
   entries of the keys it projects, of all keys if it projects none, among those of
   keys that were sent whole, in their order and with nothing that was not observed. *)
Needed(spec, attributes) ==
  LET keys == MatchOf(spec).projectedAttributeKeys
  IN  {entry.key : entry \in {entry \in ToSet(attributes) : keys = {} \/ entry.key \in keys}}
Supplies(sent, attributes, spec) ==
  LET sentKeys == {entry.key : entry \in ToSet(sent)}
  IN  Needed(spec, attributes) \subseteq sentKeys /\ sent = OfKeys(attributes, sentKeys)

(* The specifications of the filter a flow projected under. *)
Projecting(r) == OrZero(Message(snapshot[r]), ZeroEventFilter).specifications

(* Whatever is pushed meanwhile, and whether the gate uses the snapshot of the
   projection or loads the store again, the endpoint is sent what enforcement
   needs: every specification of the gate's policy that enforces the observed
   event, and that the projection knew, has it asked about, whole but for the
   attributes no such specification needs (filterstore.go:15-18, apply.go).  Only
   one that came with a push in between may miss attributes, or the event. *)
EndpointSeesWhatItNeeds ==
  \A r \in Emitters : stage[r] = "asked" =>
    \A spec \in Enforcing(Message(policy[r]), event[r]) \cap Projecting(r) :
      LET sent == request[r].producerEvent
      IN  /\ sent # Nil
          /\ sent = [event[r] EXCEPT !.attributes = sent.attributes]
          /\ Supplies(sent.attributes, event[r].attributes, spec)

(* Nothing slips between projection and gate, which share one predicate
   (specmatch): no specification the flow projected under enforces an event it
   dropped, or one that a gate under any policy let through unasked; and what does
   slip, under a policy pushed in between, slips only because the projection had
   dropped the event altogether, not for what it cut off. *)
UnaskedMeansUnenforced ==
  \A r \in Emitters :
    /\ stage[r] = "dropped" => Enforcing(Message(snapshot[r]), event[r]) = {}
    /\ stage[r] = "unasked" /\ HasPolicy(policy[r]) =>
         \A spec \in Enforcing(Message(policy[r]), event[r]) :
           spec \notin Projecting(r) /\ projected[r] = Nil

(* The epoch an event claims to have acknowledged is the one its Probe held when
   it was observed, and the one its request names, absent told from zero, unless
   a push landed within the flow: three loads of the store, carried by two
   messages and a projection, that only a push can make disagree. *)
OneEpochUnlessPushed ==
  \A r \in Emitters : stage[r] = "asked" =>
    LET sent == request[r].producerEvent
    IN  /\ request[r].filterEpoch = ack[r] \/ moved[r] \/ replaced[r]
        /\ sent # Nil => sent.acknowledgedFilterEpoch = ack[r]
=============================================================================
