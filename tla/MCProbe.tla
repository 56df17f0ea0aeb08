------------------------------- MODULE MCProbe -------------------------------
(* A small instance of Probe: one host pushing, one flow, and filters whose
   specifications enforce, only ship, list kinds and keys or list none. *)
EXTENDS Probe

CONSTANTS s1, r1, card, strict, bare, amount, buyer, note

MCSetters == {s1}
MCEmitters == {r1}
MCPolicies == {card, strict, bare}
MCValues == {amount, buyer, note}

limit ==
  [ ZeroSpecificationFilter EXCEPT
      !.specificationId = "refund-limit",
      !.eventMatch = [ eventKinds |-> {"charge"}, projectedAttributeKeys |-> {"amount"},
                       deliveryMode |-> "ASK_AND_BLOCK" ],
      !.failMode = "CLOSED", !.latencyBudgetNanoseconds = 2,
      !.evaluationMode = "ENFORCE", !.readiness = "ACTIVE" ]

shipped ==
  [ limit EXCEPT !.eventMatch.deliveryMode = "SHIP_ASYNC",
                 !.eventMatch.projectedAttributeKeys = {"buyer"} ]
catchAll ==
  [ limit EXCEPT !.eventMatch.eventKinds = {}, !.eventMatch.projectedAttributeKeys = {} ]
unmatched == [ limit EXCEPT !.eventMatch = Nil ]

(* Two specifications that trim; one of them again beside one that keeps all; and
   no epoch and no match. *)
MCContent ==
  [ p \in MCPolicies |->
      IF p = card THEN [ epoch |-> 0, specifications |-> {limit, shipped} ]
      ELSE IF p = strict THEN [ epoch |-> 1, specifications |-> {catchAll, limit} ]
      ELSE [ epoch |-> Nil, specifications |-> {limit, unmatched} ] ]

MCEvents ==
  { [ ZeroProducerEvent EXCEPT
        !.kind = k,
        !.attributes = << [ ZeroAttributeEntry EXCEPT !.key = "buyer", !.value = buyer ],
                          [ ZeroAttributeEntry EXCEPT !.key = "note", !.value = note ],
                          [ ZeroAttributeEntry EXCEPT !.key = "amount", !.value = amount ] >>,
        !.causalPredecessorIds = <<"order-1">> ] : k \in {"charge", "refund"} }
=============================================================================
