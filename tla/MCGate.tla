------------------------------- MODULE MCGate -------------------------------
(* Small instances of Gate: the arguments are chosen so that every early
   return, every fail mode and every source of the budget occurs. *)
EXTENDS Gate

CONSTANTS c1

MCCalls == {c1}

open2 ==
  [ ZeroSpecificationFilter EXCEPT
      !.specificationId = "refund-limit",
      !.eventMatch = [ ZeroEventMatch EXCEPT !.eventKinds = {"charge"},
                                             !.deliveryMode = "ASK_AND_BLOCK" ],
      !.failMode = "OPEN", !.latencyBudgetNanoseconds = 2,
      !.evaluationMode = "ENFORCE", !.readiness = "ACTIVE" ]

closed3 ==
  [ open2 EXCEPT !.specificationId = "no-double-charge", !.failMode = "CLOSED",
                 !.latencyBudgetNanoseconds = 3, !.eventMatch.eventKinds = {} ]

(* What does not enforce, and what enforces with a budget or fail mode unset. *)
unspecified5 ==
  [ open2 EXCEPT !.failMode = "UNSPECIFIED", !.latencyBudgetNanoseconds = 5 ]
closedShadow == [ closed3 EXCEPT !.evaluationMode = "SHADOW" ]
closedUnset == [ closed3 EXCEPT !.latencyBudgetNanoseconds = Nil ]
openZero == [ open2 EXCEPT !.latencyBudgetNanoseconds = 0 ]
warming == [ closed3 EXCEPT !.readiness = "WARMING" ]
shipped == [ closed3 EXCEPT !.eventMatch.deliveryMode = "SHIP_ASYNC" ]
unmatched == [ closed3 EXCEPT !.eventMatch = Nil ]
future == [ closed3 EXCEPT !.evaluationMode = "UNKNOWN" ]

Filter(e, specs) == [ epoch |-> e, specifications |-> specs ]

AllWired == {"Decide", "NowMonotonicNs", "AcceptedFailModeFor"}

MCOptions ==
  { [ requestId |-> "r1", idempotencyKey |-> "charge-1", sourceHandle |-> "checkout" ] }

Charge == [ ZeroProducerEvent EXCEPT !.kind = "charge" ]
Refund == [ ZeroProducerEvent EXCEPT !.kind = "refund" ]

TwoSpecs == Filter(1, {open2, closed3})

(* Nothing to enforce, wired or not; budgets from two specifications, one
   specification or the deadline; no budget; a dependency missing. *)
MCInputs ==
  [ filter : {Nil, Filter(Nil, {closed3}), Filter(0, {}),
              Filter(1, {warming, shipped, unmatched, future})},
    event : {Charge}, deadline : {Nil}, deps : {AllWired, {}},
    options : MCOptions, accepted : {{closed3}} ]
  \cup
  [ filter : {TwoSpecs, Filter(0, {unspecified5, closedShadow})},
    event : {Charge}, deadline : {Nil, 1, 4}, deps : {AllWired},
    options : MCOptions, accepted : {{}, {closed3, closedShadow}} ]
  \cup
  [ filter : {TwoSpecs}, event : {Refund}, deadline : {Nil, 4}, deps : {AllWired},
    options : MCOptions, accepted : {{}, {closed3}} ]
  \cup
  [ filter : {Filter(1, {closedUnset, open2}), Filter(1, {openZero, closed3})},
    event : {Charge}, deadline : {4}, deps : {AllWired},
    options : MCOptions, accepted : {{}, {closedUnset}} ]
  \cup
  [ filter : {TwoSpecs}, event : {Charge, Nil}, deadline : {4},
    deps : {AllWired \ {d} : d \in AllWired},
    options : MCOptions, accepted : {{closed3}} ]

(* For the findings: what happens to a call once it is started, not which. *)
MCFewInputs ==
  [ filter : {Nil, TwoSpecs}, event : {Charge, Refund}, deadline : {Nil, 1},
    deps : {AllWired, AllWired \ {"NowMonotonicNs"}, {}},
    options : MCOptions, accepted : {{closed3}} ]
=============================================================================
