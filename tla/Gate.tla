-------------------------------- MODULE Gate --------------------------------
(***************************************************************************)
(* enforcement/gate.go: the bounded enforcement gate.  Any number of       *)
(* goroutines may be inside Gate; a call keeps its state in local          *)
(* variables (functions of the call below) and shares with the world only  *)
(* the clock it reads, the context the host may cancel, and the endpoint   *)
(* it asks.  Between two such accesses the world moves, so each access is  *)
(* an action.                                                              *)
(***************************************************************************)
EXTENDS EventFilters, Budget

CONSTANTS
  Calls,   \* the goroutines that call Gate, each one call at a time
  Inputs   \* the arguments they call it with

(* The dependencies of Deps that are wired. *)
Wirings == SUBSET {"Decide", "NowMonotonicNs", "AcceptedFailModeFor"}

(* The identifiers a call stamps into its request. *)
Options == [ requestId : STRING, idempotencyKey : STRING, sourceHandle : STRING ]

Input ==
  [ filter : EventFilter \cup {Nil},
    event : ProducerEvent \cup {Nil},
    deadline : Clock \cup {Nil},
    deps : Wirings,
    options : Options,
    accepted : SUBSET SpecificationFilter ]

(* What Decide may return: the action of its response, or an error. *)
Actions == DecisionActions
Errors == {"context-error", "endpoint-error"}

OutcomeKinds ==
  {"Permit", "Deny", "Defer", "FailOpenPermit", "FailClosedDeny", "NoFilter"}

(* The reasons an unasked call gives, and those of a call that asked. *)
UnaskedReasons ==
  {"no-filter", "no-ask-and-block-spec", "budget-exhausted", "clock-unavailable"}
AnsweredReasons ==
  {"permit", "deny", "defer", "defer-budget-exhausted", "unspecified-action"}
Reasons == UnaskedReasons \cup AnsweredReasons \cup Errors

GateOutcome ==
  [ kind : OutcomeKinds, reason : Reasons,
    filterEpoch : Nat \cup {Nil}, decisions : Actions \cup {Nil} ]

ASSUME GateAssumption ==
  /\ \A i \in Inputs : i \in Input
  /\ Nil \notin Input \cup EventFilter \cup ProducerEvent \cup Nat
  /\ Nil \notin GateOutcome \cup DecideRequest \cup Actions \cup Errors

VARIABLES
  clock,    \* the monotonic clock the host injects
  ctxDone,  \* the calls whose context is cancelled or past its deadline
  pc,       \* where each call is
  input,    \* the arguments of each call
  anchor,   \* the first clock reading of each call
  budget,   \* the effective budget of each call
  request,  \* the DecideRequest each call built, or Nil
  answer,   \* what Decide returned to each call, or Nil
  outcome,  \* the GateOutcome of each finished call, or Nil
  doomed,   \* history: the calls whose context was done before Gate looked at it
  asked,    \* history: the calls that reached Decide
  readAt    \* history: the last clock reading of each call

world == <<clock, ctxDone>>
locals == <<input, anchor, budget, request, answer, outcome>>
history == <<doomed, asked, readAt>>
vars == <<world, pc, locals, history>>

-----------------------------------------------------------------------------
filterOf(c) == input[c].filter
enforcing(c) == Enforcing(input[c].filter, input[c].event)
failMode(c) == aggregateFailMode(enforcing(c), input[c].accepted)
wired(c, dep) == dep \in input[c].deps

HasPolicy(c) == filterOf(c) # Nil /\ filterOf(c).epoch # Nil
IsEnforced(c) == HasPolicy(c) /\ enforcing(c) # {}

(* The least latency budget of the enforcing specifications. *)
minimumBudget(specs) ==
  CHOOSE b \in {spec.latencyBudgetNanoseconds : spec \in specs} :
    \A spec \in specs : b <= spec.latencyBudgetNanoseconds

(* The least of the contracted budgets and of what the caller has left. *)
effectiveBudget(c, now) ==
  LET contracted == minimumBudget(enforcing(c))
      caller == until(now, input[c].deadline)
  IN  IF input[c].deadline # Nil /\ caller < contracted THEN caller ELSE contracted

(* The request of a call, with some budget left to stamp into it. *)
RequestWith(c, left) ==
  [ requestId |-> input[c].options.requestId,
    idempotencyKey |-> input[c].options.idempotencyKey,
    sourceHandle |-> input[c].options.sourceHandle,
    filterEpoch |-> filterOf(c).epoch,
    producerEvent |-> input[c].event,
    remainingTransportBudgetNanoseconds |-> left ]

-----------------------------------------------------------------------------
Init ==
  /\ clock \in Clock
  /\ ctxDone = {}
  /\ pc = [c \in Calls |-> "idle"]
  /\ input = [c \in Calls |-> Nil]
  /\ anchor = [c \in Calls |-> 0]
  /\ budget = [c \in Calls |-> 0]
  /\ request = [c \in Calls |-> Nil]
  /\ answer = [c \in Calls |-> Nil]
  /\ outcome = [c \in Calls |-> Nil]
  /\ doomed = {}
  /\ asked = {}
  /\ readAt = [c \in Calls |-> 0]

(* The host calls Gate, its context alive or already done. *)
Enter(c, i, done) ==
  /\ pc[c] \in {"idle", "returned"}
  /\ pc' = [pc EXCEPT ![c] = "entered"]
  /\ input' = [input EXCEPT ![c] = i]
  /\ ctxDone' = IF done THEN ctxDone \cup {c} ELSE ctxDone \ {c}
  /\ doomed' = IF done THEN doomed \cup {c} ELSE doomed \ {c}
  /\ asked' = asked \ {c}
  /\ anchor' = [anchor EXCEPT ![c] = 0]
  /\ budget' = [budget EXCEPT ![c] = 0]
  /\ request' = [request EXCEPT ![c] = Nil]
  /\ answer' = [answer EXCEPT ![c] = Nil]
  /\ outcome' = [outcome EXCEPT ![c] = Nil]
  /\ readAt' = [readAt EXCEPT ![c] = 0]
  /\ UNCHANGED clock

(* A slip: the generated getter in the audit record, absent read as zero. *)
ReturnFlattened(c, kind, reason, decisions) ==
  /\ pc' = [pc EXCEPT ![c] = "returned"]
  /\ outcome' = [outcome EXCEPT ![c] =
       [ kind |-> kind, reason |-> reason, decisions |-> decisions,
         filterEpoch |-> IF HasPolicy(c) THEN filterOf(c).epoch ELSE 0 ]]

(* Every outcome carries the epoch of the policy the call ran under. *)
Return(c, kind, reason, decisions) ==
  /\ pc' = [pc EXCEPT ![c] = "returned"]
  /\ outcome' = [outcome EXCEPT ![c] =
       [ kind |-> kind, reason |-> reason, decisions |-> decisions,
         filterEpoch |-> IF HasPolicy(c) THEN filterOf(c).epoch ELSE Nil ]]

applyFailMode(c, reason, decisions) ==
  Return(c, IF failMode(c) = "CLOSED" THEN "FailClosedDeny" ELSE "FailOpenPermit",
         reason, decisions)

(* 1. No filter, or one without an epoch: there is no policy to enforce. *)
NoFilter(c) ==
  /\ pc[c] = "entered"
  /\ ~HasPolicy(c)
  /\ Return(c, "NoFilter", "no-filter", Nil)
  /\ UNCHANGED <<world, input, anchor, budget, request, answer, history>>

(* 2. Nothing that selects the event asks and blocks. *)
NotEnforced(c) ==
  /\ pc[c] = "entered"
  /\ HasPolicy(c)
  /\ enforcing(c) = {}
  /\ Return(c, "Permit", "no-ask-and-block-spec", Nil)
  /\ UNCHANGED <<world, input, anchor, budget, request, answer, history>>

(* A slip: checking the wiring before looking for something to enforce. *)
PanicWithoutContractEarly(c) ==
  /\ pc[c] = "entered"
  /\ HasPolicy(c)
  /\ ~wired(c, "AcceptedFailModeFor")
  /\ pc' = [pc EXCEPT ![c] = "panicked"]
  /\ UNCHANGED <<world, locals, history>>

(* 3. The contract source is missing: a wiring bug, not a fail-open. *)
PanicWithoutContract(c) ==
  /\ pc[c] = "entered"
  /\ IsEnforced(c)
  /\ ~wired(c, "AcceptedFailModeFor")
  /\ pc' = [pc EXCEPT ![c] = "panicked"]
  /\ UNCHANGED <<world, locals, history>>

(* An enforcing specification without a latency budget: nothing to spend. *)
NoLatencyBudget(c) ==
  /\ pc[c] = "entered"
  /\ IsEnforced(c)
  /\ wired(c, "AcceptedFailModeFor")
  /\ WithoutBudget(enforcing(c))
  /\ applyFailMode(c, "budget-exhausted", Nil)
  /\ UNCHANGED <<world, input, anchor, budget, request, answer, history>>

(* Every check that comes before the clock is read has passed. *)
ReadyToMeasure(c) ==
  /\ IsEnforced(c)
  /\ wired(c, "AcceptedFailModeFor")
  /\ ~WithoutBudget(enforcing(c))

ClockUnavailable(c) ==
  /\ pc[c] = "entered"
  /\ ReadyToMeasure(c)
  /\ ~wired(c, "NowMonotonicNs")
  /\ applyFailMode(c, "clock-unavailable", Nil)
  /\ UNCHANGED <<world, input, anchor, budget, request, answer, history>>

(* The first clock reading anchors the budget of the call. *)
ReadAnchor(c) ==
  /\ pc[c] = "entered"
  /\ ReadyToMeasure(c)
  /\ wired(c, "NowMonotonicNs")
  /\ pc' = [pc EXCEPT ![c] = "anchored"]
  /\ anchor' = [anchor EXCEPT ![c] = clock]
  /\ budget' = [budget EXCEPT ![c] = effectiveBudget(c, clock)]
  /\ readAt' = [readAt EXCEPT ![c] = clock]
  /\ UNCHANGED <<world, input, request, answer, outcome, doomed, asked>>

(* 4. The second reading finds nothing left. *)
BudgetExhausted(c) ==
  /\ pc[c] = "anchored"
  /\ remaining(anchor[c], budget[c], clock) = 0
  /\ applyFailMode(c, "budget-exhausted", Nil)
  /\ readAt' = [readAt EXCEPT ![c] = clock]
  /\ UNCHANGED <<world, input, anchor, budget, request, answer, doomed, asked>>

(* A slip: stamping the whole budget instead of what is left of it. *)
BuildRequestUndecremented(c) ==
  /\ pc[c] = "anchored"
  /\ remaining(anchor[c], budget[c], clock) > 0
  /\ request' = [request EXCEPT ![c] =
       RequestWith(c, budget[c])]
  /\ pc' = [pc EXCEPT ![c] = "built"]
  /\ readAt' = [readAt EXCEPT ![c] = clock]
  /\ UNCHANGED <<world, input, anchor, budget, answer, outcome, doomed, asked>>

(* 5. The second reading leaves something: it is stamped into the request. *)
BuildRequest(c) ==
  /\ pc[c] = "anchored"
  /\ remaining(anchor[c], budget[c], clock) > 0
  /\ request' = [request EXCEPT ![c] =
       RequestWith(c, remaining(anchor[c], budget[c], clock))]
  /\ pc' = [pc EXCEPT ![c] = "built"]
  /\ readAt' = [readAt EXCEPT ![c] = clock]
  /\ UNCHANGED <<world, input, anchor, budget, answer, outcome, doomed, asked>>

(* 6. A context already done is a transport error, and nothing is asked. *)
ContextDone(c) ==
  /\ pc[c] = "built"
  /\ c \in ctxDone
  /\ applyFailMode(c, "context-error", Nil)
  /\ UNCHANGED <<world, input, anchor, budget, request, answer, history>>

(* A slip: leaving the context to whatever Decide is. *)
ContextAliveUnchecked(c) ==
  /\ pc[c] = "built"
  /\ pc' = [pc EXCEPT ![c] = "asking"]
  /\ UNCHANGED <<world, locals, history>>

ContextAlive(c) ==
  /\ pc[c] = "built"
  /\ c \notin ctxDone
  /\ pc' = [pc EXCEPT ![c] = "asking"]
  /\ UNCHANGED <<world, locals, history>>

(* A nil Decide is a nil function called. *)
PanicWithoutDecide(c) ==
  /\ pc[c] = "asking"
  /\ ~wired(c, "Decide")
  /\ pc' = [pc EXCEPT ![c] = "panicked"]
  /\ UNCHANGED <<world, locals, history>>

Decide(c) ==
  /\ pc[c] = "asking"
  /\ wired(c, "Decide")
  /\ pc' = [pc EXCEPT ![c] = "asked"]
  /\ asked' = asked \cup {c}
  /\ UNCHANGED <<world, locals, doomed, readAt>>

(* The endpoint, or the transport in front of it, returns when it likes. *)
EndpointReturns(c, a) ==
  /\ pc[c] = "asked"
  /\ pc' = [pc EXCEPT ![c] = "answered"]
  /\ answer' = [answer EXCEPT ![c] = a]
  /\ UNCHANGED <<world, input, anchor, budget, request, outcome, history>>

(* A slip: asking on a background context, which nothing cancels. *)
TransportGivesUpNever(c) ==
  /\ c \in ctxDone
  /\ FALSE
  /\ EndpointReturns(c, "context-error")

(* Connect gives up on a call whose context is done. *)
TransportGivesUp(c) ==
  /\ c \in ctxDone
  /\ EndpointReturns(c, "context-error")

AskFailed(c) ==
  /\ pc[c] = "answered"
  /\ answer[c] \in Errors
  /\ applyFailMode(c, answer[c], Nil)
  /\ UNCHANGED <<world, input, anchor, budget, request, answer, history>>

(* 7. The endpoint permits or denies, however late. *)
Honour(c) ==
  /\ pc[c] = "answered"
  /\ \/ answer[c] = "PERMIT" /\ Return(c, "Permit", "permit", answer[c])
     \/ answer[c] = "DENY" /\ Return(c, "Deny", "deny", answer[c])
  /\ UNCHANGED <<world, input, anchor, budget, request, answer, history>>

(* A slip: deferring without looking at the clock again. *)
DeferUnmeasured(c) ==
  /\ pc[c] = "answered"
  /\ answer[c] = "DEFER"
  /\ Return(c, "Defer", "defer", answer[c])
  /\ readAt' = [readAt EXCEPT ![c] = clock]
  /\ UNCHANGED <<world, input, anchor, budget, request, answer, doomed, asked>>

(* A slip: waiting a deferral out before falling back on the fail mode. *)
DeferWaits(c) ==
  /\ pc[c] = "answered"
  /\ answer[c] = "DEFER"
  /\ remaining(anchor[c], budget[c], clock) = 0
  /\ applyFailMode(c, "defer-budget-exhausted", answer[c])
  /\ readAt' = [readAt EXCEPT ![c] = clock]
  /\ UNCHANGED <<world, input, anchor, budget, request, answer, doomed, asked>>

(* A deferral stands while the third reading leaves budget. *)
Defer(c) ==
  /\ pc[c] = "answered"
  /\ answer[c] = "DEFER"
  /\ IF remaining(anchor[c], budget[c], clock) > 0
     THEN Return(c, "Defer", "defer", answer[c])
     ELSE applyFailMode(c, "defer-budget-exhausted", answer[c])
  /\ readAt' = [readAt EXCEPT ![c] = clock]
  /\ UNCHANGED <<world, input, anchor, budget, request, answer, doomed, asked>>

(* A slip: an answer this Probe does not understand taken for a permit. *)
UnresolvedPermits(c) ==
  /\ pc[c] = "answered"
  /\ answer[c] \in {"UNSPECIFIED", "UNKNOWN"}
  /\ Return(c, "Permit", "permit", answer[c])
  /\ UNCHANGED <<world, input, anchor, budget, request, answer, history>>

(* 7. An unspecified action, or one this Probe does not know: never a permit. *)
Unresolved(c) ==
  /\ pc[c] = "answered"
  /\ answer[c] \in {"UNSPECIFIED", "UNKNOWN"}
  /\ applyFailMode(c, "unspecified-action", answer[c])
  /\ UNCHANGED <<world, input, anchor, budget, request, answer, history>>

(* The clock moves: on, or anywhere, as an injected wall clock may. *)
ClockMoves(t) ==
  /\ clock' = t
  /\ UNCHANGED <<ctxDone, pc, locals, history>>

(* The host cancels a call, or its context's own deadline passes. *)
Cancel(c) ==
  /\ pc[c] \notin {"idle", "returned", "panicked"}
  /\ ctxDone' = ctxDone \cup {c}
  /\ doomed' = IF pc[c] \in {"entered", "anchored", "built"} THEN doomed \cup {c}
               ELSE doomed
  /\ UNCHANGED <<clock, pc, locals, asked, readAt>>

(* The steps Gate itself takes. *)
Step(c) ==
  \/ NoFilter(c) \/ NotEnforced(c)
  \/ PanicWithoutContract(c) \/ NoLatencyBudget(c) \/ ClockUnavailable(c)
  \/ ReadAnchor(c) \/ BudgetExhausted(c) \/ BuildRequest(c)
  \/ ContextDone(c) \/ ContextAlive(c)
  \/ PanicWithoutDecide(c) \/ Decide(c)
  \/ AskFailed(c) \/ Honour(c) \/ Defer(c) \/ Unresolved(c)

Next ==
  \/ \E c \in Calls :
       \/ \E i \in Inputs, done \in BOOLEAN : Enter(c, i, done)
       \/ Step(c)
       \/ \E a \in Actions \cup Errors : EndpointReturns(c, a)
       \/ TransportGivesUp(c)
       \/ Cancel(c)
  \/ \E t \in Clock : ClockMoves(t)

Spec == Init /\ [][Next]_vars

-----------------------------------------------------------------------------
(* The type of every variable. *)
TypeOK ==
  /\ clock \in Clock
  /\ ctxDone \subseteq Calls
  /\ pc \in [Calls -> {"idle", "entered", "anchored", "built", "asking",
                       "asked", "answered", "returned", "panicked"}]
  /\ input \in [Calls -> Inputs \cup {Nil}]
  /\ anchor \in [Calls -> Clock]
  /\ budget \in [Calls -> Nat]
  /\ request \in [Calls -> DecideRequest \cup {Nil}]
  /\ answer \in [Calls -> Actions \cup Errors \cup {Nil}]
  /\ outcome \in [Calls -> GateOutcome \cup {Nil}]
  /\ doomed \subseteq Calls
  /\ asked \subseteq Calls
  /\ readAt \in [Calls -> Clock]

(* OutcomeKind.Permitted: the host may proceed. *)
Permitted(c) == outcome[c].kind \in {"Permit", "FailOpenPermit", "NoFilter"}

(* Some enforcing specification declares CLOSED, and an operator agreed to it. *)
ClosedContract(i) ==
  \E spec \in Enforcing(i.filter, i.event) : spec.failMode = "CLOSED" /\ spec \in i.accepted
ContractedClosed(c) == ClosedContract(input[c])

(* A call whose event is under a fail-closed contract lets the host proceed
   only on the endpoint's own PERMIT: no lost budget, missing clock, dead
   context, transport error, unknown action, late deferral or number of
   fail-open specifications turns into a permit (gate.go steps 3 to 7). *)
ClosedContractHolds ==
  \A c \in Calls :
    /\ pc[c] = "returned"
    /\ HasPolicy(c)
    /\ ContractedClosed(c)
    /\ Permitted(c)
    => answer[c] = "PERMIT"

(* A host is kept from proceeding only by the endpoint's own DENY, by a deferral,
   or where an operator agreed to be blocked: on no other path, unanswered or not,
   does a policy it does not hold, a specification that does not enforce the event
   or one that declares CLOSED uncontracted close it (gate.go:278-280). *)
BlocksOnlyUnderContract ==
  \A c \in Calls :
    pc[c] = "returned" /\ ~Permitted(c) =>
      \/ answer[c] = "DENY"
      \/ outcome[c].kind = "Defer" /\ answer[c] = "DEFER"
      \/ HasPolicy(c) /\ ContractedClosed(c)

(* The budget stamped into a request is what every hop downstream lives by: at
   the reading it was stamped, it is positive, it ends no later than the
   contracted budget of any enforcing specification counted from the anchor,
   and no later than the caller's deadline, on a wrapping clock that may have
   gone anywhere between the two readings (gate.go steps 3 to 5, budget.go). *)
StampFitsEveryBudget ==
  \A c \in Calls :
    pc[c] \in {"built", "asking", "asked", "answered"} =>
      /\ request[c].remainingTransportBudgetNanoseconds > 0
      /\ monotonicValid(anchor[c], readAt[c])
      /\ \A spec \in enforcing(c) :
           monotonicDelta(anchor[c], readAt[c])
             + request[c].remainingTransportBudgetNanoseconds
             <= spec.latencyBudgetNanoseconds
      /\ input[c].deadline # Nil =>
           request[c].remainingTransportBudgetNanoseconds
             <= until(readAt[c], input[c].deadline)

(* A Defer tells the host it may wait or retry: when the clock was last read,
   no contracted budget was spent and the deadline was still ahead, however
   long the endpoint took to defer (gate.go:250-254). *)
DeferLeavesTime ==
  \A c \in Calls :
    pc[c] = "returned" /\ outcome[c].kind = "Defer" =>
      /\ monotonicValid(anchor[c], readAt[c])
      /\ \A spec \in enforcing(c) :
           monotonicDelta(anchor[c], readAt[c]) < spec.latencyBudgetNanoseconds
      /\ input[c].deadline # Nil => until(readAt[c], input[c].deadline) > 0

(* A call that could no longer be answered in time never reaches the endpoint:
   its context was alive when it started and was not cancelled while the budget
   was measured and the request built, and its deadline was ahead when the budget
   was anchored (gate.go steps 4 and 6). *)
AsksOnlyWhileAlive ==
  \A c \in asked :
    /\ c \notin doomed
    /\ input[c].deadline # Nil => until(anchor[c], input[c].deadline) > 0

(* The audit record tells "we had no policy" and "we never asked" from "we
   asked": the epoch is missing exactly for NoFilter, an unasked reason means
   the endpoint was not reached, an answered one carries its answer, which is
   the evidence of the outcome (GateOutcome, gate.go:77-95). *)
AuditTellsWhatHappened ==
  \A c \in Calls : pc[c] = "returned" =>
    /\ outcome[c].filterEpoch = Nil <=> outcome[c].kind = "NoFilter"
    /\ outcome[c].reason \in UnaskedReasons => c \notin asked
    /\ outcome[c].reason \in AnsweredReasons =>
         c \in asked /\ outcome[c].decisions = answer[c]
    /\ outcome[c].decisions # Nil => outcome[c].reason \in AnsweredReasons

(* Gate panics only for a wiring bug that matters to this call: an event that
   nothing enforces needs no dependency at all (gate.go:109-118, 282-286). *)
PanicsOnlyWhenUnwired ==
  \A c \in Calls : pc[c] = "panicked" =>
    /\ IsEnforced(c)
    /\ \/ ~wired(c, "AcceptedFailModeFor")
       \/ ~wired(c, "Decide") /\ request[c] # Nil

(* Gate is the enforcement contract: what each call owes is a function of its
   arguments, and every step of Gate is a step of the contract or none. *)
DutyOf(i) ==
  IF i = Nil THEN Nil
  ELSE IF i.filter = Nil \/ i.filter.epoch = Nil THEN "NoPolicy"
  ELSE IF Enforcing(i.filter, i.event) = {} THEN "NotEnforced"
  ELSE IF ClosedContract(i) THEN "MustFailClosed" ELSE "MayFailOpen"

PhaseOf(p) ==
  IF p \in {"entered", "anchored", "built", "asking"} THEN "pending"
  ELSE IF p = "returned" THEN "done" ELSE p

KindOfOutcome(o) == IF o = Nil THEN Nil ELSE o.kind

Contract == INSTANCE EnforcementContract WITH
  phase <- [c \in Calls |-> PhaseOf(pc[c])],
  duty <- [c \in Calls |-> DutyOf(input[c])],
  kind <- [c \in Calls |-> KindOfOutcome(outcome[c])]

ImplementsContract == Contract!Spec

(* Gate itself never waits: only the endpoint can hold a call, and whatever it
   answers ends it, a deferral with budget left and an action of a later protocol
   included (gate.go:225, 250-261). *)
OnlyTheEndpointHoldsACall ==
  \A c \in Calls :
    pc[c] \notin {"idle", "asked", "returned", "panicked"}
      ~> pc[c] \in {"asked", "returned", "panicked"}

(* Cancelling the context of a call always ends it, answered or not (gate.go:222,
   client.go:129-137).  What is fair is said in Transport, which has both sides. *)
CancelledCallReturns ==
  \A c \in Calls :
    c \in ctxDone /\ pc[c] = "asked" ~> pc[c] \in {"returned", "panicked"}

-----------------------------------------------------------------------------
(* gate.go:141-142 says that DEFER defers while budget remains or no deadline
   was set: so a deferral without a deadline stands. *)
DeferWithoutDeadlineStands ==
  \A c \in Calls :
    pc[c] = "returned" /\ answer[c] = "DEFER" /\ input[c].deadline = Nil
      => outcome[c].kind = "Defer"

(* gate.go:109-111 says that Gate panics on a nil NowMonotonicNs with a
   deadline set: so no call that needs the clock returns without one. *)
MissingClockPanics ==
  \A c \in Calls :
    pc[c] = "returned" /\ input[c].deadline # Nil /\ ReadyToMeasure(c)
      => wired(c, "NowMonotonicNs")
=============================================================================
