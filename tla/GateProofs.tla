----------------------------- MODULE GateProofs -----------------------------
(***************************************************************************)
(* Theorems about Gate, for any number of calls, any arguments, any clock  *)
(* width and any behaviour of the clock, the host and the endpoint; and    *)
(* about Gate behind Transport, whatever the client and the network.       *)
(***************************************************************************)
EXTENDS Transport, WellFoundedInduction, TLAPS

-----------------------------------------------------------------------------
(* The arithmetic of budget.go, on a wrapping clock of any width.          *)

(* A difference of two readings is below Wrap, and undoes the subtraction. *)
LEMMA DeltaType ==
  ASSUME NEW from \in Clock, NEW to \in Clock
  PROVE  /\ monotonicDelta(from, to) \in Nat
         /\ monotonicDelta(from, to) < Wrap
BY HalfAssumption DEF monotonicDelta, Clock, Wrap

(* What is left never exceeds the budget. *)
LEMMA RemainingType ==
  ASSUME NEW start \in Clock, NEW now \in Clock, NEW allowed \in Nat
  PROVE  remaining(start, allowed, now) \in Nat /\ remaining(start, allowed, now) <= allowed
BY DeltaType DEF remaining

LEMMA UntilType ==
  ASSUME NEW now \in Clock, NEW deadline \in Clock
  PROVE  until(now, deadline) \in Nat
BY DeltaType DEF until

(* While something is left, elapsed and left add up to the budget, and the
   clock is ahead of the anchor: nothing is granted on a clock that stepped
   back behind it (budget.go:35-41). *)
THEOREM RemainingIsExact ==
  ASSUME NEW start \in Clock, NEW now \in Clock, NEW allowed \in Nat,
         remaining(start, allowed, now) > 0
  PROVE  /\ monotonicValid(start, now)
         /\ monotonicDelta(start, now) + remaining(start, allowed, now) = allowed
BY DeltaType DEF remaining

(* Later readings leave no more: as long as less than 2^63 ns pass, a spent
   budget stays spent. *)
THEOREM BudgetOnlyShrinks ==
  ASSUME NEW start \in Clock, NEW now \in Clock, NEW later \in Clock, NEW allowed \in Nat,
         monotonicDelta(start, now) <= monotonicDelta(start, later)
  PROVE  remaining(start, allowed, later) <= remaining(start, allowed, now)
BY DeltaType, HalfAssumption DEF remaining, monotonicValid, Wrap

(* A budget cut to what an absolute deadline leaves never outlives it: at any
   reading that leaves something, no more is left than until the deadline,
   wherever the readings wrapped (gate.go:188-201). *)
THEOREM RemainingEndsByDeadline ==
  ASSUME NEW start \in Clock, NEW now \in Clock, NEW deadline \in Clock,
         NEW allowed \in Nat,
         allowed <= until(start, deadline),
         remaining(start, allowed, now) > 0
  PROVE  remaining(start, allowed, now) <= until(now, deadline)
<1>1. /\ monotonicDelta(start, now) < Half
      /\ monotonicDelta(start, now) < allowed
      /\ remaining(start, allowed, now) = allowed - monotonicDelta(start, now)
  BY DeltaType DEF remaining, monotonicValid
<1>2. /\ monotonicDelta(start, deadline) < Half
      /\ allowed <= monotonicDelta(start, deadline)
  BY <1>1, DeltaType DEF until, monotonicValid
<1>3. monotonicDelta(now, deadline)
        = monotonicDelta(start, deadline) - monotonicDelta(start, now)
  BY <1>1, <1>2, HalfAssumption DEF monotonicDelta, Clock, Wrap
<1>4. QED
  BY <1>1, <1>2, <1>3, DeltaType, HalfAssumption DEF until, monotonicValid

-----------------------------------------------------------------------------
(* The contracted budget is the least of the enforcing specifications', which
   exists because there is one and each is a positive number. *)
LEMMA MinimumIsLeast ==
  ASSUME NEW specs \in SUBSET SpecificationFilter, specs # {}, ~WithoutBudget(specs)
  PROVE  /\ minimumBudget(specs) \in Nat
         /\ \A spec \in specs :
              /\ spec.latencyBudgetNanoseconds \in Nat
              /\ minimumBudget(specs) <= spec.latencyBudgetNanoseconds
<1> DEFINE budgets == {spec.latencyBudgetNanoseconds : spec \in specs}
<1>1. \A spec \in specs : spec.latencyBudgetNanoseconds \in Nat
  BY DEF SpecificationFilter, WithoutBudget
<1>2. budgets \subseteq Nat /\ budgets # {}
  BY <1>1
<1>3. PICK b \in budgets : \A x \in budgets : <<x, b>> \notin OpToRel(<, Nat)
  BY <1>2, NatLessThanWellFounded, WFMin, Zenon
<1>4. \A spec \in specs : b <= spec.latencyBudgetNanoseconds
  <2> SUFFICES ASSUME NEW spec \in specs PROVE b <= spec.latencyBudgetNanoseconds
    OBVIOUS
  <2>1. /\ spec.latencyBudgetNanoseconds \in budgets
        /\ <<spec.latencyBudgetNanoseconds, b>> \in Nat \X Nat
    BY <1>2
  <2>2. ~(spec.latencyBudgetNanoseconds < b)
    BY <1>3, <2>1 DEF OpToRel
  <2>3. QED
    BY <2>1, <2>2
<1>5. /\ minimumBudget(specs) \in budgets
      /\ \A spec \in specs : minimumBudget(specs) <= spec.latencyBudgetNanoseconds
  BY <1>4 DEF minimumBudget
<1>6. QED
  BY <1>1, <1>2, <1>5

(* What the arguments of a call guarantee about its enforcing set. *)
LEMMA EnforcingType ==
  ASSUME NEW c \in Calls, input[c] \in Inputs
  PROVE  /\ enforcing(c) \in SUBSET SpecificationFilter
         /\ HasPolicy(c) => filterOf(c).epoch \in Nat
         /\ input[c].event \in ProducerEvent \cup {Nil}
         /\ input[c].options \in Options
         /\ input[c].deadline \in Clock \cup {Nil}
<1>1. input[c] \in Input
  BY GateAssumption
<1>2. input[c].filter \in EventFilter \cup {Nil} /\ input[c].options \in Options
  BY <1>1 DEF Input
<1>3. enforcing(c) \in SUBSET SpecificationFilter
  BY <1>2 DEF enforcing, Enforcing, OrZero, ZeroEventFilter, EventFilter
<1>4. HasPolicy(c) => filterOf(c).epoch \in Nat
  BY <1>2 DEF HasPolicy, filterOf, EventFilter
<1>5. QED
  BY <1>1, <1>2, <1>3, <1>4 DEF Input

(* The effective budget is within every contracted budget and the deadline. *)
LEMMA EffectiveBudgetFits ==
  ASSUME NEW c \in Calls, input[c] \in Inputs, ReadyToMeasure(c), NEW now \in Clock
  PROVE  /\ effectiveBudget(c, now) \in Nat
         /\ \A spec \in enforcing(c) :
              /\ spec.latencyBudgetNanoseconds \in Nat
              /\ effectiveBudget(c, now) <= spec.latencyBudgetNanoseconds
         /\ input[c].deadline # Nil =>
              effectiveBudget(c, now) <= until(now, input[c].deadline)
<1>1. enforcing(c) # {} /\ ~WithoutBudget(enforcing(c))
  BY DEF ReadyToMeasure, IsEnforced
<1>2. /\ minimumBudget(enforcing(c)) \in Nat
      /\ \A spec \in enforcing(c) :
           /\ spec.latencyBudgetNanoseconds \in Nat
           /\ minimumBudget(enforcing(c)) <= spec.latencyBudgetNanoseconds
  BY <1>1, EnforcingType, MinimumIsLeast
<1>3. input[c].deadline # Nil => until(now, input[c].deadline) \in Nat
  BY EnforcingType, UntilType
<1>4. QED
  BY <1>2, <1>3 DEF effectiveBudget

-----------------------------------------------------------------------------
(* The inductive invariant says what each location of a call knows.        *)

(* Past the anchor: every check before the clock has passed, and the budget
   is within every contracted one and within the deadline. *)
Fits(c) ==
  /\ ReadyToMeasure(c)
  /\ \A spec \in enforcing(c) :
       /\ spec.latencyBudgetNanoseconds \in Nat
       /\ budget[c] <= spec.latencyBudgetNanoseconds
  /\ input[c].deadline # Nil => budget[c] <= until(anchor[c], input[c].deadline)

(* Past the second reading: the request carries what was left at it. *)
Stamped(c) ==
  /\ request[c] \in DecideRequest
  /\ request[c].remainingTransportBudgetNanoseconds
       = remaining(anchor[c], budget[c], readAt[c])
  /\ request[c].remainingTransportBudgetNanoseconds > 0

(* A call that reached the endpoint was alive when it was anchored and checked. *)
AskedAlive(c) ==
  /\ c \notin doomed
  /\ input[c].deadline # Nil => until(anchor[c], input[c].deadline) > 0

CallInv(c) ==
  /\ pc[c] = "idle" => input[c] = Nil
  /\ pc[c] # "idle" => input[c] \in Inputs
  /\ pc[c] \in {"anchored", "built", "asking", "asked", "answered"} => Fits(c)
  /\ pc[c] \in {"built", "asking", "asked", "answered"} => Stamped(c)
  /\ c \in doomed /\ pc[c] # "idle" => c \in ctxDone
  /\ pc[c] = "asking" => c \notin doomed
  /\ pc[c] \in {"asked", "answered"} => c \in asked
  /\ pc[c] \in {"idle", "entered", "anchored", "built", "asking", "panicked"} =>
       c \notin asked /\ answer[c] = Nil
  /\ c \in asked => AskedAlive(c)
  /\ pc[c] = "answered" => answer[c] \in Actions \cup Errors
  /\ pc[c] = "returned" => outcome[c] \in GateOutcome
  /\ pc[c] # "returned" => outcome[c] = Nil

Inv == TypeOK /\ \A c \in Calls : CallInv(c)

(* A call that nobody touched: its state is as before, its context perhaps
   cancelled. *)
Untouched(d) ==
  /\ pc'[d] = pc[d] /\ input'[d] = input[d]
  /\ anchor'[d] = anchor[d] /\ budget'[d] = budget[d] /\ readAt'[d] = readAt[d]
  /\ request'[d] = request[d] /\ answer'[d] = answer[d] /\ outcome'[d] = outcome[d]
  /\ d \in doomed' <=> d \in doomed
  /\ d \in asked' <=> d \in asked
  /\ d \in ctxDone => d \in ctxDone'

(* What a call knows depends on nothing but its own state. *)
LEMMA UntouchedKeepsInv ==
  ASSUME NEW d \in Calls, CallInv(d), Untouched(d)
  PROVE  CallInv(d)'
<1>1. Fits(d) => Fits(d)'
  BY DEF Untouched, Fits, ReadyToMeasure, IsEnforced, HasPolicy, wired, filterOf, enforcing
<1>2. Stamped(d) => Stamped(d)'
  BY DEF Untouched, Stamped
<1>3. AskedAlive(d) => AskedAlive(d)'
  BY DEF Untouched, AskedAlive
<1>4. QED
  BY <1>1, <1>2, <1>3 DEF Untouched, CallInv

(* So a step of one call has only that call to answer for. *)
LEMMA OneCallMoves ==
  ASSUME Inv, NEW c \in Calls, TypeOK', CallInv(c)',
         \A d \in Calls : d # c => Untouched(d)
  PROVE  Inv'
<1>1. \A d \in Calls : d # c => CallInv(d)'
  BY UntouchedKeepsInv DEF Inv
<1>2. QED
  BY <1>1 DEF Inv

(* The arguments of a call, and what is derived from them, while it runs. *)
LEMMA SameArguments ==
  ASSUME NEW c \in Calls, input'[c] = input[c]
  PROVE  /\ enforcing(c)' = enforcing(c)
         /\ HasPolicy(c)' = HasPolicy(c)
         /\ ReadyToMeasure(c)' = ReadyToMeasure(c)
         /\ filterOf(c)' = filterOf(c)
BY DEF enforcing, HasPolicy, ReadyToMeasure, IsEnforced, wired, filterOf

-----------------------------------------------------------------------------
(* Returning, from whatever place in the call. *)
LEMMA ReturnKeepsInv ==
  ASSUME Inv, NEW c \in Calls, pc[c] \notin {"idle", "returned", "panicked"},
         NEW kind \in OutcomeKinds, NEW reason \in Reasons,
         NEW decisions \in Actions \cup {Nil}, Return(c, kind, reason, decisions),
         readAt' \in [Calls -> Clock], \A d \in Calls : d # c => readAt'[d] = readAt[d],
         UNCHANGED <<world, input, anchor, budget, request, answer, doomed, asked>>
  PROVE  Inv'
<1> USE DEF Inv, TypeOK
<1>1. CallInv(c) /\ input[c] \in Inputs
  BY DEF CallInv
<1>2. HasPolicy(c) => filterOf(c).epoch \in Nat
  BY <1>1, EnforcingType
<1>3. /\ outcome'[c] \in GateOutcome
      /\ pc' = [pc EXCEPT ![c] = "returned"]
      /\ outcome' = [outcome EXCEPT ![c] = outcome'[c]]
  BY <1>2 DEF Return, GateOutcome
<1>4. TypeOK'
  BY <1>3 DEF world
<1>5. AskedAlive(c) => AskedAlive(c)'
  BY DEF AskedAlive
<1>6. CallInv(c)'
  BY <1>1, <1>3, <1>5 DEF CallInv, world
<1>7. \A d \in Calls : d # c => Untouched(d)
  BY <1>3 DEF Untouched, world
<1>8. QED
  BY <1>4, <1>6, <1>7, OneCallMoves

LEMMA FailModeKeepsInv ==
  ASSUME Inv, NEW c \in Calls, pc[c] \notin {"idle", "returned", "panicked"},
         NEW reason \in Reasons, NEW decisions \in Actions \cup {Nil},
         applyFailMode(c, reason, decisions),
         readAt' \in [Calls -> Clock], \A d \in Calls : d # c => readAt'[d] = readAt[d],
         UNCHANGED <<world, input, anchor, budget, request, answer, doomed, asked>>
  PROVE  Inv'
<1>1. PICK kind \in {"FailOpenPermit", "FailClosedDeny"} : Return(c, kind, reason, decisions)
  BY DEF applyFailMode
<1>2. kind \in OutcomeKinds
  BY DEF OutcomeKinds
<1>3. QED
  BY <1>1, <1>2, ReturnKeepsInv

-----------------------------------------------------------------------------
(* Every step of Gate, of its callers and of the world keeps the invariant. *)
LEMMA InitInv == Init => Inv
BY HalfAssumption, GateAssumption DEF Init, Inv, TypeOK, CallInv, Clock, Wrap

LEMMA EnterKeepsInv ==
  ASSUME Inv, NEW c \in Calls, NEW i \in Inputs, NEW done \in BOOLEAN, Enter(c, i, done)
  PROVE  Inv'
<1> USE DEF Inv, TypeOK
<1>1. TypeOK'
  BY HalfAssumption DEF Enter, Clock, Wrap
<1>2. CallInv(c)'
  BY DEF Enter, CallInv
<1>3. \A d \in Calls : d # c => Untouched(d)
  BY DEF Enter, Untouched
<1>4. QED
  BY <1>1, <1>2, <1>3, OneCallMoves

(* The early returns, and the panics. *)
LEMMA BeforeTheClockKeepsInv ==
  ASSUME Inv, NEW c \in Calls,
         \/ NoFilter(c) \/ NotEnforced(c) \/ PanicWithoutContract(c)
         \/ NoLatencyBudget(c) \/ ClockUnavailable(c)
  PROVE  Inv'
<1> USE DEF Inv, history
<1>0. readAt' = readAt => readAt' \in [Calls -> Clock]
  BY DEF TypeOK
<1>1. CASE NoFilter(c)
  BY <1>0, <1>1, ReturnKeepsInv DEF NoFilter, OutcomeKinds, Reasons, UnaskedReasons
<1>2. CASE NotEnforced(c)
  BY <1>0, <1>2, ReturnKeepsInv DEF NotEnforced, OutcomeKinds, Reasons, UnaskedReasons
<1>3. CASE PanicWithoutContract(c)
  <2>1. TypeOK'
    BY <1>3 DEF PanicWithoutContract, TypeOK, world, locals
  <2>2. CallInv(c)'
    BY <1>3 DEF PanicWithoutContract, CallInv, TypeOK, world, locals
  <2>3. \A d \in Calls : d # c => Untouched(d)
    BY <1>3 DEF PanicWithoutContract, Untouched, TypeOK, world, locals
  <2>4. QED
    BY <2>1, <2>2, <2>3, OneCallMoves
<1>4. CASE NoLatencyBudget(c)
  BY <1>0, <1>4, FailModeKeepsInv DEF NoLatencyBudget, Reasons, UnaskedReasons
<1>5. CASE ClockUnavailable(c)
  BY <1>0, <1>5, FailModeKeepsInv DEF ClockUnavailable, Reasons, UnaskedReasons
<1>6. QED
  BY <1>1, <1>2, <1>3, <1>4, <1>5

LEMMA ReadAnchorKeepsInv ==
  ASSUME Inv, NEW c \in Calls, ReadAnchor(c)
  PROVE  Inv'
<1> USE DEF Inv, TypeOK, ReadAnchor
<1>1. /\ effectiveBudget(c, clock) \in Nat
      /\ \A spec \in enforcing(c) :
           /\ spec.latencyBudgetNanoseconds \in Nat
           /\ effectiveBudget(c, clock) <= spec.latencyBudgetNanoseconds
      /\ input[c].deadline # Nil =>
           effectiveBudget(c, clock) <= until(clock, input[c].deadline)
  BY EffectiveBudgetFits DEF CallInv
<1>2. TypeOK'
  BY <1>1 DEF world
<1>3. Fits(c)'
  BY <1>1, SameArguments DEF Fits
<1>4. CallInv(c)'
  BY <1>3 DEF CallInv, world
<1>5. \A d \in Calls : d # c => Untouched(d)
  BY DEF Untouched, world
<1>6. QED
  BY <1>2, <1>4, <1>5, OneCallMoves

LEMMA BuildRequestKeepsInv ==
  ASSUME Inv, NEW c \in Calls, BuildRequest(c)
  PROVE  Inv'
<1> USE DEF Inv, TypeOK, BuildRequest
<1>1. Fits(c) /\ input[c] \in Inputs
  BY DEF CallInv
<1>2. /\ filterOf(c).epoch \in Nat
      /\ input[c].event \in ProducerEvent \cup {Nil}
      /\ input[c].options \in Options
      /\ remaining(anchor[c], budget[c], clock) \in Nat
  BY <1>1, EnforcingType, RemainingType DEF Fits, ReadyToMeasure, IsEnforced
<1>3. request'[c] \in DecideRequest
  BY <1>2 DEF DecideRequest, RequestWith, Options
<1>4. TypeOK'
  BY <1>3
  DEF world
<1>5. Fits(c)'
  BY <1>1, SameArguments DEF Fits
<1>6. Stamped(c)'
  BY <1>3 DEF Stamped, RequestWith
<1>7. CallInv(c)'
  BY <1>5, <1>6 DEF CallInv, world
<1>8. \A d \in Calls : d # c => Untouched(d)
  BY DEF Untouched, world
<1>9. QED
  BY <1>4, <1>7, <1>8, OneCallMoves

(* Moving on without touching the local variables: to the ask, to the endpoint
   or into a panic. *)
LEMMA AskingKeepsInv ==
  ASSUME Inv, NEW c \in Calls, ContextAlive(c) \/ PanicWithoutDecide(c) \/ Decide(c)
  PROVE  Inv'
<1> USE DEF Inv, TypeOK, ContextAlive, PanicWithoutDecide, Decide, world, locals, history
<1>1. Fits(c) /\ Stamped(c) /\ pc[c] \in {"built", "asking"} /\ input[c] \in Inputs
  BY DEF CallInv
<1>2. TypeOK'
  OBVIOUS
<1>3. Fits(c)' /\ Stamped(c)'
  BY <1>1, SameArguments DEF Fits, Stamped
<1>4. input[c].deadline # Nil => until(anchor[c], input[c].deadline) > 0
  <2>1. budget[c] > 0
    BY <1>1, RemainingType DEF Stamped
  <2>2. input[c].deadline # Nil => until(anchor[c], input[c].deadline) \in Nat
    BY <1>1, EnforcingType, UntilType
  <2>3. QED
    BY <1>1, <2>1, <2>2 DEF Fits
<1>5. CallInv(c)'
  BY <1>1, <1>3, <1>4 DEF CallInv, AskedAlive
<1>6. \A d \in Calls : d # c => Untouched(d)
  BY DEF Untouched
<1>7. QED
  BY <1>2, <1>5, <1>6, OneCallMoves

LEMMA EndpointKeepsInv ==
  ASSUME Inv, NEW c \in Calls, NEW a \in Actions \cup Errors, EndpointReturns(c, a)
  PROVE  Inv'
<1> USE DEF Inv, TypeOK, EndpointReturns, world, history
<1>1. Fits(c) /\ Stamped(c) /\ AskedAlive(c)
  BY DEF CallInv
<1>2. TypeOK'
  OBVIOUS
<1>3. Fits(c)' /\ Stamped(c)' /\ AskedAlive(c)'
  BY <1>1, SameArguments DEF Fits, Stamped, AskedAlive
<1>4. CallInv(c)'
  BY <1>3 DEF CallInv
<1>5. \A d \in Calls : d # c => Untouched(d)
  BY DEF Untouched
<1>6. QED
  BY <1>2, <1>4, <1>5, OneCallMoves

(* Giving up before the ask, and honouring or resolving an answer. *)
LEMMA AfterTheClockKeepsInv ==
  ASSUME Inv, NEW c \in Calls,
         \/ BudgetExhausted(c) \/ ContextDone(c) \/ AskFailed(c)
         \/ Honour(c) \/ Defer(c) \/ Unresolved(c)
  PROVE  Inv'
<1> USE DEF Inv, history, Reasons, UnaskedReasons, AnsweredReasons, Errors
<1>0. /\ readAt' = readAt => readAt' \in [Calls -> Clock]
      /\ readAt' = [readAt EXCEPT ![c] = clock] =>
           /\ readAt' \in [Calls -> Clock]
           /\ \A d \in Calls : d # c => readAt'[d] = readAt[d]
  BY DEF TypeOK
<1>1. CASE BudgetExhausted(c)
  BY <1>0, <1>1, FailModeKeepsInv DEF BudgetExhausted
<1>2. CASE ContextDone(c)
  BY <1>0, <1>2, FailModeKeepsInv DEF ContextDone
<1>3. CASE AskFailed(c)
  BY <1>0, <1>3, FailModeKeepsInv DEF AskFailed
<1>4. CASE Honour(c)
  BY <1>0, <1>4, ReturnKeepsInv DEF Honour, OutcomeKinds, Actions, DecisionActions
<1>5. CASE Defer(c)
  <2>1. answer[c] \in Actions
    BY <1>5 DEF Defer, Actions, DecisionActions
  <2>2. CASE Return(c, "Defer", "defer", answer[c])
    BY <1>0, <1>5, <2>1, <2>2, ReturnKeepsInv DEF Defer, OutcomeKinds
  <2>3. CASE applyFailMode(c, "defer-budget-exhausted", answer[c])
    BY <1>0, <1>5, <2>1, <2>3, FailModeKeepsInv DEF Defer
  <2>4. QED
    BY <1>5, <2>2, <2>3 DEF Defer
<1>6. CASE Unresolved(c)
  BY <1>0, <1>6, FailModeKeepsInv DEF Unresolved, Actions, DecisionActions
<1>7. QED
  BY <1>1, <1>2, <1>3, <1>4, <1>5, <1>6

(* A call that is cancelled before Gate looks at its context has asked nothing. *)
LEMMA CancelKeepsInv ==
  ASSUME Inv, NEW c \in Calls, Cancel(c)
  PROVE  Inv'
<1> USE DEF Inv, Cancel, locals
<1>1. TypeOK'
  BY DEF TypeOK
<1>2. CallInv(c)'
  <2>1. CallInv(c) /\ input' = input
    OBVIOUS
  <2>2. Fits(c) => Fits(c)'
    BY <2>1, SameArguments DEF Fits
  <2>3. Stamped(c) => Stamped(c)'
    BY DEF Stamped
  <2>4. c \in asked => AskedAlive(c)'
    BY <2>1 DEF CallInv, AskedAlive
  <2>5. QED
    BY <2>1, <2>2, <2>3, <2>4 DEF CallInv
<1>3. \A d \in Calls : d # c => Untouched(d)
  BY DEF Untouched
<1>4. QED
  BY <1>1, <1>2, <1>3, OneCallMoves

LEMMA WorldKeepsInv ==
  ASSUME Inv, (\E t \in Clock : ClockMoves(t)) \/ UNCHANGED vars
  PROVE  Inv'
<1> USE DEF Inv, ClockMoves, vars, world, locals, history
<1>1. TypeOK'
  BY DEF TypeOK
<1>2. \A d \in Calls : Untouched(d)
  BY DEF Untouched
<1>3. QED
  BY <1>1, <1>2, UntouchedKeepsInv

LEMMA NextKeepsInv == Inv /\ [Next]_vars => Inv'
BY EnterKeepsInv, BeforeTheClockKeepsInv, ReadAnchorKeepsInv, BuildRequestKeepsInv,
   AskingKeepsInv, EndpointKeepsInv, AfterTheClockKeepsInv, CancelKeepsInv,
   WorldKeepsInv
DEF Next, Step, TransportGivesUp, Errors

LEMMA Invariance == Spec => []Inv
BY NextKeepsInv, InitInv, PTL DEF Spec

(* Every variable of Gate keeps its type. *)
THEOREM GateTypeCorrect == Spec => []TypeOK
BY Invariance, PTL DEF Inv

-----------------------------------------------------------------------------
(* A positive stamp ends within every contracted budget counted from the
   anchor, and by the caller's deadline. *)
THEOREM StampsFit == Spec => []StampFitsEveryBudget
<1>1. Inv => StampFitsEveryBudget
  <2> SUFFICES ASSUME Inv, NEW c \in Calls,
                      pc[c] \in {"built", "asking", "asked", "answered"}
               PROVE  /\ request[c].remainingTransportBudgetNanoseconds > 0
                      /\ monotonicValid(anchor[c], readAt[c])
                      /\ \A spec \in enforcing(c) :
                           monotonicDelta(anchor[c], readAt[c])
                             + request[c].remainingTransportBudgetNanoseconds
                             <= spec.latencyBudgetNanoseconds
                      /\ input[c].deadline # Nil =>
                           request[c].remainingTransportBudgetNanoseconds
                             <= until(readAt[c], input[c].deadline)
    BY DEF StampFitsEveryBudget
  <2> USE DEF Inv, TypeOK
  <2>1. Fits(c) /\ Stamped(c) /\ input[c] \in Inputs
    BY DEF CallInv
  <2>2. /\ monotonicValid(anchor[c], readAt[c])
        /\ monotonicDelta(anchor[c], readAt[c])
             + request[c].remainingTransportBudgetNanoseconds = budget[c]
    BY <2>1, RemainingIsExact DEF Stamped
  <2>3. input[c].deadline # Nil =>
          request[c].remainingTransportBudgetNanoseconds
            <= until(readAt[c], input[c].deadline)
    BY <2>1, EnforcingType, RemainingEndsByDeadline DEF Stamped, Fits
  <2>4. QED
    BY <2>1, <2>2, <2>3, RemainingType, DeltaType DEF Stamped, Fits
<1>2. QED
  BY <1>1, Invariance, PTL

(* No call whose context was done, or whose deadline had passed, is asked. *)
THEOREM AsksAreAlive == Spec => []AsksOnlyWhileAlive
<1>1. Inv => AsksOnlyWhileAlive
  BY DEF Inv, TypeOK, CallInv, AskedAlive, AsksOnlyWhileAlive
<1>2. QED
  BY <1>1, Invariance, PTL

-----------------------------------------------------------------------------
(* A call is finished because it was, or because one of these steps ended it. *)
Finishes(d) ==
  \/ NoFilter(d) \/ NotEnforced(d) \/ NoLatencyBudget(d) \/ ClockUnavailable(d)
  \/ BudgetExhausted(d) \/ ContextDone(d)
  \/ AskFailed(d) \/ Honour(d) \/ Defer(d) \/ Unresolved(d)

Panics(d) == PanicWithoutContract(d) \/ PanicWithoutDecide(d)

LEMMA HowCallsEnd ==
  ASSUME Inv, [Next]_vars, NEW d \in Calls, pc'[d] \in {"returned", "panicked"}
  PROVE  \/ Untouched(d)
         \/ pc'[d] = "returned" /\ Finishes(d)
         \/ pc'[d] = "panicked" /\ Panics(d)
<1> USE DEF Inv, TypeOK, world, locals, history
<1>1. CASE UNCHANGED vars
  BY <1>1 DEF vars, Untouched
<1>2. CASE \E t \in Clock : ClockMoves(t)
  BY <1>2 DEF ClockMoves, Untouched
<1>3. ASSUME NEW c \in Calls, Cancel(c) PROVE Untouched(d)
  BY <1>3 DEF Cancel, Untouched
<1>4. ASSUME NEW c \in Calls, NEW i \in Inputs, NEW done \in BOOLEAN, Enter(c, i, done)
      PROVE  Untouched(d)
  BY <1>4 DEF Enter, Untouched
<1>5. ASSUME NEW c \in Calls, NEW a \in Actions \cup Errors, EndpointReturns(c, a)
      PROVE  Untouched(d)
  BY <1>5 DEF EndpointReturns, Untouched
<1>6. ASSUME NEW c \in Calls, ReadAnchor(c) \/ BuildRequest(c)
      PROVE  Untouched(d)
  BY <1>6 DEF ReadAnchor, BuildRequest, Untouched
<1>7. ASSUME NEW c \in Calls, ContextAlive(c) \/ Decide(c)
      PROVE  Untouched(d)
  BY <1>7 DEF ContextAlive, Decide, Untouched
<1>8. ASSUME NEW c \in Calls, Panics(c)
      PROVE  Untouched(d) \/ (pc'[d] = "panicked" /\ Panics(d))
  <2>1. CASE c = d
    BY <1>8, <2>1 DEF Panics, PanicWithoutContract, PanicWithoutDecide
  <2>2. CASE c # d
    BY <1>8, <2>2 DEF Panics, PanicWithoutContract, PanicWithoutDecide, Untouched
  <2>3. QED
    BY <2>1, <2>2
<1>9. ASSUME NEW c \in Calls, Finishes(c)
      PROVE  Untouched(d) \/ (pc'[d] = "returned" /\ Finishes(d))
  <2>1. CASE c = d
    BY <1>9, <2>1 DEF Finishes, NoFilter, NotEnforced, NoLatencyBudget, ClockUnavailable,
       BudgetExhausted, ContextDone, AskFailed, Honour, Defer, Unresolved,
       applyFailMode, Return
  <2>2. CASE c # d
    BY <1>9, <2>2 DEF Finishes, NoFilter, NotEnforced, NoLatencyBudget, ClockUnavailable,
       BudgetExhausted, ContextDone, AskFailed, Honour, Defer, Unresolved,
       applyFailMode, Return, Untouched
  <2>3. QED
    BY <2>1, <2>2
<1>10. QED
  BY <1>1, <1>2, <1>3, <1>4, <1>5, <1>6, <1>7, <1>8, <1>9
  DEF Next, Step, TransportGivesUp, Errors, Finishes, Panics

(* Returning says what the call returned. *)
LEMMA ReturnedOutcome ==
  ASSUME Inv, NEW d \in Calls, NEW kind, NEW reason, NEW decisions,
         Return(d, kind, reason, decisions)
  PROVE  /\ outcome'[d].kind = kind
         /\ outcome'[d].reason = reason
         /\ outcome'[d].decisions = decisions
         /\ outcome'[d].filterEpoch = IF HasPolicy(d) THEN filterOf(d).epoch ELSE Nil
BY DEF Return, Inv, TypeOK

(* ... and so does the fail mode. *)
LEMMA FailModeOutcome ==
  ASSUME Inv, NEW d \in Calls, NEW reason, NEW decisions,
         applyFailMode(d, reason, decisions)
  PROVE  /\ outcome'[d].kind \in {"FailOpenPermit", "FailClosedDeny"}
         /\ outcome'[d].kind = "FailClosedDeny" <=> failMode(d) = "CLOSED"
         /\ outcome'[d].reason = reason
         /\ outcome'[d].decisions = decisions
         /\ outcome'[d].filterEpoch = IF HasPolicy(d) THEN filterOf(d).epoch ELSE Nil
BY ReturnedOutcome DEF applyFailMode

LEMMA FailModeIsTheContract ==
  ASSUME NEW c PROVE failMode(c) = "CLOSED" <=> ContractedClosed(c)
BY DEF failMode, aggregateFailMode, ContractedClosed, ClosedContract, enforcing

(* Everything a property of a finished call reads of it is kept, or was set by
   the step that finished it. *)
LEMMA KeptWhileFinishing ==
  ASSUME NEW d \in Calls, Finishes(d)
  PROVE  /\ UNCHANGED <<input, anchor, budget, request, answer, doomed, asked>>
         /\ ContractedClosed(d)' = ContractedClosed(d)
         /\ HasPolicy(d)' = HasPolicy(d)
         /\ enforcing(d)' = enforcing(d)
<1>1. UNCHANGED <<input, anchor, budget, request, answer, doomed, asked>>
  BY DEF Finishes, NoFilter, NotEnforced, NoLatencyBudget, ClockUnavailable,
     BudgetExhausted, ContextDone, AskFailed, Honour, Defer, Unresolved, history
<1>2. QED
  BY <1>1 DEF ContractedClosed, ClosedContract, HasPolicy, enforcing, filterOf

LEMMA KeptWhileUntouched ==
  ASSUME NEW d \in Calls, Untouched(d)
  PROVE  /\ ContractedClosed(d)' = ContractedClosed(d)
         /\ HasPolicy(d)' = HasPolicy(d)
         /\ enforcing(d)' = enforcing(d)
         /\ Permitted(d)' = Permitted(d)
BY DEF Untouched, ContractedClosed, ClosedContract, HasPolicy, enforcing, filterOf, Permitted

(* Under a fail-closed contract only the endpoint's PERMIT lets the host
   proceed. *)
THEOREM ClosedContracts == Spec => []ClosedContractHolds
<1>1. Init => ClosedContractHolds
  BY DEF Init, ClosedContractHolds
<1>2. Inv /\ Inv' /\ ClosedContractHolds /\ [Next]_vars => ClosedContractHolds'
  <2> SUFFICES ASSUME Inv, ClosedContractHolds, [Next]_vars, NEW d \in Calls,
                      pc'[d] = "returned", HasPolicy(d)', ContractedClosed(d)',
                      Permitted(d)'
               PROVE  answer'[d] = "PERMIT"
    BY DEF ClosedContractHolds
  <2>1. CASE Untouched(d)
    BY <2>1, KeptWhileUntouched DEF Untouched, ClosedContractHolds
  <2>2. ASSUME Finishes(d) PROVE answer'[d] = "PERMIT"
    <3>1. HasPolicy(d) /\ ContractedClosed(d) /\ enforcing(d) # {} /\ answer' = answer
      BY <2>2, KeptWhileFinishing DEF ContractedClosed, ClosedContract, enforcing
    <3>2. ASSUME NEW reason, NEW decisions, applyFailMode(d, reason, decisions)
          PROVE  FALSE
      BY <3>1, <3>2, FailModeOutcome, FailModeIsTheContract DEF Permitted
    <3>3. ASSUME NEW kind, NEW reason, NEW decisions, Return(d, kind, reason, decisions)
          PROVE  kind \in {"Permit", "FailOpenPermit", "NoFilter"}
      BY <3>3, ReturnedOutcome DEF Permitted
    <3>4. QED
      BY <2>2, <3>1, <3>2, <3>3 DEF Finishes, NoFilter, NotEnforced, NoLatencyBudget,
         ClockUnavailable, BudgetExhausted, ContextDone, AskFailed, Honour, Defer, Unresolved
  <2>3. QED
    BY <2>1, <2>2, HowCallsEnd
<1>3. QED
  BY <1>1, <1>2, Invariance, PTL DEF Spec

(* A deferral that stands leaves every budget, and the deadline, ahead. *)
THEOREM DeferralsLeaveTime == Spec => []DeferLeavesTime
<1>1. Init => DeferLeavesTime
  BY DEF Init, DeferLeavesTime
<1>2. Inv /\ DeferLeavesTime /\ [Next]_vars => DeferLeavesTime'
  <2> DEFINE Leaves(d) ==
        /\ monotonicValid(anchor[d], readAt[d])
        /\ \A spec \in enforcing(d) :
             monotonicDelta(anchor[d], readAt[d]) < spec.latencyBudgetNanoseconds
        /\ input[d].deadline # Nil => until(readAt[d], input[d].deadline) > 0
  <2> SUFFICES ASSUME Inv, DeferLeavesTime, [Next]_vars, NEW d \in Calls,
                      pc'[d] = "returned", outcome'[d].kind = "Defer"
               PROVE  Leaves(d)'
    BY DEF DeferLeavesTime
  <2>1. CASE Untouched(d)
    <3>1. Leaves(d)
      BY <2>1 DEF Untouched, DeferLeavesTime
    <3>2. QED
      BY <2>1, <3>1, KeptWhileUntouched DEF Untouched
  <2>2. ASSUME Finishes(d) PROVE Leaves(d)'
    <3>1. ASSUME NEW reason, NEW decisions, applyFailMode(d, reason, decisions)
          PROVE  FALSE
      BY <3>1, FailModeOutcome
    <3>2. ASSUME NEW kind, NEW reason, NEW decisions, Return(d, kind, reason, decisions)
          PROVE  kind = "Defer"
      BY <3>2, ReturnedOutcome
    <3>3. Defer(d) /\ remaining(anchor[d], budget[d], clock) > 0
      BY <2>2, <3>1, <3>2 DEF Finishes, NoFilter, NotEnforced, NoLatencyBudget,
         ClockUnavailable, BudgetExhausted, ContextDone, AskFailed, Honour, Defer, Unresolved
    <3>4. Fits(d) /\ input[d] \in Inputs /\ readAt'[d] = clock
      BY <3>3 DEF Defer, Inv, CallInv, TypeOK
    <3>5. /\ anchor[d] \in Clock /\ clock \in Clock /\ budget[d] \in Nat
      BY DEF Inv, TypeOK
    <3>6. /\ monotonicValid(anchor[d], clock)
          /\ monotonicDelta(anchor[d], clock) < budget[d]
      BY <3>3, <3>5, RemainingIsExact, DeltaType, RemainingType
    <3>7. input[d].deadline # Nil => until(clock, input[d].deadline) > 0
      <4> SUFFICES ASSUME input[d].deadline # Nil
                   PROVE  until(clock, input[d].deadline) > 0
        OBVIOUS
      <4>1. input[d].deadline \in Clock
        BY <3>4, EnforcingType
      <4>2. remaining(anchor[d], budget[d], clock) <= until(clock, input[d].deadline)
        BY <3>3, <3>4, <3>5, <4>1, RemainingEndsByDeadline DEF Fits
      <4>3. /\ remaining(anchor[d], budget[d], clock) \in Nat
            /\ until(clock, input[d].deadline) \in Nat
        BY <3>5, <4>1, RemainingType, UntilType
      <4>4. remaining(anchor[d], budget[d], clock) > 0
        BY <3>3
      <4>5. QED
        BY <4>2, <4>3, <4>4
    <3>8. \A spec \in enforcing(d) :
            monotonicDelta(anchor[d], clock) < spec.latencyBudgetNanoseconds
      BY <3>4, <3>5, <3>6, DeltaType DEF Fits
    <3>9. QED
      BY <2>2, <3>4, <3>6, <3>7, <3>8, KeptWhileFinishing
  <2>3. QED
    BY <2>1, <2>2, HowCallsEnd
<1>3. QED
  BY <1>1, <1>2, Invariance, PTL DEF Spec

(* What a call had got to when a step finished it: a policy, unless it returned
   for want of one; the endpoint, exactly when it was answered. *)
LEMMA WhereCallsFinish ==
  ASSUME Inv, NEW d \in Calls, Finishes(d)
  PROVE  \/ NoFilter(d) /\ ~HasPolicy(d) /\ d \notin asked
         \/ NotEnforced(d) /\ HasPolicy(d) /\ d \notin asked
         \/ /\ NoLatencyBudget(d) \/ ClockUnavailable(d)
            /\ HasPolicy(d) /\ d \notin asked
         \/ /\ BudgetExhausted(d) \/ ContextDone(d)
            /\ HasPolicy(d) /\ d \notin asked
         \/ /\ AskFailed(d) \/ Honour(d) \/ Defer(d) \/ Unresolved(d)
            /\ HasPolicy(d) /\ d \in asked /\ answer[d] # Nil
<1> USE DEF Inv
<1>1. CASE NoFilter(d) \/ NotEnforced(d)
  BY <1>1 DEF NoFilter, NotEnforced, CallInv
<1>2. CASE NoLatencyBudget(d) \/ ClockUnavailable(d)
  BY <1>2 DEF NoLatencyBudget, ClockUnavailable, ReadyToMeasure, IsEnforced, CallInv
<1>3. CASE BudgetExhausted(d) \/ ContextDone(d)
  BY <1>3 DEF BudgetExhausted, ContextDone, CallInv, Fits, ReadyToMeasure, IsEnforced
<1>4. CASE AskFailed(d) \/ Honour(d) \/ Defer(d) \/ Unresolved(d)
  BY <1>4, GateAssumption
  DEF AskFailed, Honour, Defer, Unresolved, CallInv, Fits, ReadyToMeasure, IsEnforced
<1>5. QED
  BY <1>1, <1>2, <1>3, <1>4 DEF Finishes

(* The other half of the fail modes: nothing but a DENY, a deferral or a contract
   blocks. *)
THEOREM BlocksAreContracted == Spec => []BlocksOnlyUnderContract
<1> DEFINE Allowed(d) ==
      \/ answer[d] = "DENY"
      \/ outcome[d].kind = "Defer" /\ answer[d] = "DEFER"
      \/ HasPolicy(d) /\ ContractedClosed(d)
<1>1. Init => BlocksOnlyUnderContract
  BY DEF Init, BlocksOnlyUnderContract
<1>2. Inv /\ BlocksOnlyUnderContract /\ [Next]_vars => BlocksOnlyUnderContract'
  <2> SUFFICES ASSUME Inv, BlocksOnlyUnderContract, [Next]_vars, NEW d \in Calls,
                      pc'[d] = "returned", ~Permitted(d)'
               PROVE  Allowed(d)'
    BY DEF BlocksOnlyUnderContract
  <2>1. CASE Untouched(d)
    BY <2>1, KeptWhileUntouched DEF Untouched, BlocksOnlyUnderContract
  <2>2. ASSUME Finishes(d) PROVE Allowed(d)'
    <3>1. /\ HasPolicy(d)' = HasPolicy(d) /\ answer' = answer
          /\ ContractedClosed(d)' = ContractedClosed(d)
      BY <2>2, KeptWhileFinishing
    <3>2. ASSUME NEW reason, NEW decisions, applyFailMode(d, reason, decisions), HasPolicy(d)
          PROVE  Allowed(d)'
      BY <3>1, <3>2, FailModeOutcome, FailModeIsTheContract DEF Permitted
    <3>3. ASSUME NEW kind, NEW reason, NEW decisions, Return(d, kind, reason, decisions)
          PROVE  outcome'[d].kind = kind /\ kind \notin {"Permit", "FailOpenPermit", "NoFilter"}
      BY <3>3, ReturnedOutcome DEF Permitted
    <3>4. CASE NoFilter(d) \/ NotEnforced(d)
      BY <3>3, <3>4 DEF NoFilter, NotEnforced
    <3>5. CASE /\ HasPolicy(d)
               /\ \/ NoLatencyBudget(d) \/ ClockUnavailable(d) \/ BudgetExhausted(d)
                  \/ ContextDone(d) \/ AskFailed(d) \/ Unresolved(d)
      BY <3>2, <3>5 DEF NoLatencyBudget, ClockUnavailable, BudgetExhausted, ContextDone,
         AskFailed, Unresolved
    <3>6. CASE Honour(d)
      BY <3>1, <3>3, <3>6 DEF Honour
    <3>7. CASE HasPolicy(d) /\ Defer(d)
      BY <3>1, <3>2, <3>3, <3>7 DEF Defer
    <3>8. QED
      BY <2>2, <3>4, <3>5, <3>6, <3>7, WhereCallsFinish
  <2>3. QED
    BY <2>1, <2>2, HowCallsEnd
<1>3. QED
  BY <1>1, <1>2, Invariance, PTL DEF Spec

(* The audit record is true of the call: no epoch means no policy, and what it
   says about having asked is what happened. *)
THEOREM AuditIsTrue == Spec => []AuditTellsWhatHappened
<1> DEFINE Audited(d) ==
      /\ outcome[d].filterEpoch = Nil <=> outcome[d].kind = "NoFilter"
      /\ outcome[d].reason \in UnaskedReasons => d \notin asked
      /\ outcome[d].reason \in AnsweredReasons =>
           d \in asked /\ outcome[d].decisions = answer[d]
      /\ outcome[d].decisions # Nil => outcome[d].reason \in AnsweredReasons
<1>1. Init => AuditTellsWhatHappened
  BY DEF Init, AuditTellsWhatHappened
<1>2. Inv /\ AuditTellsWhatHappened /\ [Next]_vars => AuditTellsWhatHappened'
  <2> SUFFICES ASSUME Inv, AuditTellsWhatHappened, [Next]_vars, NEW d \in Calls,
                      pc'[d] = "returned"
               PROVE  Audited(d)'
    BY DEF AuditTellsWhatHappened
  <2>1. CASE Untouched(d)
    BY <2>1 DEF Untouched, AuditTellsWhatHappened
  <2>2. ASSUME Finishes(d) PROVE Audited(d)'
    <3>1. asked' = asked /\ answer' = answer
      BY <2>2, KeptWhileFinishing
    <3>2. HasPolicy(d) => filterOf(d).epoch # Nil
      BY DEF HasPolicy
    <3>3. ASSUME NEW kind, NEW reason, NEW decisions, Return(d, kind, reason, decisions),
                 kind = "NoFilter" <=> ~HasPolicy(d),
                 reason \in UnaskedReasons => d \notin asked,
                 reason \in AnsweredReasons => d \in asked /\ decisions = answer[d],
                 decisions # Nil => reason \in AnsweredReasons
          PROVE  Audited(d)'
      BY <3>1, <3>2, <3>3, ReturnedOutcome
    <3>4. ASSUME NEW reason, NEW decisions, applyFailMode(d, reason, decisions),
                 HasPolicy(d),
                 reason \in UnaskedReasons => d \notin asked,
                 reason \in AnsweredReasons => d \in asked /\ decisions = answer[d],
                 decisions # Nil => reason \in AnsweredReasons
          PROVE  Audited(d)'
      BY <3>3, <3>4 DEF applyFailMode
    <3> HIDE DEF Audited
    <3> USE DEF UnaskedReasons, AnsweredReasons
    <3>5. CASE NoFilter(d) /\ ~HasPolicy(d) /\ d \notin asked
      BY <3>3, <3>5 DEF NoFilter
    <3>6. CASE NotEnforced(d) /\ HasPolicy(d) /\ d \notin asked
      BY <3>3, <3>6 DEF NotEnforced
    <3>7. CASE /\ NoLatencyBudget(d) \/ ClockUnavailable(d)
               /\ HasPolicy(d) /\ d \notin asked
      BY <3>4, <3>7 DEF NoLatencyBudget, ClockUnavailable
    <3>8. CASE /\ BudgetExhausted(d) \/ ContextDone(d)
               /\ HasPolicy(d) /\ d \notin asked
      BY <3>4, <3>8 DEF BudgetExhausted, ContextDone
    <3>9. CASE /\ AskFailed(d) \/ Honour(d) \/ Defer(d) \/ Unresolved(d)
               /\ HasPolicy(d) /\ d \in asked /\ answer[d] # Nil
      <4>1. CASE AskFailed(d)
        BY <3>4, <3>9, <4>1 DEF AskFailed, Errors
      <4>2. CASE Honour(d)
        BY <3>3, <3>9, <4>2 DEF Honour
      <4>3. CASE Defer(d)
        BY <3>3, <3>4, <3>9, <4>3 DEF Defer
      <4>4. CASE Unresolved(d)
        BY <3>4, <3>9, <4>4 DEF Unresolved
      <4>5. QED
        BY <3>9, <4>1, <4>2, <4>3, <4>4
    <3>10. QED
      BY <2>2, <3>5, <3>6, <3>7, <3>8, <3>9, WhereCallsFinish
  <2>3. QED
    BY <2>1, <2>2, HowCallsEnd
<1>3. QED
  BY <1>1, <1>2, Invariance, PTL DEF Spec

(* A panic is a missing dependency that this call needed. *)
THEOREM PanicsAreWiringBugs == Spec => []PanicsOnlyWhenUnwired
<1> DEFINE Unwired(d) ==
      /\ IsEnforced(d)
      /\ \/ ~wired(d, "AcceptedFailModeFor")
         \/ ~wired(d, "Decide") /\ request[d] # Nil
<1>1. Init => PanicsOnlyWhenUnwired
  BY DEF Init, PanicsOnlyWhenUnwired
<1>2. Inv /\ PanicsOnlyWhenUnwired /\ [Next]_vars => PanicsOnlyWhenUnwired'
  <2> SUFFICES ASSUME Inv, PanicsOnlyWhenUnwired, [Next]_vars, NEW d \in Calls,
                      pc'[d] = "panicked"
               PROVE  Unwired(d)'
    BY DEF PanicsOnlyWhenUnwired
  <2>1. ASSUME input'[d] = input[d], request'[d] = request[d], Unwired(d)
        PROVE  Unwired(d)'
    BY <2>1, SameArguments DEF wired, IsEnforced
  <2>2. CASE Untouched(d)
    BY <2>1, <2>2 DEF Untouched, PanicsOnlyWhenUnwired
  <2>3. CASE PanicWithoutContract(d)
    BY <2>1, <2>3 DEF PanicWithoutContract, locals
  <2>4. CASE PanicWithoutDecide(d)
    <3>1. Fits(d) /\ Stamped(d)
      BY <2>4 DEF PanicWithoutDecide, Inv, CallInv
    <3>2. IsEnforced(d) /\ request[d] # Nil
      BY <3>1, GateAssumption DEF Fits, Stamped, ReadyToMeasure
    <3>3. QED
      BY <2>1, <2>4, <3>2 DEF PanicWithoutDecide, locals
  <2>5. QED
    BY <2>2, <2>3, <2>4, HowCallsEnd DEF Panics
<1>3. QED
  BY <1>1, <1>2, Invariance, PTL DEF Spec

-----------------------------------------------------------------------------
(* Gate implements EnforcementContract: every step of Gate, of its callers or
   of the world is a step of the contract, or leaves it where it was. *)

(* The contract's state, one call at a time. *)
Phase(c) == PhaseOf(pc[c])
Duty(c) == DutyOf(input[c])
Kind(c) == KindOfOutcome(outcome[c])

(* What a call owes follows from the conditions Gate branches on. *)
LEMMA DutyIsKnown ==
  ASSUME Inv, NEW c \in Calls, pc[c] # "idle"
  PROVE  /\ ~HasPolicy(c) => Duty(c) = "NoPolicy"
         /\ HasPolicy(c) /\ enforcing(c) = {} => Duty(c) = "NotEnforced"
         /\ IsEnforced(c) =>
              /\ Duty(c) \in {"MayFailOpen", "MustFailClosed"}
              /\ Duty(c) = "MustFailClosed" <=> failMode(c) = "CLOSED"
         /\ Duty(c) \in Contract!Duties
<1>1. input[c] \in Input /\ input[c] # Nil
  BY GateAssumption DEF Inv, CallInv
<1>2. failMode(c) = "CLOSED" <=> ClosedContract(input[c])
  BY FailModeIsTheContract DEF ContractedClosed
<1>3. QED
  BY <1>1, <1>2 DEF Duty, DutyOf, HasPolicy, IsEnforced, enforcing, filterOf,
     Contract!Duties

(* A call nobody touched is nowhere else in the contract. *)
LEMMA UntouchedInContract ==
  ASSUME NEW d \in Calls, Untouched(d)
  PROVE  Phase(d)' = Phase(d) /\ Duty(d)' = Duty(d) /\ Kind(d)' = Kind(d)
         /\ answer'[d] = answer[d]
BY DEF Untouched, Phase, Duty, Kind

(* A step that returns finishes the call in the contract. *)
LEMMA ReturnFinishes ==
  ASSUME Inv, NEW c \in Calls, NEW kind \in OutcomeKinds, NEW reason, NEW decisions,
         pc[c] \notin {"idle", "returned", "panicked"},
         Return(c, kind, reason, decisions), UNCHANGED <<input, answer>>,
         reason \in Reasons, decisions \in Actions \cup {Nil}
  PROVE  Contract!Finish(c, kind)
<1> USE DEF Inv, TypeOK
<1>1. outcome'[c].kind = kind /\ outcome'[c] # Nil
  <2>1. HasPolicy(c) => filterOf(c).epoch \in Nat
    BY EnforcingType DEF CallInv
  <2>2. outcome'[c] \in GateOutcome
    BY <2>1 DEF Return, GateOutcome
  <2>3. QED
    BY <2>2, ReturnedOutcome, GateAssumption
<1>2. \A d \in Calls : PhaseOf(pc'[d]) = IF d = c THEN "done" ELSE PhaseOf(pc[d])
  BY DEF Return, PhaseOf
<1>3. \A d \in Calls :
        KindOfOutcome(outcome'[d]) = IF d = c THEN kind ELSE KindOfOutcome(outcome[d])
  BY <1>1 DEF Return, KindOfOutcome
<1>4. QED
  BY <1>2, <1>3 DEF Contract!Finish

LEMMA FailModeFinishes ==
  ASSUME Inv, NEW c \in Calls, NEW reason, NEW decisions, IsEnforced(c),
         pc[c] \notin {"idle", "returned", "panicked"},
         applyFailMode(c, reason, decisions), UNCHANGED <<input, answer>>,
         reason \in Reasons, decisions \in Actions \cup {Nil}
  PROVE  Contract!Finish(c, Contract!FailModeOf(Duty(c)))
<1>1. Contract!FailModeOf(Duty(c))
        = IF failMode(c) = "CLOSED" THEN "FailClosedDeny" ELSE "FailOpenPermit"
  BY DutyIsKnown DEF Contract!FailModeOf
<1>2. Contract!FailModeOf(Duty(c)) \in OutcomeKinds
  BY <1>1 DEF OutcomeKinds
<1>3. QED
  BY <1>1, <1>2, ReturnFinishes DEF applyFailMode

-----------------------------------------------------------------------------
LEMMA EnterStarts ==
  ASSUME Inv, NEW c \in Calls, NEW i \in Inputs, NEW done \in BOOLEAN, Enter(c, i, done)
  PROVE  Contract!Start(c, DutyOf(i)) /\ DutyOf(i) \in Contract!Duties
<1> USE DEF Inv, TypeOK, Enter
<1>1. \A d \in Calls : PhaseOf(pc'[d]) = IF d = c THEN "pending" ELSE PhaseOf(pc[d])
  BY DEF PhaseOf
<1>2. \A d \in Calls : DutyOf(input'[d]) = IF d = c THEN DutyOf(i) ELSE DutyOf(input[d])
  OBVIOUS
<1>3. \A d \in Calls :
        KindOfOutcome(outcome'[d]) = IF d = c THEN Nil ELSE KindOfOutcome(outcome[d])
  BY DEF KindOfOutcome
<1>4. PhaseOf(pc[c]) \in {"idle", "done"}
  BY DEF PhaseOf
<1>5. i # Nil
  BY GateAssumption
<1>6. QED
  BY <1>1, <1>2, <1>3, <1>4, <1>5 DEF Contract!Start, Contract!Duties, DutyOf

(* A step inside one phase is a stutter. *)
LEMMA SamePhaseStutters ==
  ASSUME Inv, NEW c \in Calls, NEW p, pc' = [pc EXCEPT ![c] = p],
         UNCHANGED <<input, answer, outcome>>, PhaseOf(p) = PhaseOf(pc[c])
  PROVE  UNCHANGED Contract!vars
<1>1. \A d \in Calls : PhaseOf(pc'[d]) = PhaseOf(pc[d])
  BY DEF Inv, TypeOK
<1>2. QED
  BY <1>1 DEF Contract!vars

LEMMA EndpointAnswers ==
  ASSUME Inv, NEW c \in Calls, NEW a \in Actions \cup Errors, EndpointReturns(c, a)
  PROVE  Contract!Answer(c, a)
<1> USE DEF Inv, TypeOK, EndpointReturns
<1>1. \A d \in Calls : PhaseOf(pc'[d]) = IF d = c THEN "answered" ELSE PhaseOf(pc[d])
  BY DEF PhaseOf
<1>2. PhaseOf(pc[c]) = "asked"
  BY DEF PhaseOf
<1>3. QED
  BY <1>1, <1>2 DEF Contract!Answer

-----------------------------------------------------------------------------
(* What a call under way is to the contract. *)
LEMMA UnderWay ==
  ASSUME Inv, NEW c \in Calls
  PROVE  /\ pc[c] \in {"anchored", "built", "asking", "asked", "answered"} => IsEnforced(c)
         /\ pc[c] \in {"entered", "anchored", "built", "asking"} => PhaseOf(pc[c]) = "pending"
         /\ pc[c] = "answered" => PhaseOf(pc[c]) = "answered"
BY DEF Inv, CallInv, Fits, ReadyToMeasure, PhaseOf

LEMMA EarlyReturnsAreContract ==
  ASSUME Inv, NEW c \in Calls,
         \/ NoFilter(c) \/ NotEnforced(c) \/ NoLatencyBudget(c) \/ ClockUnavailable(c)
         \/ BudgetExhausted(c) \/ ContextDone(c)
  PROVE  Contract!Proceed(c) \/ Contract!GiveUp(c)
<1> USE UnderWay, DutyIsKnown DEF Reasons, UnaskedReasons, Errors
<1>1. CASE NoFilter(c)
  <2>1. Contract!Finish(c, "NoFilter")
    BY <1>1, ReturnFinishes DEF NoFilter, OutcomeKinds
  <2>2. QED
    BY <1>1, <2>1 DEF NoFilter, Contract!Proceed, Duty
<1>2. CASE NotEnforced(c)
  <2>1. Contract!Finish(c, "Permit")
    BY <1>2, ReturnFinishes DEF NotEnforced, OutcomeKinds
  <2>2. QED
    BY <1>2, <2>1 DEF NotEnforced, Contract!Proceed, Duty
<1>3. ASSUME NEW reason \in Reasons, applyFailMode(c, reason, Nil), IsEnforced(c),
             pc[c] \in {"entered", "anchored", "built", "asking"},
             UNCHANGED <<input, answer>>
      PROVE  Contract!GiveUp(c)
  <2>1. Contract!Finish(c, Contract!FailModeOf(Duty(c)))
    BY <1>3, FailModeFinishes
  <2>2. QED
    BY <1>3, <2>1 DEF Contract!GiveUp, Contract!Enforced, Duty
<1>4. CASE NoLatencyBudget(c)
  BY <1>3, <1>4 DEF NoLatencyBudget
<1>5. CASE ClockUnavailable(c)
  BY <1>3, <1>5 DEF ClockUnavailable, ReadyToMeasure
<1>6. CASE BudgetExhausted(c)
  BY <1>3, <1>6 DEF BudgetExhausted
<1>7. CASE ContextDone(c)
  BY <1>3, <1>7 DEF ContextDone
<1>8. QED
  BY <1>1, <1>2, <1>4, <1>5, <1>6, <1>7

LEMMA AnswersAreHonoured ==
  ASSUME Inv, NEW c \in Calls, AskFailed(c) \/ Honour(c) \/ Defer(c) \/ Unresolved(c)
  PROVE  Contract!Honour(c)
<1> USE UnderWay DEF Reasons, AnsweredReasons, Actions, DecisionActions, Errors
<1>0. pc[c] = "answered" /\ UNCHANGED <<input, answer>>
  BY DEF AskFailed, Honour, Defer, Unresolved
<1>1. ASSUME NEW reason \in Reasons, NEW decisions \in Actions \cup {Nil},
             applyFailMode(c, reason, decisions), answer[c] \notin {"PERMIT", "DENY"}
      PROVE  Contract!Honour(c)
  <2>1. Contract!Finish(c, Contract!FailModeOf(Duty(c)))
    BY <1>0, <1>1, FailModeFinishes
  <2>2. QED
    BY <1>0, <1>1, <2>1 DEF Contract!Honour, Duty
<1>2. ASSUME NEW kind \in OutcomeKinds, NEW reason \in Reasons,
             NEW decisions \in Actions \cup {Nil}, Return(c, kind, reason, decisions)
      PROVE  Contract!Finish(c, kind)
  BY <1>0, <1>2, ReturnFinishes
<1>3. CASE AskFailed(c)
  BY <1>1, <1>3 DEF AskFailed
<1>4. CASE Honour(c)
  BY <1>0, <1>2, <1>4 DEF Honour, OutcomeKinds, Contract!Honour
<1>5. CASE Defer(c)
  BY <1>0, <1>1, <1>2, <1>5 DEF Defer, OutcomeKinds, Contract!Honour
<1>6. CASE Unresolved(c)
  BY <1>1, <1>6 DEF Unresolved
<1>7. QED
  BY <1>3, <1>4, <1>5, <1>6

(* The remaining steps of Gate: towards the ask, or into a panic. *)
LEMMA AsksAreContract ==
  ASSUME Inv, NEW c \in Calls,
         \/ ReadAnchor(c) \/ BuildRequest(c) \/ ContextAlive(c) \/ Decide(c)
         \/ PanicWithoutContract(c) \/ PanicWithoutDecide(c)
  PROVE  UNCHANGED Contract!vars \/ Contract!Ask(c) \/ Contract!Panic(c)
<1>1. /\ PhaseOf("anchored") = "pending" /\ PhaseOf("built") = "pending"
      /\ PhaseOf("asking") = "pending" /\ PhaseOf("asked") = "asked"
      /\ PhaseOf("panicked") = "panicked"
  BY DEF PhaseOf
<1>2. CASE ReadAnchor(c)
  BY <1>1, <1>2, UnderWay, SamePhaseStutters DEF ReadAnchor
<1>3. CASE BuildRequest(c)
  BY <1>1, <1>3, UnderWay, SamePhaseStutters DEF BuildRequest
<1>4. CASE ContextAlive(c)
  BY <1>1, <1>4, UnderWay, SamePhaseStutters DEF ContextAlive, locals
<1>5. CASE Decide(c)
  <2>1. /\ pc' = [pc EXCEPT ![c] = "asked"]
        /\ pc[c] = "asking"
        /\ UNCHANGED <<input, answer, outcome>>
    BY <1>5 DEF Decide, locals
  <2>2. PhaseOf(pc[c]) = "pending" /\ Duty(c) \in {"MayFailOpen", "MustFailClosed"}
    BY <2>1, UnderWay, DutyIsKnown
  <2>3. \A d \in Calls : PhaseOf(pc'[d]) = IF d = c THEN "asked" ELSE PhaseOf(pc[d])
    BY <1>1, <2>1 DEF Inv, TypeOK
  <2>4. Contract!Ask(c)
    BY <2>1, <2>2, <2>3 DEF Contract!Ask, Contract!Enforced, Duty
  <2>5. QED
    BY <2>4
<1>6. CASE PanicWithoutContract(c) \/ PanicWithoutDecide(c)
  <2>1. /\ pc' = [pc EXCEPT ![c] = "panicked"]
        /\ pc[c] \in {"entered", "asking"}
        /\ UNCHANGED <<input, answer, outcome>>
    BY <1>6 DEF PanicWithoutContract, PanicWithoutDecide, locals
  <2>2. PhaseOf(pc[c]) = "pending"
    BY <2>1, UnderWay
  <2>3. \A d \in Calls : PhaseOf(pc'[d]) = IF d = c THEN "panicked" ELSE PhaseOf(pc[d])
    BY <1>1, <2>1 DEF Inv, TypeOK
  <2>4. Contract!Panic(c)
    BY <2>1, <2>2, <2>3 DEF Contract!Panic
  <2>5. QED
    BY <2>4
<1>7. QED
  BY <1>2, <1>3, <1>4, <1>5, <1>6

-----------------------------------------------------------------------------
(* Gate implements the enforcement contract. *)
THEOREM GateImplementsContract == Spec => ImplementsContract
<1>1. Init => Contract!Init
  BY DEF Init, Contract!Init, PhaseOf, DutyOf, KindOfOutcome
<1>2. Inv /\ [Next]_vars => [Contract!Next]_(Contract!vars)
  <2> SUFFICES ASSUME Inv, [Next]_vars PROVE [Contract!Next]_(Contract!vars)
    OBVIOUS
  <2>1. ASSUME NEW c \in Calls, NEW i \in Inputs, NEW done \in BOOLEAN, Enter(c, i, done)
        PROVE  Contract!Next
    BY <2>1, EnterStarts DEF Contract!Next
  <2>2. ASSUME NEW c \in Calls, NEW a \in Actions \cup Errors, EndpointReturns(c, a)
        PROVE  Contract!Next
    BY <2>2, EndpointAnswers DEF Contract!Next
  <2>3. ASSUME NEW c \in Calls, Step(c) PROVE Contract!Next \/ UNCHANGED Contract!vars
    BY <2>3, EarlyReturnsAreContract, AnswersAreHonoured, AsksAreContract
    DEF Step, Contract!Next
  <2>4. ASSUME NEW c \in Calls, Cancel(c) PROVE UNCHANGED Contract!vars
    BY <2>4 DEF Cancel, locals, Contract!vars
  <2>5. ASSUME NEW t \in Clock, ClockMoves(t) PROVE UNCHANGED Contract!vars
    BY <2>5 DEF ClockMoves, locals, Contract!vars
  <2>6. CASE UNCHANGED vars
    BY <2>6 DEF vars, locals, Contract!vars
  <2>7. QED
    BY <2>1, <2>2, <2>3, <2>4, <2>5, <2>6 DEF Next, TransportGivesUp, Errors
<1>3. QED
  BY <1>1, <1>2, Invariance, PTL DEF Spec, ImplementsContract, Contract!Spec

-----------------------------------------------------------------------------
(* The whole call: behind any network, any service and any HTTP client, Gate sees
   nothing but the endpoint it was specified with, so every theorem about Gate
   holds of the whole call.  First, the wire. *)

(* A message of its struct's shape arrives as it was sent, with every field told
   from its zero or equal to it. *)
LEMMA WireRoundTrip ==
  ASSUME NEW m, NEW zero, m = [f \in DOMAIN zero |-> m[f]],
         \A f \in DOMAIN zero : m[f] = Nil => zero[f] = Nil
  PROVE  Decode(Encode(m, zero), zero) = m
<1>1. DOMAIN m = DOMAIN zero
  OBVIOUS
<1>2. DOMAIN Encode(m, zero) = {f \in DOMAIN zero : m[f] # Nil /\ m[f] # zero[f]}
  BY <1>1 DEF Encode
<1>3. \A f \in DOMAIN Encode(m, zero) : Encode(m, zero)[f] = m[f]
  BY DEF Encode
<1>4. \A f \in DOMAIN zero :
        (IF f \in DOMAIN Encode(m, zero) THEN Encode(m, zero)[f] ELSE zero[f]) = m[f]
  BY <1>2, <1>3
<1>5. QED
  BY <1>4 DEF Decode

(* The requests Gate builds, event and all. *)
LEMMA RequestRoundTrip ==
  ASSUME NEW c \in Calls, input[c] \in Inputs, NEW left, left # Nil
  PROVE  UnmarshalRequest(MarshalRequest(RequestWith(c, left))) = RequestWith(c, left)
<1> DEFINE r == RequestWith(c, left)
           e == r.producerEvent
           sent == [ r EXCEPT !.producerEvent =
                       IF e = Nil THEN Nil ELSE Encode(e, ZeroProducerEvent) ]
<1>1. /\ e = input[c].event
      /\ Nil \notin {r.requestId, r.idempotencyKey, r.sourceHandle}
      /\ e # Nil => HasShapeOf(e, ZeroProducerEvent)
  BY TransportAssumption DEF RequestWith
<1>2. sent = [f \in DOMAIN ZeroDecideRequest |-> sent[f]]
  BY DEF RequestWith, ZeroDecideRequest
<1>3. Decode(Encode(sent, ZeroDecideRequest), ZeroDecideRequest) = sent
  <2>1. \A f \in DOMAIN ZeroDecideRequest : sent[f] = Nil => ZeroDecideRequest[f] = Nil
    <3>1. DOMAIN ZeroDecideRequest =
            {"requestId", "idempotencyKey", "sourceHandle", "filterEpoch",
             "producerEvent", "remainingTransportBudgetNanoseconds"}
      BY DEF ZeroDecideRequest
    <3>2. /\ ZeroDecideRequest.filterEpoch = Nil
          /\ ZeroDecideRequest.producerEvent = Nil
          /\ ZeroDecideRequest.remainingTransportBudgetNanoseconds = Nil
      BY DEF ZeroDecideRequest
    <3>3. /\ sent.requestId # Nil
          /\ sent.idempotencyKey # Nil
          /\ sent.sourceHandle # Nil
      BY <1>1 DEF RequestWith
    <3> HIDE DEF sent
    <3>4. QED
      BY <3>1, <3>2, <3>3
  <2>2. QED
    BY <1>2, <2>1, WireRoundTrip
<1>4. UnmarshalRequest(MarshalRequest(r))
        = [ sent EXCEPT !.producerEvent =
              IF @ = Nil THEN Nil ELSE Decode(@, ZeroProducerEvent) ]
  BY <1>3 DEF UnmarshalRequest, MarshalRequest
<1>5. /\ e = Nil => sent.producerEvent = Nil
      /\ e # Nil => /\ sent.producerEvent = Encode(e, ZeroProducerEvent)
                    /\ sent.producerEvent # Nil
                    /\ Decode(sent.producerEvent, ZeroProducerEvent) = e
  BY <1>1, WireRoundTrip DEF HasShapeOf, RequestWith
<1>6. QED
  BY <1>4, <1>5 DEF RequestWith

-----------------------------------------------------------------------------
(* The inductive invariant says what each side of an exchange knows. *)
NetInv(c) ==
  /\ request[c] # Nil => \E left : left # Nil /\ request[c] = RequestWith(c, left)
  /\ exchange[c] # "closed" =>
       pc[c] \in {"asked", "answered", "returned"} /\ request[c] # Nil
  /\ exchange[c] \in {"closed", "sent"} => served[c] = Nil
  /\ exchange[c] = "sent" => frame[c] = MarshalRequest(request[c])
  /\ exchange[c] \in {"serving", "replied"} => served[c] # Nil
  /\ exchange[c] = "replied" =>
       replied[c] \in Replies /\ frame[c] = Encode(replied[c], ZeroDecideResponse)
  /\ served[c] # Nil => served[c] = request[c]
  /\ answer[c] \in Actions => /\ exchange[c] \in {"replied", "failed"}
                              /\ served[c] # Nil
                              /\ replied[c] \in Replies
                              /\ replied[c].action = answer[c]

NetDomains ==
  /\ DOMAIN exchange = Calls /\ DOMAIN frame = Calls
  /\ DOMAIN served = Calls /\ DOMAIN replied = Calls

NetsInv == NetDomains /\ \A c \in Calls : NetInv(c)

(* A call no step concerned. *)
SameOnTheWire(d) ==
  /\ pc'[d] = pc[d] /\ input'[d] = input[d]
  /\ request'[d] = request[d] /\ answer'[d] = answer[d]
  /\ exchange'[d] = exchange[d] /\ frame'[d] = frame[d]
  /\ served'[d] = served[d] /\ replied'[d] = replied[d]

LEMMA SameArgumentsSameRequest ==
  ASSUME NEW d \in Calls, input'[d] = input[d], NEW left
  PROVE  RequestWith(d, left)' = RequestWith(d, left)
BY DEF RequestWith, filterOf

LEMMA SameOnTheWireKeeps ==
  ASSUME NEW d \in Calls, NetInv(d), SameOnTheWire(d)
  PROVE  NetInv(d)'
<1>1. (\E left : left # Nil /\ request[d] = RequestWith(d, left))
        => (\E left : left # Nil /\ request[d] = RequestWith(d, left))'
  BY SameArgumentsSameRequest DEF SameOnTheWire
<1>2. QED
  BY <1>1 DEF NetInv, SameOnTheWire

(* No error is an action, and nil is neither. *)
LEMMA ActionsAndErrors ==
  /\ Actions \cap Errors = {}
  /\ Nil \notin Actions \cup Errors \cup DecideRequest \cup Nat
BY GateAssumption DEF Actions, DecisionActions, Errors

LEMMA InitNet == TransportInit => NetsInv
BY ActionsAndErrors DEF TransportInit, Init, NetsInv, NetDomains, NetInv

LEMMA EnterKeepsNet ==
  ASSUME Inv, NetsInv, NEW c \in Calls, NEW i \in Inputs, NEW done \in BOOLEAN,
         EnterGate(c, i, done)
  PROVE  NetsInv'
<1> USE DEF NetsInv, NetDomains, EnterGate, Enter, Inv, TypeOK
<1>1. NetInv(c)'
  BY ActionsAndErrors DEF NetInv
<1>2. \A d \in Calls : d # c => SameOnTheWire(d)
  BY DEF SameOnTheWire
<1>3. QED
  BY <1>1, <1>2, SameOnTheWireKeeps

(* Gate's own steps: the wire is used by none of them, and the request is built
   before it is. *)
LEMMA GateKeepsNet ==
  ASSUME Inv, NetsInv, NEW c \in Calls, Step(c), UNCHANGED netVars
  PROVE  NetsInv'
<1> USE DEF NetsInv, NetDomains, Inv, TypeOK, netVars
<1>1. input' = input /\ answer' = answer
  BY DEF Step, NoFilter, NotEnforced, PanicWithoutContract, NoLatencyBudget,
     ClockUnavailable, ReadAnchor, BudgetExhausted, BuildRequest, ContextDone,
     ContextAlive, PanicWithoutDecide, Decide, AskFailed, Honour, Defer, Unresolved,
     locals
<1>2. /\ request' = request \/ BuildRequest(c)
      /\ \A d \in Calls : d # c => request'[d] = request[d] /\ pc'[d] = pc[d]
  BY DEF Step, NoFilter, NotEnforced, PanicWithoutContract, NoLatencyBudget,
     ClockUnavailable, ReadAnchor, BudgetExhausted, BuildRequest, ContextDone,
     ContextAlive, PanicWithoutDecide, Decide, AskFailed, Honour, Defer, Unresolved,
     applyFailMode, Return, locals
<1>3. exchange[c] # "closed" => pc[c] = "answered" /\ pc'[c] = "returned"
  BY DEF NetInv, Step, NoFilter, NotEnforced, PanicWithoutContract, NoLatencyBudget,
     ClockUnavailable, ReadAnchor, BudgetExhausted, BuildRequest, ContextDone,
     ContextAlive, PanicWithoutDecide, Decide, AskFailed, Honour, Defer, Unresolved,
     applyFailMode, Return
<1>4. request'[c] = request[c]
        \/ (exchange[c] = "closed" /\ \E left \in Nat : request'[c] = RequestWith(c, left))
  <2>1. CASE BuildRequest(c)
    <3>1. remaining(anchor[c], budget[c], clock) \in Nat
      BY RemainingType
    <3>2. QED
      BY <1>3, <2>1, <3>1 DEF BuildRequest
  <2>2. QED
    BY <1>2, <2>1
<1>5. (\E left : left # Nil /\ request[c] = RequestWith(c, left))
        => (\E left : left # Nil /\ RequestWith(c, left)' = request[c])
  BY <1>1, SameArgumentsSameRequest
<1>6. (\E left \in Nat : request'[c] = RequestWith(c, left))
        => (\E left : left # Nil /\ request'[c] = RequestWith(c, left)')
  BY <1>1, SameArgumentsSameRequest, ActionsAndErrors
<1>7. NetInv(c)'
  <2>1. CASE request'[c] = request[c]
    BY <1>1, <1>3, <1>5, <2>1 DEF NetInv
  <2>2. CASE exchange[c] = "closed" /\ \E left \in Nat : request'[c] = RequestWith(c, left)
    BY <1>1, <1>6, <2>2 DEF NetInv
  <2>3. QED
    BY <1>4, <2>1, <2>2
<1>8. \A d \in Calls : d # c => SameOnTheWire(d)
  BY <1>1, <1>2 DEF SameOnTheWire
<1>9. QED
  BY <1>7, <1>8, SameOnTheWireKeeps

(* The client, the handler, the service and the network. *)
LEMMA NetworkKeepsNet ==
  ASSUME Inv, NetsInv, NEW c \in Calls,
         \/ Send(c) \/ Serve(c) \/ NotFound(c)
         \/ \E response \in Replies : Reply(c, response)
         \/ ReplyError(c) \/ Break(c)
  PROVE  NetsInv'
<1> USE DEF NetsInv, NetDomains, Inv, TypeOK, vars, locals
<1>1. /\ UNCHANGED vars
      /\ \A left : RequestWith(c, left)' = RequestWith(c, left)
  BY SameArgumentsSameRequest DEF Send, Serve, NotFound, Reply, ReplyError, Break
<1>2. \A d \in Calls : d # c => SameOnTheWire(d)
  BY DEF SameOnTheWire, Send, Serve, NotFound, Reply, ReplyError, Break
<1>3. NetInv(c)'
  <2>1. CASE Send(c)
    <3>1. request[c] # Nil
      BY <2>1, ActionsAndErrors DEF Send, CallInv, Stamped
    <3>2. answer[c] \notin Actions
      BY <2>1 DEF Send, NetInv
    <3>3. QED
      BY <1>1, <2>1, <3>1, <3>2 DEF Send, NetInv
  <2>2. CASE Serve(c)
    <3>1. PICK left : left # Nil /\ request[c] = RequestWith(c, left)
      BY <2>2 DEF Serve, NetInv
    <3>2. input[c] \in Inputs
      BY <2>2 DEF Serve, NetInv, CallInv
    <3>3. served'[c] = request[c]
      BY <2>2, <3>1, <3>2, RequestRoundTrip DEF Serve, NetInv
    <3>4. QED
      BY <1>1, <2>2, <3>3 DEF Serve, NetInv
  <2>3. CASE NotFound(c) \/ ReplyError(c) \/ Break(c)
    BY <1>1, <2>3 DEF NotFound, ReplyError, Break, NetInv
  <2>4. ASSUME NEW response \in Replies, Reply(c, response) PROVE NetInv(c)'
    BY <1>1, <2>4 DEF Reply, NetInv
  <2>5. QED
    BY <2>1, <2>2, <2>3, <2>4
<1>4. NetDomains'
  BY DEF Send, Serve, NotFound, Reply, ReplyError, Break
<1>5. QED
  BY <1>2, <1>3, <1>4, SameOnTheWireKeeps

(* What DecideFunc returns is an action only if the service gave it. *)
LEMMA ReplyIsDecoded ==
  ASSUME NetsInv, NEW c \in Calls, exchange[c] = "replied"
  PROVE  /\ replied[c] \in Replies
         /\ Decode(frame[c], ZeroDecideResponse) = replied[c]
         /\ replied[c].action \in Actions
<1>1. replied[c] \in Replies /\ frame[c] = Encode(replied[c], ZeroDecideResponse)
  BY DEF NetsInv, NetInv
<1>2. HasShapeOf(replied[c], ZeroDecideResponse) /\ replied[c] \in DecideResponse
  BY <1>1, TransportAssumption
<1>3. QED
  BY <1>1, <1>2, WireRoundTrip DEF HasShapeOf, DecideResponse, Actions

LEMMA ReturningKeepsNet ==
  ASSUME Inv, NetsInv, NEW c \in Calls,
         DecideFails(c) \/ DecideReturns(c) \/ HangUp(c) \/ TimeOut(c)
  PROVE  NetsInv'
<1> USE DEF NetsInv, NetDomains, Inv, TypeOK, netVars
<1>1. PICK a \in Actions \cup Errors :
        /\ EndpointReturns(c, a)
        /\ a \in Actions => exchange[c] = "replied" /\ a = replied[c].action
  BY ReplyIsDecoded, ActionsAndErrors
  DEF DecideFails, DecideReturns, HangUp, TimeOut, TransportGivesUp, Errors
<1>2. /\ UNCHANGED netVars /\ input' = input /\ request' = request
      /\ \A left : RequestWith(c, left)' = RequestWith(c, left)
  BY <1>1, SameArgumentsSameRequest
  DEF DecideFails, DecideReturns, HangUp, TimeOut, EndpointReturns
<1>3. pc'[c] = "answered" /\ answer'[c] = a /\ pc[c] = "asked"
  BY <1>1 DEF EndpointReturns
<1>4. NetInv(c)'
  BY <1>1, <1>2, <1>3, ReplyIsDecoded DEF NetInv
<1>5. \A d \in Calls : d # c => SameOnTheWire(d)
  BY <1>1, <1>2 DEF EndpointReturns, SameOnTheWire
<1>6. QED
  BY <1>2, <1>4, <1>5, SameOnTheWireKeeps

LEMMA WorldKeepsNet ==
  ASSUME NetsInv, \/ UNCHANGED <<vars, netVars>>
                  \/ \E c \in Calls : Cancel(c) /\ UNCHANGED netVars
                  \/ \E t \in Clock : ClockMoves(t) /\ UNCHANGED netVars
  PROVE  NetsInv'
<1>1. \A d \in Calls : SameOnTheWire(d)
  BY DEF SameOnTheWire, vars, netVars, Cancel, ClockMoves, locals
<1>2. QED
  BY <1>1, SameOnTheWireKeeps DEF NetsInv, NetDomains, netVars

LEMMA StepKeepsNet == Inv /\ NetsInv /\ [TransportNext]_<<vars, netVars>> => NetsInv'
BY EnterKeepsNet, GateKeepsNet, NetworkKeepsNet, ReturningKeepsNet, WorldKeepsNet
DEF TransportNext

-----------------------------------------------------------------------------
(* Every step of the whole call is a step Gate may take, or none of its own. *)
LEMMA StepRefinesGate ==
  NetsInv /\ [TransportNext]_<<vars, netVars>> => [Next]_vars
<1> SUFFICES ASSUME NetsInv, [TransportNext]_<<vars, netVars>> PROVE [Next]_vars
  OBVIOUS
<1>1. ASSUME NEW c \in Calls, NEW i \in Inputs, NEW done \in BOOLEAN, EnterGate(c, i, done)
      PROVE  Next
  BY <1>1 DEF EnterGate, Next
<1>2. ASSUME NEW c \in Calls, Step(c) \/ Cancel(c) \/ HangUp(c)
      PROVE  Next
  BY <1>2 DEF HangUp, Next
<1>3. ASSUME NEW c \in Calls, \/ Send(c) \/ Serve(c) \/ NotFound(c)
                              \/ \E response \in Replies : Reply(c, response)
                              \/ ReplyError(c) \/ Break(c)
      PROVE  UNCHANGED vars
  BY <1>3 DEF Send, Serve, NotFound, Reply, ReplyError, Break
<1>4. ASSUME NEW c \in Calls, DecideFails(c) \/ TimeOut(c)
      PROVE  \E a \in Actions \cup Errors : EndpointReturns(c, a)
  BY <1>4 DEF DecideFails, TimeOut, Errors
<1>5. ASSUME NEW c \in Calls, DecideReturns(c)
      PROVE  \E a \in Actions \cup Errors : EndpointReturns(c, a)
  BY <1>5, ReplyIsDecoded DEF DecideReturns
<1>6. ASSUME NEW t \in Clock, ClockMoves(t) PROVE Next
  BY <1>6 DEF Next
<1>7. ASSUME NEW c \in Calls, NEW a \in Actions \cup Errors, EndpointReturns(c, a)
      PROVE  Next
  BY <1>7 DEF Next
<1>8. QED
  BY <1>1, <1>2, <1>3, <1>4, <1>5, <1>6, <1>7 DEF TransportNext

LEMMA TransportInvariance == TransportSpec => [](Inv /\ NetsInv)
<1>1. TransportInit => Inv /\ NetsInv
  BY InitInv, InitNet DEF TransportInit
<1>2. Inv /\ NetsInv /\ [TransportNext]_<<vars, netVars>> => (Inv /\ NetsInv)'
  BY StepKeepsNet, StepRefinesGate, NextKeepsInv
<1>3. QED
  BY <1>1, <1>2, PTL DEF TransportSpec

(* Behind the wire Gate is still Gate: whatever the network, the service and the
   HTTP client do, they do nothing the endpoint of Gate.tla could not have done. *)
THEOREM WireIsAnEndpoint == TransportSpec => Spec
<1>1. TransportInit => Init
  BY DEF TransportInit
<1>2. QED
  BY <1>1, StepRefinesGate, TransportInvariance, PTL DEF TransportSpec, Spec

(* The request the service decides on is the one Gate built. *)
THEOREM RequestsArrive == TransportSpec => []RequestArrivesIntact
<1>1. NetsInv => RequestArrivesIntact
  BY DEF NetsInv, NetInv, RequestArrivesIntact
<1>2. QED
  BY <1>1, TransportInvariance, PTL

(* An action Gate acts on is one the service gave for that request. *)
THEOREM AnswersAreTheServices == TransportSpec => []AnswerIsTheServices
<1>1. NetsInv => AnswerIsTheServices
  <2> SUFFICES ASSUME NetsInv, NEW c \in Calls, answer[c] \in Actions
               PROVE  /\ replied[c] # Nil /\ replied[c].action = answer[c]
                      /\ served[c] = request[c]
    BY DEF AnswerIsTheServices
  <2>1. NetInv(c)
    BY DEF NetsInv
  <2>2. replied[c] # Nil
    BY <2>1, TransportAssumption DEF NetInv
  <2>3. QED
    BY <2>1, <2>2 DEF NetInv
<1>2. QED
  BY <1>1, TransportInvariance, PTL

(* So, in particular, a fail-closed contract holds behind any network. *)
THEOREM ClosedContractsOverTheWire == TransportSpec => []ClosedContractHolds
BY WireIsAnEndpoint, ClosedContracts, PTL
=============================================================================
