------------------------------- MODULE Budget -------------------------------
(***************************************************************************)
(* enforcement/budget.go: latency budgets on a wrapping 64-bit clock.      *)
(* A clock reading is an int64; the code only ever subtracts readings, as  *)
(* uint64, so a reading is modelled by that uint64: a number below Wrap,   *)
(* which is 2^64 in the code.  Half is 2^63.                               *)
(***************************************************************************)
EXTENDS Integers

CONSTANT Half

ASSUME HalfAssumption == Half \in Nat \ {0}

Wrap == 2 * Half

Clock == 0 .. Wrap - 1

(* A slip: subtracting without the wrap of the unsigned conversion. *)
monotonicDeltaSigned(from, to) == to - from

(* uint64(to) - uint64(from): subtraction modulo Wrap. *)
monotonicDelta(from, to) == IF from <= to THEN to - from ELSE (to - from) + Wrap

(* A difference of Half or more is a clock that went backwards, or one that
   ran for 2^63 ns: monotonicDelta reports it invalid. *)
monotonicValid(from, to) == monotonicDelta(from, to) < Half

(* budgetState.remaining: 0 when exhausted, and when the clock went back. *)
remaining(anchor, budget, now) ==
  IF ~monotonicValid(anchor, now) \/ monotonicDelta(anchor, now) >= budget THEN 0
  ELSE budget - monotonicDelta(anchor, now)

(* What is left until an absolute deadline, 0 when it has passed: the caller's
   share of the budget in Gate, and RemainingTransportBudgetNs. *)
until(now, deadline) ==
  IF monotonicValid(now, deadline) THEN monotonicDelta(now, deadline) ELSE 0
=============================================================================
