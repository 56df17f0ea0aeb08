------------------------ MODULE EnforcementContract -------------------------
(***************************************************************************)
(* What enforcement.Gate promises a host, with no clock, no budget and no  *)
(* filter left in it: what a call owes is fixed when it starts, an ask is  *)
(* made at most once and only when something is enforced, the endpoint's   *)
(* permit or deny is final, and whatever is unresolved ends in the fail    *)
(* mode.  Gate is checked and proved to implement this.                    *)
(***************************************************************************)

CONSTANTS Calls, Actions, Errors, Nil

(* What a call owes, from the filter, the event and the deployment. *)
Duties == {"NoPolicy", "NotEnforced", "MayFailOpen", "MustFailClosed"}

VARIABLES
  phase,   \* "idle", "pending", "asked", "answered", "done" or "panicked"
  duty,    \* what each call owes, Nil before the first
  answer,  \* the endpoint's answer to each call, or Nil
  kind     \* the OutcomeKind of each finished call, or Nil

vars == <<phase, duty, answer, kind>>

Init ==
  /\ phase = [c \in Calls |-> "idle"]
  /\ duty = [c \in Calls |-> Nil]
  /\ answer = [c \in Calls |-> Nil]
  /\ kind = [c \in Calls |-> Nil]

FailModeOf(d) == IF d = "MustFailClosed" THEN "FailClosedDeny" ELSE "FailOpenPermit"

Enforced(c) == duty[c] \in {"MayFailOpen", "MustFailClosed"}

Start(c, d) ==
  /\ phase[c] \in {"idle", "done"}
  /\ phase' = [phase EXCEPT ![c] = "pending"]
  /\ duty' = [duty EXCEPT ![c] = d]
  /\ answer' = [answer EXCEPT ![c] = Nil]
  /\ kind' = [kind EXCEPT ![c] = Nil]

Finish(c, k) ==
  /\ phase' = [phase EXCEPT ![c] = "done"]
  /\ kind' = [kind EXCEPT ![c] = k]
  /\ UNCHANGED <<duty, answer>>

(* Nothing to ask about: there is no policy, or none that is enforced. *)
Proceed(c) ==
  /\ phase[c] = "pending"
  /\ \/ duty[c] = "NoPolicy" /\ Finish(c, "NoFilter")
     \/ duty[c] = "NotEnforced" /\ Finish(c, "Permit")

(* Out of budget, without a clock, or cancelled: the fail mode, unasked. *)
GiveUp(c) ==
  /\ phase[c] = "pending"
  /\ Enforced(c)
  /\ Finish(c, FailModeOf(duty[c]))

Ask(c) ==
  /\ phase[c] = "pending"
  /\ Enforced(c)
  /\ phase' = [phase EXCEPT ![c] = "asked"]
  /\ UNCHANGED <<duty, answer, kind>>

(* A dependency the call needs was not wired. *)
Panic(c) ==
  /\ phase[c] = "pending"
  /\ phase' = [phase EXCEPT ![c] = "panicked"]
  /\ UNCHANGED <<duty, answer, kind>>

Answer(c, a) ==
  /\ phase[c] = "asked"
  /\ phase' = [phase EXCEPT ![c] = "answered"]
  /\ answer' = [answer EXCEPT ![c] = a]
  /\ UNCHANGED <<duty, kind>>

(* Permit and deny are honoured; a deferral may stand; everything else, and a
   deferral that came too late, is unresolved. *)
Honour(c) ==
  /\ phase[c] = "answered"
  /\ \/ answer[c] = "PERMIT" /\ Finish(c, "Permit")
     \/ answer[c] = "DENY" /\ Finish(c, "Deny")
     \/ answer[c] = "DEFER" /\ Finish(c, "Defer")
     \/ answer[c] \notin {"PERMIT", "DENY"} /\ Finish(c, FailModeOf(duty[c]))

Next ==
  \E c \in Calls :
    \/ \E d \in Duties : Start(c, d)
    \/ Proceed(c) \/ GiveUp(c) \/ Ask(c) \/ Panic(c)
    \/ \E a \in Actions \cup Errors : Answer(c, a)
    \/ Honour(c)

Spec == Init /\ [][Next]_vars
=============================================================================
