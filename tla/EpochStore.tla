----------------------------- MODULE EpochStore -----------------------------
(***************************************************************************)
(* What client.FilterStore promises its callers: one filter reference,    *)
(* swapped as a whole, where a push is ONE step that swaps exactly when    *)
(* nothing is held or the pushed epoch differs from the held one, and      *)
(* answers accordingly.  FilterStore, where a push is a load followed by a *)
(* store, is checked and proved to implement this when filters are pushed  *)
(* by one goroutine.                                                       *)
(***************************************************************************)
CONSTANTS
  Setters,        \* goroutines that push filters
  Readers,        \* goroutines that emit and enforce
  Filters,        \* the EventFilter references that may be pushed
  DeclaredEpoch,  \* the epoch each filter carries, Nil when it carries none
  InitialFilter,  \* the filter the store is seeded with, or Nil
  Announcements,  \* the epochs a host may ask about
  Nil             \* Go's nil

VARIABLES
  filter,    \* the filter held, or Nil
  reply,     \* what each setter's last push answered
  ack,       \* what each reader's last Epoch() returned
  snapshot,  \* what each reader's last Get() returned
  refresh    \* each reader's last ShouldRefresh: what was announced, the answer

vars == <<filter, reply, ack, snapshot, refresh>>

EpochOf(f) == IF f = Nil THEN Nil ELSE DeclaredEpoch[f]

Init ==
  /\ filter = InitialFilter
  /\ reply = [s \in Setters |-> "none"]
  /\ ack = [r \in Readers |-> Nil]
  /\ snapshot = [r \in Readers |-> Nil]
  /\ refresh = [r \in Readers |-> [announced |-> Nil, answer |-> "none"]]

(* A push that changes the epoch, or the first one, takes effect at once. *)
Swap(s, f) ==
  /\ filter = Nil \/ EpochOf(filter) # EpochOf(f)
  /\ filter' = f
  /\ reply' = [reply EXCEPT ![s] = "updated"]
  /\ UNCHANGED <<ack, snapshot, refresh>>

(* A push of the epoch already held changes nothing. *)
Keep(s, f) ==
  /\ filter # Nil /\ EpochOf(filter) = EpochOf(f)
  /\ reply' = [reply EXCEPT ![s] = "unchanged"]
  /\ UNCHANGED <<filter, ack, snapshot, refresh>>

ReadEpoch(r) ==
  /\ ack' = [ack EXCEPT ![r] = EpochOf(filter)]
  /\ UNCHANGED <<filter, reply, snapshot, refresh>>

ReadFilter(r) ==
  /\ snapshot' = [snapshot EXCEPT ![r] = filter]
  /\ UNCHANGED <<filter, reply, ack, refresh>>

(* A refresh is due when no epoch is held, or when another one is announced. *)
AskRefresh(r, e) ==
  /\ refresh' = [refresh EXCEPT ![r] =
       [announced |-> e,
        answer |-> IF \/ EpochOf(filter) = Nil
                      \/ e # Nil /\ e # EpochOf(filter)
                   THEN "refresh" ELSE "current"]]
  /\ UNCHANGED <<filter, reply, ack, snapshot>>

Next ==
  \/ \E s \in Setters, f \in Filters \cup {Nil} : Swap(s, f) \/ Keep(s, f)
  \/ \E r \in Readers : ReadEpoch(r) \/ ReadFilter(r)
  \/ \E r \in Readers, e \in Announcements : AskRefresh(r, e)

Spec == Init /\ [][Next]_vars
=============================================================================
