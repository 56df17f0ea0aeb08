---------------------------- MODULE FilterStore -----------------------------
(***************************************************************************)
(* client/filterstore.go: the filter reference a Probe holds.  Goroutines  *)
(* share one atomic pointer; every action below makes at most one access   *)
(* to it, so the interleavings are those of the Go program.  Set is the    *)
(* method with two accesses (a load, then a store), and any number of      *)
(* goroutines may be between them.                                         *)
(*                                                                         *)
(* The readers follow the README's quickstart: AcknowledgedEpoch() is      *)
(* stamped into the event, and CurrentFilter() is read later for the gate. *)
(***************************************************************************)
EXTENDS Naturals

CONSTANTS
  Setters,        \* goroutines that push filters
  Readers,        \* goroutines that emit and enforce
  Filters,        \* the *EventFilter pointers that may be pushed
  DeclaredEpoch,  \* the epoch each filter carries, Nil when it carries none
  InitialFilter,  \* the argument of NewFilterStore, or Nil
  Announcements,  \* the epochs hosts pass to ShouldRefresh, possibly Nil
  Nil             \* Go's nil: no filter, no epoch

ASSUME FilterStoreAssumption ==
  /\ Nil \notin Filters
  /\ Nil \notin Nat
  /\ DeclaredEpoch \in [Filters -> Nat \cup {Nil}]
  /\ InitialFilter \in Filters \cup {Nil}
  /\ Announcements \subseteq Nat \cup {Nil}

Pointers == Filters \cup {Nil}
Epochs == Nat \cup {Nil}

VARIABLES
  current,   \* FilterStore.current
  pc,        \* where each setter is in Set
  pushed,    \* the argument of each setter's last Set
  held,      \* the pointer each setter between its load and store loaded
  reply,     \* what each setter's last Set answered
  flow,      \* where each reader is: "idle", "stamped" or "snapshot"
  ack,       \* the epoch each reader stamped into its event
  snapshot,  \* the filter each reader took for the gate
  refresh,   \* each reader's last ShouldRefresh: what was announced, the answer
  seen,      \* history: what the store held at some point of each Set
  moved      \* history: whether a store landed since each reader's stamp

setVars == <<pc, pushed, held, reply>>
readVars == <<flow, ack, snapshot, refresh>>
vars == <<current, setVars, readVars, seen, moved>>

-----------------------------------------------------------------------------
(* equalEpoch and epochOf: absent is not zero, and epochs compare by value. *)

(* A slip a Go port invites: the generated GetEpoch flattens absent to 0. *)
Flattened(epoch) == IF epoch = Nil THEN 0 ELSE epoch
equalEpochFlattened(a, b) == Flattened(a) = Flattened(b)

equalEpoch(a, b) ==
  IF a = Nil \/ b = Nil THEN a = Nil /\ b = Nil ELSE a = b

epochOf(f) == IF f = Nil THEN Nil ELSE DeclaredEpoch[f]

(* The test at the head of Set: nothing to do for an epoch already held. *)
UnchangedBy(h, f) == h # Nil /\ equalEpoch(epochOf(h), epochOf(f))

(* A slip: refreshing only for an epoch above the one held. *)
NeedsRefreshAbove(h, announced) ==
  \/ epochOf(h) = Nil
  \/ announced # Nil /\ announced > epochOf(h)

(* The answer of ShouldRefresh on the pointer its one load returned. *)
NeedsRefresh(h, announced) ==
  \/ epochOf(h) = Nil
  \/ announced # Nil /\ ~equalEpoch(epochOf(h), announced)

-----------------------------------------------------------------------------
Init ==
  /\ current = InitialFilter
  /\ pc = [s \in Setters |-> "idle"]
  /\ pushed = [s \in Setters |-> Nil]
  /\ held = [s \in Setters |-> Nil]
  /\ reply = [s \in Setters |-> "none"]
  /\ flow = [r \in Readers |-> "idle"]
  /\ ack = [r \in Readers |-> Nil]
  /\ snapshot = [r \in Readers |-> Nil]
  /\ refresh = [r \in Readers |-> [announced |-> Nil, answer |-> "none"]]
  /\ seen = [s \in Setters |-> {}]
  /\ moved = [r \in Readers |-> FALSE]

(* The host calls Set: a push arrived. *)
SetCall(s, f) ==
  /\ pc[s] = "idle"
  /\ pc' = [pc EXCEPT ![s] = "load"]
  /\ pushed' = [pushed EXCEPT ![s] = f]
  /\ seen' = [seen EXCEPT ![s] = {current}]
  /\ UNCHANGED <<current, held, reply, readVars, moved>>

(* Load, and return false: an equal epoch is held. *)
SetUnchanged(s) ==
  /\ pc[s] = "load"
  /\ UnchangedBy(current, pushed[s])
  /\ pc' = [pc EXCEPT ![s] = "idle"]
  /\ reply' = [reply EXCEPT ![s] = "unchanged"]
  /\ UNCHANGED <<current, pushed, held, readVars, seen, moved>>

(* A slip: comparing pointers, which differ on every push, not epochs. *)
SetLoadByPointer(s) ==
  /\ pc[s] = "load"
  /\ current # pushed[s]
  /\ held' = [held EXCEPT ![s] = current]
  /\ pc' = [pc EXCEPT ![s] = "store"]
  /\ UNCHANGED <<current, pushed, reply, readVars, seen, moved>>

(* Load, and go on to store: the decision is taken on what is held now. *)
SetLoad(s) ==
  /\ pc[s] = "load"
  /\ ~UnchangedBy(current, pushed[s])
  /\ held' = [held EXCEPT ![s] = current]
  /\ pc' = [pc EXCEPT ![s] = "store"]
  /\ UNCHANGED <<current, pushed, reply, readVars, seen, moved>>

(* What every Set still running, and every stamped reader, lives through. *)
RecordStore(s, f) ==
  /\ seen' = [t \in Setters |->
       IF t # s /\ pc[t] # "idle" THEN seen[t] \cup {f} ELSE seen[t]]
  /\ moved' = [r \in Readers |-> moved[r] \/ flow[r] = "stamped"]

(* A slip: a swap with its two pointers the wrong way round. *)
SetStoreSwapped(s) ==
  /\ pc[s] = "store"
  /\ current' = held[s]
  /\ pc' = [pc EXCEPT ![s] = "idle"]
  /\ reply' = [reply EXCEPT ![s] = "updated"]
  /\ held' = [held EXCEPT ![s] = Nil]
  /\ RecordStore(s, held[s])
  /\ UNCHANGED <<pushed, readVars>>

(* Store and return true, whatever the pointer has become since the load. *)
SetStore(s) ==
  /\ pc[s] = "store"
  /\ current' = pushed[s]
  /\ pc' = [pc EXCEPT ![s] = "idle"]
  /\ reply' = [reply EXCEPT ![s] = "updated"]
  /\ held' = [held EXCEPT ![s] = Nil]
  /\ RecordStore(s, pushed[s])
  /\ UNCHANGED <<pushed, readVars>>

(* A slip: handing out the held filter's own memory. *)
ReadEpochAliased(r) ==
  /\ ack' = [ack EXCEPT ![r] = current]
  /\ flow' = [flow EXCEPT ![r] = "stamped"]
  /\ moved' = [moved EXCEPT ![r] = FALSE]
  /\ UNCHANGED <<current, setVars, snapshot, refresh, seen>>

(* A slip: the generated getter again, absent read as zero. *)
ReadEpochFlattened(r) ==
  /\ ack' = [ack EXCEPT ![r] = Flattened(epochOf(current))]
  /\ flow' = [flow EXCEPT ![r] = "stamped"]
  /\ moved' = [moved EXCEPT ![r] = FALSE]
  /\ UNCHANGED <<current, setVars, snapshot, refresh, seen>>

(* AcknowledgedEpoch: one load, dereferenced into a fresh copy. *)
ReadEpoch(r) ==
  /\ ack' = [ack EXCEPT ![r] = epochOf(current)]
  /\ flow' = [flow EXCEPT ![r] = "stamped"]
  /\ moved' = [moved EXCEPT ![r] = FALSE]
  /\ UNCHANGED <<current, setVars, snapshot, refresh, seen>>

(* CurrentFilter, for the gate: another load. *)
ReadFilter(r) ==
  /\ flow[r] = "stamped"
  /\ snapshot' = [snapshot EXCEPT ![r] = current]
  /\ flow' = [flow EXCEPT ![r] = "snapshot"]
  /\ UNCHANGED <<current, setVars, ack, refresh, seen, moved>>

ShouldRefresh(r, announced) ==
  /\ refresh' = [refresh EXCEPT ![r] =
       [announced |-> announced,
        answer |-> IF NeedsRefresh(current, announced)
                   THEN "refresh" ELSE "current"]]
  /\ UNCHANGED <<current, setVars, flow, ack, snapshot, seen, moved>>

Next ==
  \/ \E s \in Setters :
       \/ \E f \in Pointers : SetCall(s, f)
       \/ SetUnchanged(s)
       \/ SetLoad(s)
       \/ SetStore(s)
  \/ \E r \in Readers :
       \/ ReadEpoch(r)
       \/ ReadFilter(r)
       \/ \E e \in Announcements : ShouldRefresh(r, e)

Spec == Init /\ [][Next]_vars

-----------------------------------------------------------------------------
(* The type of every variable. *)
TypeOK ==
  /\ current \in Pointers
  /\ pc \in [Setters -> {"idle", "load", "store"}]
  /\ pushed \in [Setters -> Pointers]
  /\ held \in [Setters -> Pointers]
  /\ reply \in [Setters -> {"none", "updated", "unchanged"}]
  /\ flow \in [Readers -> {"idle", "stamped", "snapshot"}]
  /\ ack \in [Readers -> Epochs]
  /\ snapshot \in [Readers -> Pointers]
  /\ refresh \in [Readers -> [announced : Epochs,
                              answer : {"none", "refresh", "current"}]]
  /\ seen \in [Setters -> SUBSET Pointers]
  /\ moved \in [Readers -> BOOLEAN]

(* However many pushes race, the answer of Set is true of the store at some
   moment of that very call: "unchanged" only if a filter of the pushed epoch
   was held then, "updated" only if nothing or another epoch was.  It is about
   the load in Set and about equalEpoch telling absent from zero. *)
ReplyIsTrueOfTheCall ==
  \A s \in Setters : pc[s] = "idle" =>
    /\ reply[s] = "unchanged" =>
         \E f \in seen[s] \ {Nil} : epochOf(f) = epochOf(pushed[s])
    /\ reply[s] = "updated" =>
         \E f \in seen[s] : f = Nil \/ epochOf(f) # epochOf(pushed[s])

(* The epoch stamped into an event is the epoch of the filter the gate will
   use, unless a push landed between the two reads: the two loads of the
   quickstart, AcknowledgedEpoch and CurrentFilter, are not one snapshot, and
   nothing but a push makes them disagree. *)
StampMatchesSnapshot ==
  \A r \in Readers :
    flow[r] = "snapshot" => ack[r] = epochOf(snapshot[r]) \/ moved[r]

(* Set replaces a filter by one of the same epoch only when another goroutine's
   push has landed between its load and its store: the store is not conditional
   on the pointer that was compared. *)
RedundantSwapNeedsRace ==
  [][\A s \in Setters :
       /\ pc[s] = "store"
       /\ pc'[s] = "idle"
       /\ UnchangedBy(current, pushed[s])
       => current # held[s] /\ current \in seen[s]]_vars

(* filterstore.go:60-62 says of Set that it is false when an equal epoch is
   re-pushed, and line 22 that it is safe for concurrent use: so no push that
   reports an update replaces a filter of the epoch it carries. *)
UpdateChangesEpoch ==
  [][\A s \in Setters :
       /\ pc[s] = "store"
       /\ pc'[s] = "idle"
       /\ epochOf(pushed[s]) # Nil
       => ~UnchangedBy(current, pushed[s])]_vars

(* filterstore.go:77-78 says of ShouldRefresh that with no announced epoch
   there is nothing to compare against, so do not refresh, once a filter is
   held. *)
NoAnnouncementNoRefresh ==
  [][\A r \in Readers :
       /\ refresh'[r] # refresh[r]
       /\ refresh'[r].announced = Nil
       /\ current # Nil
       => refresh'[r].answer = "current"]_vars

(* With one pushing goroutine the store is the abstract EpochStore: every push
   takes effect, and is answered, as if load and store were one step. *)
Atomic == INSTANCE EpochStore WITH filter <- current

ImplementsEpochStore == Atomic!Spec
=============================================================================
