------------------------------- MODULE Refresh ------------------------------
(***************************************************************************)
(* How a store stays up to date.  Sentinel publishes filters, of one epoch *)
(* at a time, and announces epochs; announcements are lost, repeated and   *)
(* overtake each other.  Each is handled by a goroutine of the host that   *)
(* asks RefreshOnEpoch, fetches if it should, and calls SetFilter with     *)
(* whatever it got (client/client.go leaves the fetching to the host).     *)
(* Epochs are opaque: nothing in the code orders them, and a publication   *)
(* may go back to an earlier one.  The store is FilterStore's.             *)
(***************************************************************************)
EXTENDS Naturals

CONSTANTS
  Handlers,         \* the goroutines that handle announcements
  Filters,          \* the filters Sentinel may publish
  DeclaredEpoch,    \* the epoch each one carries
  MaxPublications,  \* bound: the publications after the first
  MaxLosses,        \* bound: the fetches that return no filter
  Nil

ASSUME RefreshAssumption ==
  /\ DeclaredEpoch \in [Filters -> Nat]
  /\ Nil \notin Filters \cup Nat
  /\ MaxPublications \in Nat /\ MaxLosses \in Nat

VARIABLES
  current, pc, pushed, held, reply,          \* FilterStore and its setters
  flow, ack, snapshot, refresh, seen, moved, \* FilterStore's readers
  published,  \* the filter Sentinel publishes now
  announced,  \* the epochs it has announced, each as often as the network likes
  stage,      \* where each handler is
  fetched,    \* what each handler's fetch returned
  publications, losses,  \* counters of the bounds
  overtaken   \* history: whether a filter was published since each fetch

storeVars == <<current, pc, pushed, held, reply,
               flow, ack, snapshot, refresh, seen, moved>>
hostVars == <<published, announced, stage, fetched, publications, losses, overtaken>>
vars == <<storeVars, hostVars>>

Store == INSTANCE FilterStore WITH
  Setters <- Handlers, Readers <- Handlers, InitialFilter <- Nil,
  Announcements <- {Nil} \cup {DeclaredEpoch[f] : f \in Filters}

-----------------------------------------------------------------------------
Init ==
  /\ Store!Init
  /\ published \in Filters
  /\ announced = {DeclaredEpoch[published]}
  /\ stage = [h \in Handlers |-> "idle"]
  /\ fetched = [h \in Handlers |-> Nil]
  /\ publications = 0
  /\ losses = 0
  /\ overtaken = [h \in Handlers |-> FALSE]

(* Sentinel publishes, and announces, a filter of another epoch. *)
Publish(f) ==
  /\ publications < MaxPublications
  /\ DeclaredEpoch[f] # DeclaredEpoch[published]
  /\ published' = f
  /\ announced' = announced \cup {DeclaredEpoch[f]}
  /\ publications' = publications + 1
  /\ overtaken' = [h \in Handlers |-> overtaken[h] \/ stage[h] \in {"pushing", "setting"}]
  /\ UNCHANGED <<storeVars, stage, fetched, losses>>

(* An announcement arrives: RefreshOnEpoch. *)
RefreshOnEpoch(h, e) ==
  /\ stage[h] = "idle"
  /\ Store!ShouldRefresh(h, e)
  /\ stage' = [stage EXCEPT ![h] =
       IF refresh'[h].answer = "refresh" THEN "fetching" ELSE "idle"]
  /\ UNCHANGED <<published, announced, fetched, publications, losses, overtaken>>

(* The latest epoch, whichever other announcements come in between. *)
HearLatest(h) == RefreshOnEpoch(h, DeclaredEpoch[published])

(* The fetch returns what is published now. *)
Fetch(h) ==
  /\ stage[h] = "fetching"
  /\ stage' = [stage EXCEPT ![h] = "pushing"]
  /\ fetched' = [fetched EXCEPT ![h] = published]
  /\ overtaken' = [overtaken EXCEPT ![h] = FALSE]
  /\ UNCHANGED <<storeVars, published, announced, publications, losses>>

(* The fetch fails, and the host pushes the nil it got all the same. *)
FetchNothing(h) ==
  /\ stage[h] = "fetching"
  /\ losses < MaxLosses
  /\ losses' = losses + 1
  /\ stage' = [stage EXCEPT ![h] = "pushing"]
  /\ fetched' = [fetched EXCEPT ![h] = Nil]
  /\ overtaken' = [overtaken EXCEPT ![h] = FALSE]
  /\ UNCHANGED <<storeVars, published, announced, publications>>

(* SetFilter: the call, its load and, unless the epoch is held, its store. *)
SetFilter(h) ==
  /\ stage[h] = "pushing"
  /\ Store!SetCall(h, fetched[h])
  /\ stage' = [stage EXCEPT ![h] = "setting"]
  /\ UNCHANGED <<published, announced, fetched, publications, losses, overtaken>>

SetProceeds(h) ==
  /\ stage[h] = "setting"
  /\ \/ Store!SetLoad(h) /\ UNCHANGED stage
     \/ /\ Store!SetUnchanged(h) \/ Store!SetStore(h)
        /\ stage' = [stage EXCEPT ![h] = "idle"]
  /\ UNCHANGED <<published, announced, fetched, publications, losses, overtaken>>

Handle(h) == Fetch(h) \/ FetchNothing(h) \/ SetFilter(h) \/ SetProceeds(h)

Next ==
  \/ \E f \in Filters : Publish(f)
  \/ \E h \in Handlers :
       \/ \E e \in announced \cup {Nil} : RefreshOnEpoch(h, e)
       \/ Handle(h)

Spec == Init /\ [][Next]_vars

(* A handler that has begun goes on, its fetch returns, and what Sentinel
   publishes now is announced again and again: of the announcements that keep
   arriving at a handler, some are of it. *)
Fairness ==
  \A h \in Handlers : WF_vars(Handle(h)) /\ SF_vars(HearLatest(h))

FairSpec == Spec /\ Fairness

-----------------------------------------------------------------------------
(* However announcements and fetches are reordered, what Set stores is what is
   published at that moment, unless a publication landed between that handler's
   own fetch and its store, and nothing only if its fetch returned nothing: Set
   compares epochs for equality, so neither a late handler nor a nil push is
   turned away (filterstore.go:67-74). *)
StaleOnlyWhenOvertaken ==
  [][\A h \in Handlers :
       /\ pc[h] = "store"
       /\ pc'[h] = "idle"
       => \/ current' = published
          \/ current' = Nil /\ fetched[h] = Nil
          \/ overtaken[h] /\ current' = fetched[h]]_vars

(* The store catches up and stays so: a late handler may put an older filter over
   a newer one, or none at all, and Sentinel may publish an earlier epoch again,
   but as long as the published epoch keeps being announced the epoch held is, in
   the end, the one published, with epoch 0 told from none and older from newer
   announcements only by their difference (ShouldRefresh, equalEpoch). *)
StoreCatchesUp == <>[](current # Nil /\ Store!epochOf(current) = DeclaredEpoch[published])
=============================================================================
