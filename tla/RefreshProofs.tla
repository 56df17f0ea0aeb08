--------------------------- MODULE RefreshProofs ----------------------------
(***************************************************************************)
(* What Set stores when announcements and fetches overtake each other, for *)
(* any number of handlers, filters, publications and lost fetches.         *)
(***************************************************************************)
EXTENDS Refresh, TLAPS

-----------------------------------------------------------------------------
(* A handler is inside Set exactly while it is "setting", with what it fetched;
   and what it fetched is what is published, unless it was overtaken. *)
HandlerInv(h) ==
  /\ pc[h] # "idle" <=> stage[h] = "setting"
  /\ stage[h] = "setting" => pushed[h] = fetched[h]
  /\ stage[h] \in {"pushing", "setting"} =>
       fetched[h] \in {published, Nil} \/ overtaken[h]

HandlersInv ==
  /\ pc \in [Handlers -> {"idle", "load", "store"}]
  /\ pushed \in [Handlers -> Filters \cup {Nil}]
  /\ stage \in [Handlers -> {"idle", "fetching", "pushing", "setting"}]
  /\ fetched \in [Handlers -> Filters \cup {Nil}]
  /\ overtaken \in [Handlers -> BOOLEAN]
  /\ published \in Filters
  /\ \A h \in Handlers : HandlerInv(h)

LEMMA InitHandlers == Init => HandlersInv
BY DEF Init, Store!Init, HandlersInv, HandlerInv

LEMMA PublishKeeps ==
  ASSUME HandlersInv, NEW f \in Filters, Publish(f)
  PROVE  HandlersInv'
<1> USE DEF HandlersInv, Publish, storeVars
<1>1. \A h \in Handlers : HandlerInv(h)'
  BY DEF HandlerInv
<1>2. QED
  BY <1>1

LEMMA RefreshKeeps ==
  ASSUME HandlersInv, NEW h \in Handlers, NEW e, RefreshOnEpoch(h, e)
  PROVE  HandlersInv'
<1> USE DEF HandlersInv, RefreshOnEpoch, Store!ShouldRefresh, Store!setVars
<1>1. \A g \in Handlers : HandlerInv(g)'
  BY DEF HandlerInv
<1>2. QED
  BY <1>1

LEMMA FetchKeeps ==
  ASSUME HandlersInv, NEW h \in Handlers, Fetch(h) \/ FetchNothing(h)
  PROVE  HandlersInv'
<1> USE DEF HandlersInv, Fetch, FetchNothing, storeVars
<1>1. \A g \in Handlers : HandlerInv(g)'
  BY DEF HandlerInv
<1>2. QED
  BY <1>1

LEMMA SetFilterKeeps ==
  ASSUME HandlersInv, NEW h \in Handlers, SetFilter(h)
  PROVE  HandlersInv'
<1> USE DEF HandlersInv, SetFilter, Store!SetCall
<1>1. \A g \in Handlers : HandlerInv(g)'
  BY DEF HandlerInv
<1>2. QED
  BY <1>1

LEMMA SetProceedsKeeps ==
  ASSUME HandlersInv, NEW h \in Handlers, SetProceeds(h)
  PROVE  HandlersInv'
<1> USE DEF HandlersInv, SetProceeds, Store!SetLoad, Store!SetUnchanged, Store!SetStore
<1>1. \A g \in Handlers : HandlerInv(g)'
  BY DEF HandlerInv
<1>2. QED
  BY <1>1

LEMMA HandlersInvariant == Spec => []HandlersInv
<1>1. HandlersInv /\ UNCHANGED vars => HandlersInv'
  BY DEF HandlersInv, HandlerInv, vars, storeVars, hostVars
<1>2. HandlersInv /\ [Next]_vars => HandlersInv'
  BY <1>1, PublishKeeps, RefreshKeeps, FetchKeeps, SetFilterKeeps, SetProceedsKeeps
  DEF Next, Handle
<1>3. QED
  BY InitHandlers, <1>2, PTL DEF Spec

-----------------------------------------------------------------------------
(* Set stores what is published at that moment, unless a publication overtook
   that very handler, and nothing only for a fetch that returned nothing. *)
THEOREM StoresAreFreshUnlessOvertaken == Spec => StaleOnlyWhenOvertaken
<1> DEFINE Fresh(h) ==
      \/ current' = published
      \/ current' = Nil /\ fetched[h] = Nil
      \/ overtaken[h] /\ current' = fetched[h]
<1>1. ASSUME HandlersInv, [Next]_vars, NEW h \in Handlers,
             pc[h] = "store", pc'[h] = "idle"
      PROVE  Fresh(h)
  <2>1. Store!SetStore(h)
    <3>1. ~UNCHANGED vars
      BY <1>1 DEF vars, storeVars
    <3>2. ASSUME NEW f \in Filters, Publish(f) PROVE FALSE
      BY <1>1, <3>2 DEF Publish, storeVars
    <3>3. ASSUME NEW g \in Handlers, NEW e, RefreshOnEpoch(g, e) PROVE FALSE
      BY <1>1, <3>3 DEF RefreshOnEpoch, Store!ShouldRefresh, Store!setVars
    <3>4. ASSUME NEW g \in Handlers, Fetch(g) \/ FetchNothing(g) PROVE FALSE
      BY <1>1, <3>4 DEF Fetch, FetchNothing, storeVars
    <3>5. ASSUME NEW g \in Handlers, SetFilter(g) PROVE FALSE
      BY <1>1, <3>5 DEF SetFilter, Store!SetCall, HandlersInv
    <3>6. ASSUME NEW g \in Handlers, Store!SetLoad(g) \/ Store!SetUnchanged(g)
          PROVE  FALSE
      BY <1>1, <3>6 DEF Store!SetLoad, Store!SetUnchanged, HandlersInv
    <3>7. ASSUME NEW g \in Handlers, Store!SetStore(g) PROVE g = h
      BY <1>1, <3>7 DEF Store!SetStore, HandlersInv
    <3>8. QED
      BY <1>1, <3>1, <3>2, <3>3, <3>4, <3>5, <3>6, <3>7 DEF Next, Handle, SetProceeds
  <2>2. current' = fetched[h]
    BY <1>1, <2>1 DEF Store!SetStore, HandlersInv, HandlerInv
  <2>3. fetched[h] \in {published, Nil} \/ overtaken[h]
    BY <1>1 DEF HandlersInv, HandlerInv
  <2>4. QED
    BY <2>2, <2>3
<1>2. HandlersInv /\ [Next]_vars =>
        [\A h \in Handlers :
           /\ pc[h] = "store"
           /\ pc'[h] = "idle"
           => \/ current' = published
              \/ current' = Nil /\ fetched[h] = Nil
              \/ overtaken[h] /\ current' = fetched[h]]_vars
  BY <1>1
<1>3. QED
  BY <1>2, HandlersInvariant, PTL DEF Spec, StaleOnlyWhenOvertaken
-----------------------------------------------------------------------------
(* The store in the loop is FilterStore's: every step of a host, a handler or
   Sentinel is one of FilterStore's steps or leaves the store alone.  What is
   announced is always the epoch of some filter, and what is pushed is a filter
   or nil, so the loop asks nothing of the store that FilterStore leaves out. *)
AnnouncedInv ==
  announced \subseteq {DeclaredEpoch[f] : f \in Filters}

LEMMA AnnouncedInvariant == Spec => []AnnouncedInv
<1>1. Init => AnnouncedInv
  BY DEF Init, AnnouncedInv
<1>2. AnnouncedInv /\ [Next]_vars => AnnouncedInv'
  <2> SUFFICES ASSUME AnnouncedInv, [Next]_vars PROVE AnnouncedInv'
    OBVIOUS
  <2>1. ASSUME NEW f \in Filters, Publish(f) PROVE AnnouncedInv'
    BY <2>1 DEF Publish, AnnouncedInv
  <2>2. ASSUME UNCHANGED announced PROVE AnnouncedInv'
    BY <2>2 DEF AnnouncedInv
  <2>3. QED
    BY <2>1, <2>2
    DEF Next, RefreshOnEpoch, Handle, Fetch, FetchNothing, SetFilter, SetProceeds,
        vars, hostVars
<1>3. QED
  BY <1>1, <1>2, PTL DEF Spec

THEOREM RefreshUsesTheStore == Spec => Store!Spec
<1>1. Init => Store!Init
  BY DEF Init
<1>2. HandlersInv /\ AnnouncedInv /\ [Next]_vars => [Store!Next]_(Store!vars)
  <2> SUFFICES ASSUME HandlersInv, AnnouncedInv, [Next]_vars
               PROVE  [Store!Next]_(Store!vars)
    OBVIOUS
  <2>1. ASSUME UNCHANGED storeVars PROVE UNCHANGED Store!vars
    BY <2>1 DEF storeVars, Store!vars, Store!setVars, Store!readVars
  <2>2. ASSUME NEW h \in Handlers, NEW e \in announced \cup {Nil}, RefreshOnEpoch(h, e)
        PROVE  Store!Next
    BY <2>2 DEF AnnouncedInv, RefreshOnEpoch, Store!Next
  <2>3. ASSUME NEW h \in Handlers, SetFilter(h) PROVE Store!Next
    BY <2>3 DEF HandlersInv, SetFilter, Store!Next, Store!Pointers
  <2>4. ASSUME NEW h \in Handlers, SetProceeds(h) PROVE Store!Next
    BY <2>4 DEF SetProceeds, Store!Next
  <2>5. QED
    BY <2>1, <2>2, <2>3, <2>4 DEF Next, Handle, Publish, Fetch, FetchNothing, vars
<1>3. QED
  BY <1>1, <1>2, HandlersInvariant, AnnouncedInvariant, PTL DEF Spec, Store!Spec

(* The same store, with the theorems of FilterStoreProofs about it. *)
StoreFacts == INSTANCE FilterStoreProofs WITH
  Setters <- Handlers, Readers <- Handlers, InitialFilter <- Nil,
  Announcements <- {Nil} \cup {DeclaredEpoch[f] : f \in Filters}

LEMMA StoreFactsAreOfTheStore == Store!Spec => StoreFacts!Spec
<1>1. Store!Init => StoreFacts!Init
  BY DEF Store!Init, StoreFacts!Init
<1>2. [Store!Next]_(Store!vars) => [StoreFacts!Next]_(StoreFacts!vars)
  BY DEF Store!Next, StoreFacts!Next, Store!vars, StoreFacts!vars,
         Store!setVars, StoreFacts!setVars, Store!readVars, StoreFacts!readVars,
         Store!SetCall, StoreFacts!SetCall, Store!SetLoad, StoreFacts!SetLoad,
         Store!SetUnchanged, StoreFacts!SetUnchanged, Store!SetStore, StoreFacts!SetStore,
         Store!RecordStore, StoreFacts!RecordStore, Store!Pointers, StoreFacts!Pointers,
         Store!ReadEpoch, StoreFacts!ReadEpoch, Store!ReadFilter, StoreFacts!ReadFilter,
         Store!ShouldRefresh, StoreFacts!ShouldRefresh,
         Store!NeedsRefresh, StoreFacts!NeedsRefresh,
         Store!UnchangedBy, StoreFacts!UnchangedBy,
         Store!equalEpoch, StoreFacts!equalEpoch, Store!epochOf, StoreFacts!epochOf
<1>3. QED
  BY <1>1, <1>2, PTL DEF Store!Spec, StoreFacts!Spec

(* What is proved of FilterStore holds of the loop: whatever is announced, lost or
   overtaken, a SetFilter answers what was true of the store at some moment of that
   call, and it replaces a filter of the same epoch only in a race. *)
THEOREM HandlersRepliesAreTrue ==
  Spec => /\ []StoreFacts!ReplyIsTrueOfTheCall
          /\ StoreFacts!RedundantSwapNeedsRace
<1>1. /\ Nil \notin Filters
      /\ Nil \notin Nat
      /\ DeclaredEpoch \in [Filters -> Nat \cup {Nil}]
      /\ Nil \in Filters \cup {Nil}
      /\ {Nil} \cup {DeclaredEpoch[f] : f \in Filters} \subseteq Nat \cup {Nil}
  BY RefreshAssumption
<1>2. StoreFacts!Spec => []StoreFacts!ReplyIsTrueOfTheCall
  BY <1>1, StoreFacts!RepliesAreTrue
<1>3. StoreFacts!Spec => StoreFacts!RedundantSwapNeedsRace
  BY <1>1, StoreFacts!RedundantSwapsAreRaces
<1>4. QED
  BY <1>2, <1>3, RefreshUsesTheStore, StoreFactsAreOfTheStore, PTL
=============================================================================
