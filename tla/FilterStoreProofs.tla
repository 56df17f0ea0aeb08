-------------------------- MODULE FilterStoreProofs --------------------------
(***************************************************************************)
(* Theorems about FilterStore, for any number of pushing and emitting      *)
(* goroutines, any filters and any interleaving.                           *)
(***************************************************************************)
EXTENDS FilterStore, TLAPS

-----------------------------------------------------------------------------
(* Every variable of FilterStore keeps its type. *)
THEOREM TypeCorrect == Spec => []TypeOK
<1>1. Init => TypeOK
  BY FilterStoreAssumption DEF Init, TypeOK, Pointers, Epochs
<1>2. TypeOK /\ [Next]_vars => TypeOK'
  <2> SUFFICES ASSUME TypeOK, [Next]_vars PROVE TypeOK'
    OBVIOUS
  <2> USE FilterStoreAssumption DEF TypeOK
  <2>1. ASSUME NEW s \in Setters, NEW f \in Pointers, SetCall(s, f) PROVE TypeOK'
    BY <2>1 DEF SetCall, readVars
  <2>2. ASSUME NEW s \in Setters, SetUnchanged(s) PROVE TypeOK'
    BY <2>2 DEF SetUnchanged, readVars
  <2>3. ASSUME NEW s \in Setters, SetLoad(s) PROVE TypeOK'
    BY <2>3 DEF SetLoad, readVars
  <2>4. ASSUME NEW s \in Setters, SetStore(s) PROVE TypeOK'
    BY <2>4 DEF SetStore, RecordStore, readVars, Pointers
  <2>5. ASSUME NEW r \in Readers, ReadEpoch(r) PROVE TypeOK'
    <3>1. epochOf(current) \in Epochs
      BY DEF epochOf, Pointers, Epochs
    <3>2. QED
      BY <2>5, <3>1 DEF ReadEpoch, setVars
  <2>6. ASSUME NEW r \in Readers, ReadFilter(r) PROVE TypeOK'
    BY <2>6 DEF ReadFilter, setVars
  <2>7. ASSUME NEW r \in Readers, NEW e \in Announcements, ShouldRefresh(r, e)
        PROVE TypeOK'
    BY <2>7 DEF ShouldRefresh, setVars, Epochs
  <2>8. CASE UNCHANGED vars
    BY <2>8 DEF vars, setVars, readVars
  <2>9. QED
    BY <2>1, <2>2, <2>3, <2>4, <2>5, <2>6, <2>7, <2>8 DEF Next
<1>3. QED
  BY <1>1, <1>2, PTL DEF Spec

-----------------------------------------------------------------------------
(* What a running Set knows: it decided on a pointer that the store held
   during the call, and what is held now was held during the call. *)
DecidedOnWhatWasSeen ==
  \A s \in Setters :
    /\ pc[s] = "store" => ~UnchangedBy(held[s], pushed[s]) /\ held[s] \in seen[s]
    /\ pc[s] # "idle" => current \in seen[s]

(* ReplyIsTrueOfTheCall is not inductive: the answer of a store rests on the
   pointer loaded before it. *)
ReplyInv == TypeOK /\ DecidedOnWhatWasSeen /\ ReplyIsTrueOfTheCall

(* equalEpoch is equality: absent equals absent only. *)
LEMMA EqualEpochIsEquality ==
  ASSUME NEW a, NEW b
  PROVE  equalEpoch(a, b) <=> a = b
BY DEF equalEpoch

(* ReplyInv holds in every reachable state. *)
LEMMA ReplyInvariant == Spec => []ReplyInv
<1>1. Init => ReplyInv
  <2>1. Init => TypeOK
    BY FilterStoreAssumption DEF Init, TypeOK, Pointers, Epochs
  <2>2. QED
    BY <2>1 DEF Init, ReplyInv, DecidedOnWhatWasSeen, ReplyIsTrueOfTheCall
<1>2. ReplyInv /\ TypeOK' /\ [Next]_vars => ReplyInv'
  <2> SUFFICES ASSUME ReplyInv, TypeOK', [Next]_vars
               PROVE DecidedOnWhatWasSeen' /\ ReplyIsTrueOfTheCall'
    BY DEF ReplyInv
  <2> USE DEF ReplyInv, TypeOK
  <2>1. ASSUME NEW s \in Setters, NEW f \in Pointers, SetCall(s, f)
        PROVE DecidedOnWhatWasSeen' /\ ReplyIsTrueOfTheCall'
    BY <2>1 DEF SetCall, DecidedOnWhatWasSeen, ReplyIsTrueOfTheCall, UnchangedBy, epochOf
  <2>2. ASSUME NEW s \in Setters, SetUnchanged(s)
        PROVE DecidedOnWhatWasSeen' /\ ReplyIsTrueOfTheCall'
    <3>1. DecidedOnWhatWasSeen'
      BY <2>2 DEF SetUnchanged, DecidedOnWhatWasSeen, UnchangedBy, epochOf
    <3>2. current \in seen[s] \ {Nil} /\ epochOf(current) = epochOf(pushed[s])
      BY <2>2, EqualEpochIsEquality DEF SetUnchanged, DecidedOnWhatWasSeen, UnchangedBy
    <3>3. ReplyIsTrueOfTheCall'
      BY <2>2, <3>2 DEF SetUnchanged, ReplyIsTrueOfTheCall, epochOf
    <3>4. QED
      BY <3>1, <3>3
  <2>3. ASSUME NEW s \in Setters, SetLoad(s)
        PROVE DecidedOnWhatWasSeen' /\ ReplyIsTrueOfTheCall'
    BY <2>3 DEF SetLoad, DecidedOnWhatWasSeen, ReplyIsTrueOfTheCall, UnchangedBy, epochOf
  <2>4. ASSUME NEW s \in Setters, SetStore(s)
        PROVE DecidedOnWhatWasSeen' /\ ReplyIsTrueOfTheCall'
    <3>1. DecidedOnWhatWasSeen'
      BY <2>4 DEF SetStore, RecordStore, DecidedOnWhatWasSeen, UnchangedBy, epochOf
    <3>2. held[s] \in seen[s]
          /\ (held[s] = Nil \/ epochOf(held[s]) # epochOf(pushed[s]))
      BY <2>4, EqualEpochIsEquality DEF SetStore, DecidedOnWhatWasSeen, UnchangedBy
    <3>3. ReplyIsTrueOfTheCall'
      BY <2>4, <3>2 DEF SetStore, RecordStore, ReplyIsTrueOfTheCall, epochOf
    <3>4. QED
      BY <3>1, <3>3
  <2>5. ASSUME UNCHANGED <<current, setVars, seen>>
        PROVE DecidedOnWhatWasSeen' /\ ReplyIsTrueOfTheCall'
    BY <2>5 DEF setVars, DecidedOnWhatWasSeen, ReplyIsTrueOfTheCall, UnchangedBy, epochOf
  <2>6. QED
    BY <2>1, <2>2, <2>3, <2>4, <2>5
    DEF Next, ReadEpoch, ReadFilter, ShouldRefresh, vars, setVars
<1>3. QED
  BY <1>1, <1>2, TypeCorrect, PTL DEF Spec

(* However many pushes race, what Set answers is true of the store at some
   moment of that call. *)
THEOREM RepliesAreTrue == Spec => []ReplyIsTrueOfTheCall
<1>1. ReplyInv => ReplyIsTrueOfTheCall
  BY DEF ReplyInv
<1>2. QED
  BY <1>1, ReplyInvariant, PTL

(* A Set swaps in a filter of the epoch already held only when another push
   landed between its load and its store. *)
THEOREM RedundantSwapsAreRaces == Spec => RedundantSwapNeedsRace
<1>1. ReplyInv =>
        \A s \in Setters :
          pc[s] = "store" /\ UnchangedBy(current, pushed[s])
            => current # held[s] /\ current \in seen[s]
  BY DEF ReplyInv, DecidedOnWhatWasSeen
<1>2. ReplyInv /\ [Next]_vars =>
        [\A s \in Setters :
           /\ pc[s] = "store"
           /\ pc'[s] = "idle"
           /\ UnchangedBy(current, pushed[s])
           => current # held[s] /\ current \in seen[s]]_vars
  BY <1>1
<1>3. QED
  BY <1>2, ReplyInvariant, PTL DEF Spec, RedundantSwapNeedsRace

-----------------------------------------------------------------------------
(* While nothing landed since the stamp, it is the epoch of what is held. *)
StampInv ==
  \A r \in Readers :
    flow[r] = "stamped" => ack[r] = epochOf(current) \/ moved[r]

(* The stamped epoch and the filter the gate uses disagree only when a push
   landed between the two reads. *)
THEOREM StampsMatch == Spec => []StampMatchesSnapshot
<1> DEFINE Inv == TypeOK /\ StampInv /\ StampMatchesSnapshot
<1>1. Init => StampInv /\ StampMatchesSnapshot
  BY DEF Init, StampInv, StampMatchesSnapshot
<1>2. Inv /\ [Next]_vars => StampInv' /\ StampMatchesSnapshot'
  <2> SUFFICES ASSUME Inv, [Next]_vars PROVE StampInv' /\ StampMatchesSnapshot'
    OBVIOUS
  <2> USE DEF TypeOK, StampInv, StampMatchesSnapshot
  <2>1. ASSUME NEW s \in Setters, SetStore(s) PROVE StampInv' /\ StampMatchesSnapshot'
    BY <2>1 DEF SetStore, RecordStore, readVars, epochOf
  <2>2. ASSUME NEW r \in Readers, ReadEpoch(r) PROVE StampInv' /\ StampMatchesSnapshot'
    BY <2>2 DEF ReadEpoch, epochOf
  <2>3. ASSUME NEW r \in Readers, ReadFilter(r) PROVE StampInv' /\ StampMatchesSnapshot'
    BY <2>3 DEF ReadFilter, epochOf
  <2>4. ASSUME UNCHANGED <<current, flow, ack, snapshot, moved>>
        PROVE StampInv' /\ StampMatchesSnapshot'
    BY <2>4 DEF epochOf
  <2>5. QED
    BY <2>1, <2>2, <2>3, <2>4
    DEF Next, SetCall, SetUnchanged, SetLoad, ShouldRefresh, vars, readVars
<1>3. QED
  BY <1>1, <1>2, TypeCorrect, PTL DEF Spec

-----------------------------------------------------------------------------
(* With at most one pushing goroutine, nothing moves the pointer between a
   load and its store. *)
OnePusher == \A s, t \in Setters : s = t

HeldIsCurrent ==
  \A s \in Setters :
    pc[s] = "store" => held[s] = current /\ ~UnchangedBy(held[s], pushed[s])

(* One pusher makes Set atomic: the store implements EpochStore. *)
THEOREM OnePusherIsAtomic == OnePusher => (Spec => ImplementsEpochStore)
<1> SUFFICES ASSUME OnePusher PROVE Spec => Atomic!Spec
  BY DEF ImplementsEpochStore
<1>1. Init => HeldIsCurrent
  BY DEF Init, HeldIsCurrent
<1>2. TypeOK /\ HeldIsCurrent /\ [Next]_vars => HeldIsCurrent'
  <2> SUFFICES ASSUME TypeOK, HeldIsCurrent, [Next]_vars PROVE HeldIsCurrent'
    OBVIOUS
  <2> USE DEF TypeOK, HeldIsCurrent, UnchangedBy, epochOf
  <2>1. ASSUME NEW s \in Setters, NEW f \in Pointers, SetCall(s, f) PROVE HeldIsCurrent'
    BY <2>1 DEF SetCall
  <2>2. ASSUME NEW s \in Setters, SetUnchanged(s) PROVE HeldIsCurrent'
    BY <2>2 DEF SetUnchanged
  <2>3. ASSUME NEW s \in Setters, SetLoad(s) PROVE HeldIsCurrent'
    BY <2>3 DEF SetLoad
  <2>4. ASSUME NEW s \in Setters, SetStore(s) PROVE HeldIsCurrent'
    BY <2>4 DEF SetStore, OnePusher
  <2>5. ASSUME UNCHANGED <<current, setVars>> PROVE HeldIsCurrent'
    BY <2>5 DEF setVars
  <2>6. QED
    BY <2>1, <2>2, <2>3, <2>4, <2>5
    DEF Next, ReadEpoch, ReadFilter, ShouldRefresh, vars, setVars
<1>3. Init => Atomic!Init
  BY DEF Init, Atomic!Init
<1>4. TypeOK /\ HeldIsCurrent /\ [Next]_vars => [Atomic!Next]_(Atomic!vars)
  <2> SUFFICES ASSUME TypeOK, HeldIsCurrent, [Next]_vars
               PROVE [Atomic!Next]_(Atomic!vars)
    OBVIOUS
  <2> USE EqualEpochIsEquality
      DEF TypeOK, UnchangedBy, epochOf, Atomic!EpochOf, Atomic!vars
  <2>1. ASSUME NEW s \in Setters, NEW f \in Pointers, SetCall(s, f)
        PROVE UNCHANGED Atomic!vars
    BY <2>1 DEF SetCall, readVars
  <2>2. ASSUME NEW s \in Setters, SetUnchanged(s)
        PROVE Atomic!Keep(s, pushed[s])
    BY <2>2 DEF SetUnchanged, readVars, Atomic!Keep
  <2>3. ASSUME NEW s \in Setters, SetLoad(s)
        PROVE UNCHANGED Atomic!vars
    BY <2>3 DEF SetLoad, readVars
  <2>4. ASSUME NEW s \in Setters, SetStore(s)
        PROVE Atomic!Swap(s, pushed[s])
    BY <2>4 DEF SetStore, readVars, HeldIsCurrent, Atomic!Swap
  <2>5. ASSUME NEW r \in Readers, ReadEpoch(r) PROVE Atomic!ReadEpoch(r)
    BY <2>5 DEF ReadEpoch, setVars, Atomic!ReadEpoch
  <2>6. ASSUME NEW r \in Readers, ReadFilter(r) PROVE Atomic!ReadFilter(r)
    BY <2>6 DEF ReadFilter, setVars, Atomic!ReadFilter
  <2>7. ASSUME NEW r \in Readers, NEW e \in Announcements, ShouldRefresh(r, e)
        PROVE Atomic!AskRefresh(r, e)
    <3>1. NeedsRefresh(current, e)
            <=> epochOf(current) = Nil \/ (e # Nil /\ e # epochOf(current))
      BY DEF NeedsRefresh
    <3>2. QED
      BY <2>7, <3>1 DEF ShouldRefresh, setVars, Atomic!AskRefresh
  <2>8. CASE UNCHANGED vars
    BY <2>8 DEF vars, setVars, readVars
  <2>9. QED
    BY <2>1, <2>2, <2>3, <2>4, <2>5, <2>6, <2>7, <2>8
    DEF Next, Atomic!Next, Pointers
<1>5. QED
  BY <1>1, <1>2, <1>3, <1>4, TypeCorrect, PTL DEF Spec, Atomic!Spec
=============================================================================
