------------------------------- MODULE Loops -------------------------------
(***************************************************************************)
(* Lemmas about the loops that build the slices of this SDK.  A Go loop    *)
(* that appends, for each element of one slice, something or nothing to    *)
(* another, is a FlattenSeq over a function on its indexes; what such a    *)
(* loop makes, keeps and drops is proved here, by induction over sequences *)
(* and numbers, which for these provers is induction for a set.            *)
(***************************************************************************)
EXTENDS Integers, SequencesExt, SequenceTheorems, WellFoundedInduction, TLAPS

(* The least number principle, for a set: induction without a predicate to
   instantiate. *)
LEMMA LeastNumber ==
  ASSUME NEW S \in SUBSET Nat, S # {}
  PROVE  \E m \in S : \A k \in S : m <= k
<1> DEFINE R == OpToRel(<, Nat)
<1>1. IsWellFoundedOn(R, Nat)
  BY NatLessThanWellFounded
<1>2. \A k, m \in Nat : k < m => <<k, m>> \in R
  BY DEF OpToRel
<1> HIDE DEF R
<1>3. PICK m \in S : \A k \in S : ~ (<<k, m>> \in R)
  BY <1>1, WFMin
<1>4. \A k \in S : ~ (k < m)
  BY <1>2, <1>3
<1>5. QED
  BY <1>4

(* Induction over the numbers, for a set. *)
LEMMA NumberInduction ==
  ASSUME NEW Good, 0 \in Good, \A n \in Nat : n \in Good => n + 1 \in Good
  PROVE  Nat \subseteq Good
<1> DEFINE Bad == {n \in Nat : n \notin Good}
<1>1. SUFFICES ASSUME Bad # {} PROVE FALSE
  OBVIOUS
<1>2. PICK m \in Bad : \A k \in Bad : m <= k
  BY <1>1, LeastNumber
<1>3. m \in Nat /\ m # 0 /\ m \notin Good
  BY <1>2
<1>4. m - 1 \in Nat /\ m - 1 \in Good
  BY <1>2, <1>3
<1>5. QED
  BY <1>3, <1>4

(* Induction over sequences, for a set: whatever is appended. *)
LEMMA SequenceInduction ==
  ASSUME NEW S, NEW Good, << >> \in Good,
         \A s \in Seq(S), e \in S : s \in Good => Append(s, e) \in Good
  PROVE  Seq(S) \subseteq Good
<1> DEFINE Lengths == {n \in Nat : \A s \in Seq(S) : Len(s) = n => s \in Good}
<1>1. 0 \in Lengths
  <2>1. ASSUME NEW s \in Seq(S), Len(s) = 0 PROVE s = << >>
    BY <2>1, EmptySeq
  <2>2. QED
    BY <2>1
<1>2. ASSUME NEW n \in Nat, n \in Lengths PROVE n + 1 \in Lengths
  <2>1. SUFFICES ASSUME NEW s \in Seq(S), Len(s) = n + 1 PROVE s \in Good
    OBVIOUS
  <2>2. s # << >>
    BY <2>1, EmptySeq
  <2>3. PICK t \in Seq(S), e \in S : s = Append(t, e)
    BY <2>2, SequenceEmptyOrAppend
  <2>4. Len(t) = n
    BY <2>1, <2>3, AppendProperties, LenProperties
  <2>5. QED
    BY <1>2, <2>3, <2>4
<1> HIDE DEF Lengths
<1>3. Nat \subseteq Lengths
  BY <1>1, <1>2, NumberInduction
<1>4. ASSUME NEW s \in Seq(S) PROVE s \in Good
  <2>1. Len(s) \in Nat
    BY LenProperties
  <2>2. QED
    BY <1>3, <2>1 DEF Lengths
<1>5. QED
  BY <1>4

(* The function in the definition of FlattenSeq. *)
Flattening(f, ss, n) ==
  f = [ i \in 1 .. n |-> IF i = 1 THEN ss[i] ELSE f[i - 1] \o ss[i] ]

(* Its equation, at one index. *)
LEMMA FlatteningStep ==
  ASSUME NEW f, NEW ss, NEW n, Flattening(f, ss, n), NEW i \in 1 .. n
  PROVE  f[i] = IF i = 1 THEN ss[i] ELSE f[i - 1] \o ss[i]
<1> DEFINE h == [ j \in 1 .. n |-> IF j = 1 THEN ss[j] ELSE f[j - 1] \o ss[j] ]
<1>1. f = h
  BY DEF Flattening
<1>2. h[i] = IF i = 1 THEN ss[i] ELSE f[i - 1] \o ss[i]
  OBVIOUS
<1> HIDE DEF h
<1>3. QED
  BY <1>1, <1>2

(* There is one, for sequences of any length. *)
LEMMA FlatteningExists ==
  ASSUME NEW ss
  PROVE  \A n \in Nat : \E f : Flattening(f, ss, n)
<1> DEFINE Good == {n \in Nat : \E f : Flattening(f, ss, n)}
<1>1. 0 \in Good
  <2>1. Flattening([i \in 1 .. 0 |-> ss[i]], ss, 0)
    BY DEF Flattening
  <2>2. QED
    BY <2>1
<1>2. ASSUME NEW n \in Nat, n \in Good PROVE n + 1 \in Good
  <2>1. PICK g : Flattening(g, ss, n)
    BY <1>2
  <2> DEFINE f == [ i \in 1 .. n + 1 |->
                      IF i = n + 1 THEN IF i = 1 THEN ss[i] ELSE g[n] \o ss[i] ELSE g[i] ]
  <2>2. \A i \in 1 .. n : g[i] = IF i = 1 THEN ss[i] ELSE g[i - 1] \o ss[i]
    BY <2>1, FlatteningStep
  <2>3. ASSUME NEW i \in 1 .. n + 1
        PROVE  f[i] = IF i = 1 THEN ss[i] ELSE f[i - 1] \o ss[i]
    BY <2>2
  <2>4. f = [ i \in 1 .. n + 1 |-> f[i] ]
    OBVIOUS
  <2> HIDE DEF f
  <2>5. Flattening(f, ss, n + 1)
    BY <2>3, <2>4 DEF Flattening
  <2>6. QED
    BY <2>5
<1>3. QED
  BY <1>1, <1>2, NumberInduction

(* It depends on nothing but the sequences it has flattened so far. *)
LEMMA FlatteningUnique ==
  ASSUME NEW ss, NEW tt, NEW f, NEW g, NEW n \in Nat, NEW m \in Nat,
         Flattening(f, ss, n), Flattening(g, tt, m), n <= m,
         \A i \in 1 .. n : ss[i] = tt[i]
  PROVE  \A i \in 1 .. n : f[i] = g[i]
<1> DEFINE Good == {j \in Nat : j \in 1 .. n => f[j] = g[j]}
<1>1. 0 \in Good
  OBVIOUS
<1>2. ASSUME NEW j \in Nat, j \in Good PROVE j + 1 \in Good
  <2>1. SUFFICES ASSUME j + 1 \in 1 .. n PROVE f[j + 1] = g[j + 1]
    OBVIOUS
  <2>2. /\ f[j + 1] = IF j + 1 = 1 THEN ss[j + 1] ELSE f[j + 1 - 1] \o ss[j + 1]
        /\ g[j + 1] = IF j + 1 = 1 THEN tt[j + 1] ELSE g[j + 1 - 1] \o tt[j + 1]
    <3>1. j + 1 \in 1 .. m
      BY <2>1
    <3>2. QED
      BY <2>1, <3>1, FlatteningStep
  <2>3. QED
    BY <1>2, <2>1, <2>2
<1>3. Nat \subseteq Good
  <2> HIDE DEF Good
  <2>1. QED
    BY <1>1, <1>2, NumberInduction
<1>4. QED
  BY <1>3

(* FlattenSeq chooses it, and takes its last value. *)
LEMMA FlattenIs ==
  ASSUME NEW ss, NEW n \in Nat \ {0}, Len(ss) = n
  PROVE  \E f : Flattening(f, ss, n) /\ FlattenSeq(ss) = f[n]
<1> DEFINE f == CHOOSE f : Flattening(f, ss, n)
<1>1. Flattening(f, ss, n)
  BY FlatteningExists
<1>2. FlattenSeq(ss) = f[n]
  BY DEF FlattenSeq, Flattening
<1>3. QED
  BY <1>1, <1>2

(* Flattening nothing, one sequence, and one sequence more. *)
LEMMA FlattenEmpty == FlattenSeq(<< >>) = << >>
BY DEF FlattenSeq

LEMMA FlattenOne ==
  ASSUME NEW s
  PROVE  FlattenSeq(<< s >>) = s
<1>1. Len(<< s >>) = 1 /\ << s >>[1] = s
  OBVIOUS
<1>2. 1 \in Nat \ {0} /\ 1 \in 1 .. 1
  OBVIOUS
<1> DEFINE ss == << s >>
<1> HIDE DEF ss
<1>3. PICK f : Flattening(f, ss, 1) /\ FlattenSeq(ss) = f[1]
  BY <1>1, <1>2, FlattenIs DEF ss
<1>4. f[1] = ss[1]
  BY <1>2, <1>3, FlatteningStep
<1>5. QED
  BY <1>1, <1>3, <1>4 DEF ss

LEMMA FlattenAppend ==
  ASSUME NEW T, NEW ss \in Seq(Seq(T)), NEW s \in Seq(T)
  PROVE  FlattenSeq(Append(ss, s)) = FlattenSeq(ss) \o s
<1> DEFINE tt == Append(ss, s)
<1>1. PICK n \in Nat : n = Len(ss)
  BY LenProperties
<1>2. PICK k \in Nat \ {0} : k = n + 1
  OBVIOUS
<1>3. Len(tt) = k /\ tt[k] = s /\ \A i \in 1 .. n : ss[i] = tt[i]
  BY <1>1, <1>2, AppendProperties
<1> HIDE DEF tt
<1>4. PICK g : Flattening(g, tt, k) /\ FlattenSeq(tt) = g[k]
  BY <1>3, FlattenIs
<1>5. g[k] = IF k = 1 THEN tt[k] ELSE g[k - 1] \o tt[k]
  <2>1. k \in 1 .. k
    OBVIOUS
  <2>2. QED
    BY <1>4, <2>1, FlatteningStep
<1>6. CASE n = 0
  <2>1. ss = << >>
    BY <1>1, <1>6, EmptySeq
  <2>2. FlattenSeq(ss) \o s = s
    BY <2>1, FlattenEmpty, ConcatEmptySeq
  <2>3. QED
    BY <1>2, <1>3, <1>4, <1>5, <1>6, <2>2 DEF tt
<1>7. CASE n # 0
  <2>1. n \in Nat \ {0}
    BY <1>7
  <2>2. PICK f : Flattening(f, ss, n) /\ FlattenSeq(ss) = f[n]
    BY <1>1, <2>1, FlattenIs
  <2>3. n <= k /\ n \in 1 .. n /\ k \in Nat
    BY <1>2, <2>1
  <2>4. \A i \in 1 .. n : f[i] = g[i]
    <3>1. \A i \in 1 .. n : ss[i] = tt[i]
      BY <1>3
    <3>2. Flattening(f, ss, n) /\ Flattening(g, tt, k)
      BY <1>4, <2>2
    <3>3. QED
      BY <2>3, <3>1, <3>2, FlatteningUnique
  <2>5. f[n] = g[k - 1]
    BY <1>2, <2>3, <2>4
  <2>6. QED
    BY <1>2, <1>3, <1>4, <1>5, <1>7, <2>2, <2>5 DEF tt
<1>8. QED
  BY <1>6, <1>7

(* What is flattened has elements of what was. *)
LEMMA FlattenType ==
  ASSUME NEW T, NEW ss \in Seq(Seq(T))
  PROVE  FlattenSeq(ss) \in Seq(T)
<1> DEFINE Good == {tt \in Seq(Seq(T)) : FlattenSeq(tt) \in Seq(T)}
<1>1. << >> \in Good
  BY FlattenEmpty, EmptySeq
<1>2. ASSUME NEW tt \in Seq(Seq(T)), NEW s \in Seq(T), tt \in Good
      PROVE  Append(tt, s) \in Good
  <2>1. Append(tt, s) \in Seq(Seq(T))
    BY AppendProperties
  <2>2. FlattenSeq(tt) \o s \in Seq(T)
    BY <1>2, ConcatProperties
  <2>3. QED
    BY <2>1, <2>2, FlattenAppend
<1>3. Seq(Seq(T)) \subseteq Good
  <2> HIDE DEF Good
  <2>1. QED
    BY <1>1, <1>2, SequenceInduction
<1>4. QED
  BY <1>3

-----------------------------------------------------------------------------
(* A loop over s makes of each x of it g[x], in turn, or appends all of g[x]. *)
Mapped(g, s) == [ i \in DOMAIN s |-> g[s[i]] ]
FlatMap(g, s) == FlattenSeq(Mapped(g, s))

Appends(g, S, T) == \A x \in S : g[x] \in Seq(T)

(* A loop that makes one thing of each, as it goes on. *)
LEMMA MapType ==
  ASSUME NEW S, NEW U, NEW g, NEW s \in Seq(S), \A x \in S : g[x] \in U
  PROVE  Mapped(g, s) \in Seq(U) /\ Len(Mapped(g, s)) = Len(s)
<1>1. PICK n \in Nat : n = Len(s)
  BY LenProperties
<1>2. DOMAIN s = 1 .. n /\ \A i \in 1 .. n : g[s[i]] \in U
  BY <1>1, LenProperties, ElementOfSeq
<1>3. [ i \in 1 .. n |-> g[s[i]] ] \in Seq(U)
  BY <1>2, IsASeq
<1>4. QED
  BY <1>1, <1>2, <1>3, LenProperties DEF Mapped

LEMMA MapAppend ==
  ASSUME NEW S, NEW g, NEW s \in Seq(S), NEW e \in S
  PROVE  Mapped(g, Append(s, e)) = Append(Mapped(g, s), g[e])
<1> DEFINE U == {g[x] : x \in S}
           t == Mapped(g, s)
           u == Mapped(g, Append(s, e))
<1>1. PICK n \in Nat : n = Len(s)
  BY LenProperties
<1>2. PICK k \in Nat : k = n + 1
  OBVIOUS
<1>3. g[e] \in U /\ \A x \in S : g[x] \in U
  OBVIOUS
<1> HIDE DEF U
<1>4. t \in Seq(U) /\ Len(t) = n /\ u \in Seq(U) /\ Len(u) = k
  <2>1. Append(s, e) \in Seq(S) /\ Len(Append(s, e)) = k
    BY <1>1, <1>2, AppendProperties
  <2>2. t \in Seq(U) /\ Len(t) = n
    BY <1>1, <1>3, MapType
  <2>3. PICK w \in Seq(S) : w = Append(s, e)
    BY <2>1
  <2>4. Mapped(g, w) \in Seq(U) /\ Len(Mapped(g, w)) = Len(w)
    BY <1>3, MapType
  <2>5. QED
    BY <2>1, <2>2, <2>3, <2>4
<1>5. /\ Append(t, g[e]) \in Seq(U) /\ Len(Append(t, g[e])) = k
      /\ \A i \in 1 .. n : Append(t, g[e])[i] = t[i]
      /\ Append(t, g[e])[k] = g[e]
  <2> HIDE DEF t
  <2>1. QED
    BY <1>2, <1>3, <1>4, AppendProperties
<1>6. \A i \in 1 .. k : u[i] = Append(t, g[e])[i]
  <2>1. /\ DOMAIN s = 1 .. n /\ DOMAIN Append(s, e) = 1 .. k
        /\ \A i \in 1 .. n : Append(s, e)[i] = s[i]
        /\ Append(s, e)[k] = e
    BY <1>1, <1>2, LenProperties, AppendProperties
  <2>2. \A i \in 1 .. n : t[i] = g[s[i]]
    BY <2>1 DEF Mapped
  <2>3. \A i \in 1 .. k : u[i] = g[Append(s, e)[i]]
    BY <2>1 DEF Mapped
  <2> HIDE DEF t, u
  <2>4. QED
    BY <1>2, <1>5, <2>1, <2>2, <2>3
<1> HIDE DEF t, u
<1>7. u = Append(t, g[e])
  BY <1>4, <1>5, <1>6, SeqEqual
<1>8. QED
  BY <1>7 DEF t, u

(* A loop that appends, as it goes on. *)
LEMMA FlatMapEmpty == ASSUME NEW g PROVE FlatMap(g, << >>) = << >>
<1>1. [ i \in DOMAIN << >> |-> g[<< >>[i]] ] = << >>
  OBVIOUS
<1>2. QED
  BY <1>1, FlattenEmpty DEF FlatMap, Mapped

LEMMA FlatMapAppend ==
  ASSUME NEW S, NEW T, NEW g, Appends(g, S, T), NEW s \in Seq(S), NEW e \in S
  PROVE  FlatMap(g, Append(s, e)) = FlatMap(g, s) \o g[e]
<1>1. \A x \in S : g[x] \in Seq(T)
  BY DEF Appends
<1>2. Mapped(g, s) \in Seq(Seq(T))
  BY <1>1, MapType
<1>3. Mapped(g, Append(s, e)) = Append(Mapped(g, s), g[e])
  BY MapAppend
<1>4. FlattenSeq(Append(Mapped(g, s), g[e])) = FlattenSeq(Mapped(g, s)) \o g[e]
  BY <1>1, <1>2, FlattenAppend
<1>5. QED
  BY <1>3, <1>4 DEF FlatMap

LEMMA FlatMapType ==
  ASSUME NEW S, NEW T, NEW g, Appends(g, S, T), NEW s \in Seq(S)
  PROVE  FlatMap(g, s) \in Seq(T)
<1>1. \A x \in S : g[x] \in Seq(T)
  BY DEF Appends
<1>2. Mapped(g, s) \in Seq(Seq(T))
  BY <1>1, MapType
<1>3. QED
  BY <1>2, FlattenType DEF FlatMap

(* A loop that appended nothing appended nothing in any round. *)
LEMMA FlatMapNothing ==
  ASSUME NEW S, NEW T, NEW g, Appends(g, S, T), NEW s \in Seq(S),
         FlatMap(g, s) = << >>
  PROVE  \A i \in DOMAIN s : g[s[i]] = << >>
<1> DEFINE Good == {t \in Seq(S) :
                      FlatMap(g, t) = << >> => \A i \in DOMAIN t : g[t[i]] = << >>}
<1>1. << >> \in Good
  BY EmptySeq
<1>2. ASSUME NEW t \in Seq(S), NEW e \in S, t \in Good PROVE Append(t, e) \in Good
  <2>1. Append(t, e) \in Seq(S)
    BY AppendProperties
  <2>2. SUFFICES ASSUME FlatMap(g, Append(t, e)) = << >>, NEW i \in DOMAIN Append(t, e)
                 PROVE  g[Append(t, e)[i]] = << >>
    BY <2>1
  <2>3. FlatMap(g, t) \o g[e] = << >>
    BY <2>2, FlatMapAppend
  <2>4. FlatMap(g, t) \in Seq(T) /\ g[e] \in Seq(T)
    BY FlatMapType DEF Appends
  <2>5. FlatMap(g, t) = << >> /\ g[e] = << >>
    BY <2>3, <2>4, ConcatProperties, LenProperties, EmptySeq
  <2>6. PICK n \in Nat : n = Len(t)
    BY LenProperties
  <2>7. i \in 1 .. n \/ i = n + 1
    BY <2>2, <2>6, AppendProperties, LenProperties
  <2>8. CASE i \in 1 .. n
    <3>1. Append(t, e)[i] = t[i] /\ i \in DOMAIN t
      BY <2>6, <2>8, AppendProperties, LenProperties
    <3>2. QED
      BY <1>2, <2>5, <3>1
  <2>9. CASE i = n + 1
    BY <2>5, <2>6, <2>9, AppendProperties
  <2>10. QED
    BY <2>7, <2>8, <2>9
<1>3. Seq(S) \subseteq Good
  <2> HIDE DEF Good
  <2>1. QED
    BY <1>1, <1>2, SequenceInduction
<1>4. QED
  BY <1>3

(* A loop over two sequences in turn. *)
LEMMA FlatMapConcat ==
  ASSUME NEW S, NEW T, NEW g, Appends(g, S, T), NEW s \in Seq(S), NEW t \in Seq(S)
  PROVE  FlatMap(g, s \o t) = FlatMap(g, s) \o FlatMap(g, t)
<1> DEFINE Good == {u \in Seq(S) : FlatMap(g, s \o u) = FlatMap(g, s) \o FlatMap(g, u)}
<1>1. << >> \in Good
  <2>1. FlatMap(g, s) \in Seq(T)
    BY FlatMapType
  <2>2. QED
    BY <2>1, EmptySeq, ConcatEmptySeq, FlatMapEmpty
<1>2. ASSUME NEW u \in Seq(S), NEW e \in S, u \in Good PROVE Append(u, e) \in Good
  <2>1. Append(u, e) \in Seq(S)
    BY AppendProperties
  <2>2. PICK su \in Seq(S) : su = s \o u
    BY ConcatProperties
  <2>3. s \o Append(u, e) = Append(su, e)
    BY <2>2, ConcatAssociative, AppendIsConcat
  <2>4. FlatMap(g, Append(su, e)) = FlatMap(g, su) \o g[e]
    BY FlatMapAppend
  <2>5. FlatMap(g, Append(u, e)) = FlatMap(g, u) \o g[e]
    BY FlatMapAppend
  <2>6. PICK a \in Seq(T), b \in Seq(T), c \in Seq(T) :
          a = FlatMap(g, s) /\ b = FlatMap(g, u) /\ c = g[e]
    BY FlatMapType DEF Appends
  <2>7. (a \o b) \o c = a \o (b \o c)
    BY ConcatAssociative
  <2>8. QED
    BY <1>2, <2>1, <2>2, <2>3, <2>4, <2>5, <2>6, <2>7
<1>3. Seq(S) \subseteq Good
  <2> HIDE DEF Good
  <2>1. QED
    BY <1>1, <1>2, SequenceInduction
<1>4. QED
  BY <1>3

(* Two loops, one over what the other appended, are one. *)
LEMMA FlatMapTwice ==
  ASSUME NEW S, NEW T, NEW U, NEW g, Appends(g, S, T), NEW h, Appends(h, T, U),
         NEW k, Appends(k, S, U), \A x \in S : k[x] = FlatMap(h, g[x]),
         NEW s \in Seq(S)
  PROVE  FlatMap(h, FlatMap(g, s)) = FlatMap(k, s)
<1> DEFINE Good == {t \in Seq(S) : FlatMap(h, FlatMap(g, t)) = FlatMap(k, t)}
<1>1. << >> \in Good
  BY EmptySeq, FlatMapEmpty
<1>2. ASSUME NEW t \in Seq(S), NEW e \in S, t \in Good PROVE Append(t, e) \in Good
  <2>1. Append(t, e) \in Seq(S)
    BY AppendProperties
  <2>2. FlatMap(g, t) \in Seq(T) /\ g[e] \in Seq(T)
    BY FlatMapType DEF Appends
  <2>3. FlatMap(g, Append(t, e)) = FlatMap(g, t) \o g[e]
    BY FlatMapAppend
  <2>4. FlatMap(h, FlatMap(g, t) \o g[e]) = FlatMap(h, FlatMap(g, t)) \o FlatMap(h, g[e])
    BY <2>2, FlatMapConcat
  <2>5. FlatMap(k, Append(t, e)) = FlatMap(k, t) \o k[e]
    BY FlatMapAppend
  <2>6. QED
    BY <1>2, <2>1, <2>3, <2>4, <2>5
<1>3. Seq(S) \subseteq Good
  <2> HIDE DEF Good
  <2>1. QED
    BY <1>1, <1>2, SequenceInduction
<1>4. QED
  BY <1>3

(* What a loop makes is made in some round of it, and nothing else is. *)
LEMMA FlatMapRange ==
  ASSUME NEW S, NEW T, NEW g, Appends(g, S, T), NEW s \in Seq(S)
  PROVE  Range(FlatMap(g, s)) = UNION {Range(g[x]) : x \in Range(s)}
<1> DEFINE Good == {t \in Seq(S) :
                      Range(FlatMap(g, t)) = UNION {Range(g[x]) : x \in Range(t)}}
<1>1. << >> \in Good
  <2>1. Range(<< >>) = {}
    BY DEF Range
  <2>2. QED
    BY <2>1, EmptySeq, FlatMapEmpty
<1>2. ASSUME NEW t \in Seq(S), NEW e \in S, t \in Good PROVE Append(t, e) \in Good
  <2>1. Append(t, e) \in Seq(S) /\ Append(t, e) = t \o << e >>
    BY AppendProperties, AppendIsConcat
  <2>2. PICK one \in Seq(S) : one = << e >> /\ Append(t, e) = t \o one
    <3>1. << e >> \in Seq(S)
      OBVIOUS
    <3>2. QED
      BY <2>1, <3>1
  <2>3. Range(one) = {e}
    BY <2>2 DEF Range
  <2>4. Range(Append(t, e)) = Range(t) \cup {e}
    <3>1. Range(t \o one) = Range(t) \cup Range(one)
      BY RangeConcatenation
    <3>2. QED
      BY <2>2, <2>3, <3>1
  <2>5. FlatMap(g, t) \in Seq(T) /\ g[e] \in Seq(T)
    BY FlatMapType DEF Appends
  <2>6. FlatMap(g, Append(t, e)) = FlatMap(g, t) \o g[e]
    BY FlatMapAppend
  <2>7. Range(FlatMap(g, Append(t, e))) = Range(FlatMap(g, t)) \cup Range(g[e])
    BY <2>5, <2>6, RangeConcatenation
  <2>8. QED
    BY <1>2, <2>1, <2>4, <2>7
<1>3. Seq(S) \subseteq Good
  <2> HIDE DEF Good
  <2>1. QED
    BY <1>1, <1>2, SequenceInduction
<1>4. QED
  BY <1>3

(* A loop that appends each element, and it alone, copies. *)
LEMMA FlatMapCopies ==
  ASSUME NEW S, NEW g, \A x \in S : g[x] = << x >>, NEW s \in Seq(S)
  PROVE  FlatMap(g, s) = s
<1> DEFINE Good == {t \in Seq(S) : FlatMap(g, t) = t}
<1>1. << >> \in Good
  BY EmptySeq, FlatMapEmpty
<1>2. ASSUME NEW t \in Seq(S), NEW e \in S, t \in Good PROVE Append(t, e) \in Good
  <2>1. Appends(g, S, S)
    <3>1. ASSUME NEW x \in S PROVE << x >> \in Seq(S)
      OBVIOUS
    <3>2. QED
      BY <3>1 DEF Appends
  <2>2. FlatMap(g, Append(t, e)) = FlatMap(g, t) \o g[e]
    BY <2>1, FlatMapAppend
  <2>3. Append(t, e) \in Seq(S) /\ Append(t, e) = t \o << e >>
    BY AppendProperties, AppendIsConcat
  <2>4. QED
    BY <1>2, <2>2, <2>3
<1>3. Seq(S) \subseteq Good
  <2> HIDE DEF Good
  <2>1. QED
    BY <1>1, <1>2, SequenceInduction
<1>4. QED
  BY <1>3

(* A loop of one round. *)
LEMMA FlatMapOne == ASSUME NEW g, NEW x PROVE FlatMap(g, << x >>) = g[x]
<1>1. Mapped(g, << x >>) = << g[x] >>
  BY DEF Mapped
<1>2. QED
  BY <1>1, FlattenOne DEF FlatMap

(* A sequence is one of whatever its elements are. *)
LEMMA SeqOfElements ==
  ASSUME NEW S, NEW T, NEW s \in Seq(S), \A i \in DOMAIN s : s[i] \in T
  PROVE  s \in Seq(T)
<1>1. PICK R : R = Range(s)
  OBVIOUS
<1>2. s \in Seq(R) /\ R = {s[i] : i \in 1 .. Len(s)} /\ DOMAIN s = 1 .. Len(s)
  BY <1>1, SeqOfRange, RangeEquality, LenProperties
<1>3. R \subseteq T
  BY <1>2
<1>4. QED
  BY <1>2, <1>3, SeqMonotonic
=============================================================================
