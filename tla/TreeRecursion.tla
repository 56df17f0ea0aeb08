--------------------------- MODULE TreeRecursion ----------------------------
(***************************************************************************)
(* Functions defined by recursion over finite trees, and induction over    *)
(* them.  A recursive function of a specification is the CHOOSE below with *)
(* its own set, depth and body for Tree, depth and Body: an INSTANCE of    *)
(* this module says that it satisfies its equation.                        *)
(***************************************************************************)
EXTENDS Loops

CONSTANTS
  Tree,       \* the trees
  depth,      \* how deep each of them is
  Body(_, _)  \* the value at a tree, from the function defined so far

Recursive == CHOOSE f : f = [x \in Tree |-> Body(f, x)]

(* The body asks for the values of what is less deep, and of nothing else. *)
BodyIsLocal ==
  \A f, g : \A x \in Tree :
    (\A y \in Tree : depth[y] < depth[x] => f[y] = g[y]) => Body(f, x) = Body(g, x)

-----------------------------------------------------------------------------
(* Induction over the trees, for a set. *)
LEMMA TreeInduction ==
  ASSUME depth \in [Tree -> Nat], NEW Good,
         \A v \in Tree :
           (\A u \in Tree : depth[u] < depth[v] => u \in Good) => v \in Good
  PROVE  Tree \subseteq Good
<1> DEFINE Bad == {n \in Nat : \E v \in Tree : depth[v] = n /\ v \notin Good}
<1>1. SUFFICES ASSUME NEW v \in Tree, v \notin Good PROVE FALSE
  OBVIOUS
<1>2. depth[v] \in Bad
  BY <1>1
<1>3. PICK m \in Bad : \A k \in Bad : m <= k
  BY <1>2, LeastNumber
<1>4. PICK w \in Tree : depth[w] = m /\ w \notin Good
  BY <1>3
<1>5. ASSUME NEW u \in Tree, depth[u] < depth[w] PROVE u \in Good
  BY <1>3, <1>4, <1>5
<1>6. QED
  BY <1>4, <1>5

-----------------------------------------------------------------------------
(* The function, as far as depth n. *)
Upto(n) == {x \in Tree : depth[x] < n}
Partial(f, n) == f = [x \in Upto(n) |-> Body(f, x)]

LEMMA PartialStep ==
  ASSUME NEW f, NEW n, Partial(f, n), NEW x \in Upto(n)
  PROVE  f[x] = Body(f, x)
<1> DEFINE h == [y \in Upto(n) |-> Body(f, y)]
<1>1. f = h
  BY DEF Partial
<1>2. h[x] = Body(f, x)
  OBVIOUS
<1> HIDE DEF h
<1>3. QED
  BY <1>1, <1>2

LEMMA PartialExists ==
  ASSUME depth \in [Tree -> Nat], BodyIsLocal
  PROVE  \A n \in Nat : \E f : Partial(f, n)
<1> DEFINE Good == {n \in Nat : \E f : Partial(f, n)}
<1>1. 0 \in Good
  <2>1. Upto(0) = {}
    BY DEF Upto
  <2>2. Partial([x \in {} |-> x], 0)
    BY <2>1 DEF Partial
  <2>3. QED
    BY <2>2
<1>2. ASSUME NEW n \in Nat, n \in Good PROVE n + 1 \in Good
  <2>1. PICK g : Partial(g, n)
    BY <1>2
  <2> DEFINE f == [x \in Upto(n + 1) |-> IF x \in Upto(n) THEN g[x] ELSE Body(g, x)]
  <2>2. \A x \in Upto(n + 1) : f[x] = Body(g, x)
    BY <2>1, PartialStep
  <2>3. ASSUME NEW x \in Upto(n + 1) PROVE f[x] = Body(f, x)
    <3>1. \A y \in Tree : depth[y] < depth[x] => f[y] = g[y]
      BY <2>3 DEF Upto
    <3>2. x \in Tree
      BY <2>3 DEF Upto
    <3> HIDE DEF f
    <3>3. Body(f, x) = Body(g, x)
      BY <3>1, <3>2 DEF BodyIsLocal
    <3>4. QED
      BY <2>2, <2>3, <3>3
  <2>4. f = [x \in Upto(n + 1) |-> f[x]]
    OBVIOUS
  <2> HIDE DEF f
  <2>5. f = [x \in Upto(n + 1) |-> Body(f, x)]
    BY <2>3, <2>4
  <2>6. QED
    BY <2>5 DEF Partial
<1>3. Nat \subseteq Good
  <2> HIDE DEF Good
  <2>1. QED
    BY <1>1, <1>2, NumberInduction
<1>4. QED
  BY <1>3

LEMMA PartialUnique ==
  ASSUME depth \in [Tree -> Nat], BodyIsLocal, NEW n \in Nat, NEW m \in Nat, n <= m,
         NEW f, NEW g, Partial(f, n), Partial(g, m)
  PROVE  \A x \in Upto(n) : f[x] = g[x]
<1> DEFINE Good == {x \in Tree : x \in Upto(n) => f[x] = g[x]}
<1>1. ASSUME NEW x \in Tree, \A y \in Tree : depth[y] < depth[x] => y \in Good
      PROVE  x \in Good
  <2>1. SUFFICES ASSUME x \in Upto(n) PROVE f[x] = g[x]
    OBVIOUS
  <2>2. \A y \in Tree : depth[y] < depth[x] => f[y] = g[y]
    BY <1>1, <2>1 DEF Upto
  <2>3. Body(f, x) = Body(g, x)
    BY <2>2 DEF BodyIsLocal
  <2>4. x \in Upto(m)
    BY <2>1 DEF Upto
  <2>5. f[x] = Body(f, x) /\ g[x] = Body(g, x)
    BY <2>1, <2>4, PartialStep
  <2>6. QED
    BY <2>3, <2>5
<1>2. Tree \subseteq Good
  <2> HIDE DEF Good
  <2>1. QED
    BY <1>1, TreeInduction
<1>3. QED
  BY <1>2 DEF Upto

(* A recursive function over trees satisfies its equation. *)
LEMMA RecursionIsDefined ==
  ASSUME depth \in [Tree -> Nat], BodyIsLocal
  PROVE  Recursive = [x \in Tree |-> Body(Recursive, x)]
<1> DEFINE part(n) == CHOOSE f : Partial(f, n)
           F == [x \in Tree |-> part(depth[x] + 1)[x]]
<1>1. \A n \in Nat : Partial(part(n), n)
  BY PartialExists
<1> HIDE DEF part
<1>2. ASSUME NEW x \in Tree PROVE F[x] = Body(F, x)
  <2> DEFINE g == part(depth[x] + 1)
  <2>1. depth[x] \in Nat /\ depth[x] + 1 \in Nat /\ x \in Upto(depth[x] + 1)
    BY DEF Upto
  <2>2. Partial(g, depth[x] + 1)
    BY <1>1, <2>1
  <2>3. F[x] = g[x]
    OBVIOUS
  <2> HIDE DEF g
  <2>4. g[x] = Body(g, x)
    BY <2>1, <2>2, PartialStep
  <2>5. ASSUME NEW y \in Tree, depth[y] < depth[x] PROVE F[y] = g[y]
    <3> DEFINE h == part(depth[y] + 1)
    <3>1. /\ depth[y] + 1 \in Nat /\ depth[y] + 1 <= depth[x] + 1
          /\ y \in Upto(depth[y] + 1)
      BY <2>5 DEF Upto
    <3>2. Partial(h, depth[y] + 1)
      BY <1>1, <3>1
    <3>3. F[y] = h[y]
      OBVIOUS
    <3> HIDE DEF h
    <3>4. h[y] = g[y]
      BY <2>1, <2>2, <3>1, <3>2, PartialUnique
    <3>5. QED
      BY <3>3, <3>4
  <2> HIDE DEF F
  <2>6. Body(g, x) = Body(F, x)
    BY <2>5 DEF BodyIsLocal
  <2>7. QED
    BY <2>3, <2>4, <2>6
<1>3. F = [x \in Tree |-> F[x]]
  OBVIOUS
<1> HIDE DEF F
<1>4. F = [x \in Tree |-> Body(F, x)]
  BY <1>2, <1>3
<1>5. QED
  BY <1>4 DEF Recursive
=============================================================================
