--------------------------- MODULE EmissionProofs ---------------------------
(***************************************************************************)
(* What the two words of int128/int128.go carry, for words of any width,   *)
(* and what the events of emission/spantoevent.go carry from any trace:    *)
(* the times, the edges and the attributes of their spans.                 *)
(*                                                                         *)
(* The sections: the codec; the recursive functions, by their equations;   *)
(* the walks of values and of messages; reading back what was threaded;    *)
(* the edges of one span; the invariant of the trace; and the properties   *)
(* of Emission.                                                            *)
(***************************************************************************)
EXTENDS Emission, Loops

(* Division by a word rounds down and leaves an unsigned word. *)
LEMMA Division ==
  ASSUME NEW n \in Int, NEW d \in Nat \ {0}
  PROVE  /\ n \div d \in Int
         /\ n % d \in 0 .. d - 1
         /\ n = (d * (n \div d)) + (n % d)
<1>1. n \div d \in Int
  OBVIOUS
<1>2. n % d \in 0 .. d - 1
  OBVIOUS
<1>3. n = (d * (n \div d)) + (n % d)
  OBVIOUS
<1>4. QED
  BY <1>1, <1>2, <1>3

(* Only one quotient leaves a remainder in range. *)
LEMMA QuotientIsUnique ==
  ASSUME NEW d \in Nat \ {0}, NEW q \in Int, NEW r \in 0 .. d - 1
  PROVE  ((d * q) + r) \div d = q /\ ((d * q) + r) % d = r
OBVIOUS

(* Reading a word as two's complement keeps a signed word, and only drops whole
   words from any other number. *)
LEMMA SignedKeepsWords ==
  ASSUME NEW n \in Int
  PROVE  /\ Signed(n) \in -Half .. Half - 1
         /\ n \in -Half .. Half - 1 => Signed(n) = n
         /\ \E k \in Int : n = (twoPow64 * k) + Signed(n)
<1>1. Half \in Nat \ {0} /\ twoPow64 \in Nat \ {0}
  BY Int128Assumption DEF twoPow64
<1>2. (n + Half) % twoPow64 \in 0 .. twoPow64 - 1
  BY <1>1, Division
<1>3. n + Half = (twoPow64 * ((n + Half) \div twoPow64)) + ((n + Half) % twoPow64)
  BY <1>1, Division
<1>4. ASSUME n \in -Half .. Half - 1 PROVE Signed(n) = n
  <2>1. n + Half \in 0 .. twoPow64 - 1
    BY <1>1, <1>4 DEF twoPow64
  <2>2. ((twoPow64 * 0) + (n + Half)) % twoPow64 = n + Half
    BY <1>1, <2>1, QuotientIsUnique
  <2>3. QED
    BY <1>1, <2>2 DEF Signed
<1>5. PICK k \in Int : k = (n + Half) \div twoPow64
  BY <1>1, Division
<1>6. n = (twoPow64 * k) + Signed(n)
  BY <1>1, <1>2, <1>3, <1>5 DEF Signed
<1>7. Signed(n) \in -Half .. Half - 1
  BY <1>1, <1>2 DEF Signed, twoPow64
<1>8. QED
  BY <1>4, <1>6, <1>7

(* Encoding makes words: a signed high one and an unsigned low one. *)
THEOREM EncodingIsWords ==
  ASSUME NEW n \in Int
  PROVE  /\ FromBigInt(n) \in Int128
         /\ FromBigInt(n).high \in -Half .. Half - 1
         /\ FromBigInt(n).low \in 0 .. twoPow64 - 1
<1>1. Half \in Nat \ {0} /\ twoPow64 \in Nat \ {0}
  BY Int128Assumption DEF twoPow64
<1>2. n \div twoPow64 \in Int /\ n % twoPow64 \in 0 .. twoPow64 - 1
  BY <1>1, Division
<1>3. Signed(n \div twoPow64) \in -Half .. Half - 1
  BY <1>2, SignedKeepsWords
<1>4. QED
  BY <1>1, <1>2, <1>3 DEF FromBigInt, Int128

(* Decoding undoes encoding for every number of two words, negative ones too,
   with no second sign correction; a number out of that range keeps its value up
   to whole pairs of words (FromBigInt's "low 128 bits"). *)
THEOREM RoundTrip ==
  ASSUME NEW n \in Int
  PROVE  /\ n \in -(Half * twoPow64) .. (Half * twoPow64) - 1
              => ToBigInt(FromBigInt(n)) = n
         /\ \E k \in Int :
              n = ((twoPow64 * twoPow64) * k) + ToBigInt(FromBigInt(n))
<1> DEFINE q == n \div twoPow64
           low == n % twoPow64
<1>1. Half \in Nat \ {0} /\ twoPow64 \in Nat \ {0}
  BY Int128Assumption DEF twoPow64
<1>2. q \in Int /\ low \in 0 .. twoPow64 - 1 /\ n = (twoPow64 * q) + low
  BY <1>1, Division
<1>3. ToBigInt(FromBigInt(n)) = (Signed(q) * twoPow64) + low
  <2>1. FromBigInt(n) # Nil
    BY EncodingIsWords, Int128Assumption
  <2>2. QED
    BY <2>1 DEF ToBigInt, OrZero, FromBigInt
<1> HIDE DEF q, low
<1>4. ASSUME n \in -(Half * twoPow64) .. (Half * twoPow64) - 1
      PROVE  Signed(q) = q
  <2>1. q >= -Half
    <3>1. SUFFICES ASSUME q <= -Half - 1 PROVE FALSE
      BY <1>1, <1>2
    <3>2. twoPow64 * q <= twoPow64 * (-Half - 1)
      BY <1>1, <1>2, <3>1
    <3>3. QED
      BY <1>1, <1>2, <1>4, <3>2
  <2>2. q <= Half - 1
    <3>1. SUFFICES ASSUME q >= Half PROVE FALSE
      BY <1>1, <1>2
    <3>2. twoPow64 * q >= twoPow64 * Half
      BY <1>1, <1>2, <3>1
    <3>3. QED
      BY <1>1, <1>2, <1>4, <3>2
  <2>3. QED
    BY <1>1, <1>2, <2>1, <2>2, SignedKeepsWords
<1>5. ASSUME n \in -(Half * twoPow64) .. (Half * twoPow64) - 1
      PROVE  ToBigInt(FromBigInt(n)) = n
  BY <1>1, <1>2, <1>3, <1>4, <1>5
<1>6. PICK k \in Int : q = (twoPow64 * k) + Signed(q)
  BY <1>2, SignedKeepsWords
<1>7. n = ((twoPow64 * twoPow64) * k) + ToBigInt(FromBigInt(n))
  <2>1. Signed(q) \in Int
    BY <1>1, <1>2, SignedKeepsWords
  <2>2. twoPow64 * q = ((twoPow64 * twoPow64) * k) + (Signed(q) * twoPow64)
    BY <1>1, <1>6, <2>1
  <2>3. /\ twoPow64 * q \in Int
        /\ (twoPow64 * twoPow64) * k \in Int
        /\ Signed(q) * twoPow64 \in Int
    BY <1>1, <1>2, <2>1
  <2>4. ASSUME NEW a \in Int, NEW b \in Int, NEW c \in Int, NEW d \in Int, a = b + c
        PROVE  a + d = b + (c + d)
    BY <2>4
  <2>5. QED
    BY <1>2, <1>3, <2>2, <2>3, <2>4
<1>8. QED
  BY <1>5, <1>7

(* The encoding that avoids a big.Int agrees with the one that does not. *)
THEOREM FromInt64Agrees ==
  ASSUME NEW n \in -Half .. Half - 1
  PROVE  FromInt64(n) = FromBigInt(n)
<1>1. Half \in Nat \ {0} /\ twoPow64 \in Nat \ {0} /\ n \in Int
  BY Int128Assumption DEF twoPow64
<1>2. CASE n >= 0
  <2>1. ((Half * 0) + n) \div Half = 0 /\ ((twoPow64 * 0) + n) \div twoPow64 = 0
    BY <1>1, <1>2, QuotientIsUnique DEF twoPow64
  <2>2. Signed(0) = 0
    BY <1>1, SignedKeepsWords
  <2>3. QED
    BY <1>1, <2>1, <2>2 DEF FromInt64, FromBigInt
<1>3. CASE n < 0
  <2>1. ((Half * (-1)) + (n + Half)) \div Half = -1
    BY <1>1, <1>3, QuotientIsUnique
  <2>2. ((twoPow64 * (-1)) + (n + twoPow64)) \div twoPow64 = -1
    BY <1>1, <1>3, QuotientIsUnique DEF twoPow64
  <2>3. Signed(-1) = -1
    BY <1>1, SignedKeepsWords
  <2>4. QED
    BY <1>1, <2>1, <2>2, <2>3 DEF FromInt64, FromBigInt
<1>4. QED
  BY <1>1, <1>2, <1>3

(* Every time a time.Time can be has an encoding, the extremes included: a product
   of two words at most (TimeToNanoseconds, "exact for every representable time"). *)
THEOREM EveryTimeHasAnEncoding ==
  ASSUME NEW t \in Time
  PROVE  ToBigInt(FromBigInt(TimeToNanoseconds(t))) = TimeToNanoseconds(t)
<1> DEFINE seconds == t.seconds
           nanoseconds == t.nanoseconds
<1>1. /\ Half \in Nat \ {0} /\ twoPow64 \in Nat \ {0}
      /\ PerSecond \in 1 .. twoPow64
  BY Int128Assumption DEF twoPow64
<1>2. seconds \in -Half .. Half - 1 /\ nanoseconds \in 0 .. PerSecond - 1
  BY DEF Time
<1>3. TimeToNanoseconds(t) = (seconds * PerSecond) + nanoseconds
  BY DEF TimeToNanoseconds
<1> HIDE DEF seconds, nanoseconds
<1>4. Half * PerSecond \in Nat /\ Half * PerSecond <= Half * twoPow64
  BY <1>1
<1>5. seconds * PerSecond \in Int /\ seconds * PerSecond >= -(Half * PerSecond)
  <2>1. seconds \in Int /\ PerSecond \in Nat /\ -Half \in Int /\ seconds >= -Half
    BY <1>1, <1>2
  <2>2. seconds * PerSecond >= (-Half) * PerSecond
    BY <2>1
  <2>3. QED
    BY <1>1, <2>1, <2>2
<1>6. (seconds * PerSecond) + PerSecond <= Half * PerSecond
  <2>1. seconds + 1 \in Int /\ PerSecond \in Nat /\ seconds + 1 <= Half
    BY <1>1, <1>2
  <2>2. (seconds + 1) * PerSecond <= Half * PerSecond
    BY <1>1, <2>1
  <2>3. (seconds + 1) * PerSecond = (seconds * PerSecond) + PerSecond
    BY <1>1, <1>2
  <2>4. QED
    BY <2>2, <2>3
<1>7. Half * twoPow64 \in Nat
  BY <1>1
<1> DEFINE product == seconds * PerSecond
           bound == Half * PerSecond
           range == Half * twoPow64
<1>8. product \in Int /\ product >= -bound /\ product + PerSecond <= bound
  BY <1>5, <1>6
<1>9. bound \in Nat /\ range \in Nat /\ bound <= range
  BY <1>4, <1>7
<1> HIDE DEF product, bound, range
<1>10. product + nanoseconds \in -range .. range - 1
  BY <1>1, <1>2, <1>8, <1>9
<1>11. TimeToNanoseconds(t) \in -(Half * twoPow64) .. (Half * twoPow64) - 1
  BY <1>3, <1>10 DEF product, range
<1>12. TimeToNanoseconds(t) \in Int
  BY <1>2, <1>3, <1>1, <1>8 DEF product
<1>13. QED
  BY <1>11, <1>12, RoundTrip

-----------------------------------------------------------------------------
(* The bodies of the recursive functions of Emission. *)
MapBody(f, v) ==
  IF v.type \in LeafTypes
  THEN [ ZeroAttributeValue EXCEPT !.arm = ArmOf[v.type], !.leaf = v.leaf ]
  ELSE IF v.type \in SliceTypes
  THEN arrayValue(FlattenSeq([ i \in DOMAIN v.items |->
         Appended(f[v.items[i].value], f[v.items[i].value]) ]))
  ELSE IF v.type = "MAP"
  THEN mapOf(FlattenSeq([ i \in DOMAIN v.items |->
         Appended(EntryOf(v.items[i].key, f[v.items[i].value]), f[v.items[i].value]) ]))
  ELSE Nil

WalkBody(f, v) ==
  IF v.type \in LeafTypes THEN << << ArmOf[v.type], v.leaf >> >>
  ELSE IF v.type \in Skipped THEN <<>>
  ELSE IF v.type = "MAP"
  THEN Enclosed("map_value", FlattenSeq([ i \in DOMAIN v.items |->
         Keyed(v.items[i].key, f[v.items[i].value]) ]))
  ELSE Enclosed("array_value", FlattenSeq([ i \in DOMAIN v.items |->
         f[v.items[i].value] ]))

ArrivedBody(f, m) ==
  IF m.arm = "array_value"
  THEN Enclosed(m.arm, FlattenSeq([ i \in DOMAIN m.values |-> f[m.values[i]] ]))
  ELSE IF m.arm = "map_value"
  THEN Enclosed(m.arm, FlattenSeq([ i \in DOMAIN m.entries |->
         Keyed(m.entries[i].key, f[m.entries[i].value]) ]))
  ELSE << << m.arm, m.leaf >> >>

Mapping == INSTANCE TreeRecursion WITH
  Tree <- Values, depth <- [ v \in Values |-> Depth[v] ], Body <- MapBody
Walking == INSTANCE TreeRecursion WITH
  Tree <- Values, depth <- [ v \in Values |-> Depth[v] ], Body <- WalkBody
Arriving == INSTANCE TreeRecursion WITH
  Tree <- AttributeValues, depth <- [ m \in AttributeValues |-> Depth[m] ],
  Body <- ArrivedBody

(* What the types say of the items of a value, and of those of a message. *)
LEMMA ValueType ==
  ASSUME NEW v \in Values
  PROVE  /\ v = [ type |-> v.type, leaf |-> v.leaf, items |-> v.items ]
         /\ v.type \in Types /\ v.leaf \in STRING
         /\ v.items \in Seq(KeyValue)
         /\ \A i \in DOMAIN v.items :
              /\ v.items[i].key \in STRING
              /\ v.items[i].value \in Values
              /\ Depth[v.items[i].value] < Depth[v]
<1>1. v \in Value
  BY EmissionAssumption
<1>2. v.items \in Seq(KeyValue)
  BY <1>1 DEF Value
<1>3. \A i \in DOMAIN v.items : v.items[i] \in KeyValue
  BY <1>2, ElementOfSeq, LenProperties
<1>4. QED
  BY <1>1, <1>2, <1>3, TreeAssumption DEF Value, KeyValue

LEMMA MessageType ==
  ASSUME NEW m \in AttributeValues
  PROVE  /\ m.values \in Seq(AttributeValues) /\ m.entries \in Seq(AttributeEntry)
         /\ \A i \in DOMAIN m.values :
              m.values[i] \in AttributeValues /\ Depth[m.values[i]] < Depth[m]
         /\ \A i \in DOMAIN m.entries :
              /\ m.entries[i].value \in AttributeValues
              /\ Depth[m.entries[i].value] < Depth[m]
<1>1. m \in AttributeValue
  BY TreeAssumption
<1>2. m.values \in Seq(AttributeValues) /\ m.entries \in Seq(AttributeEntry)
  BY <1>1 DEF AttributeValue
<1>3. \A i \in DOMAIN m.values : m.values[i] \in AttributeValues
  BY <1>2, ElementOfSeq, LenProperties
<1>4. \A i \in DOMAIN m.entries : m.entries[i] \in AttributeEntry
  BY <1>2, ElementOfSeq, LenProperties
<1>5. QED
  BY <1>2, <1>3, <1>4, TreeAssumption DEF AttributeEntry

(* The depths of values, and of messages. *)
LEMMA DepthType ==
  /\ [ v \in Values |-> Depth[v] ] \in [ Values -> Nat ]
  /\ [ m \in AttributeValues |-> Depth[m] ] \in [ AttributeValues -> Nat ]
BY TreeAssumption

(* The recursive functions satisfy their equations. *)
LEMMA MapValueIs == \A v \in Values : mapValue[v] = MapBody(mapValue, v)
<1>1. Mapping!BodyIsLocal
  <2>1. SUFFICES ASSUME NEW f, NEW g, NEW v \in Values,
                        \A u \in Values : Depth[u] < Depth[v] => f[u] = g[u]
                 PROVE  MapBody(f, v) = MapBody(g, v)
    BY DEF Mapping!BodyIsLocal
  <2>2. \A i \in DOMAIN v.items : f[v.items[i].value] = g[v.items[i].value]
    BY <2>1, ValueType
  <2>3. /\ [ i \in DOMAIN v.items |->
               Appended(f[v.items[i].value], f[v.items[i].value]) ]
           = [ i \in DOMAIN v.items |->
               Appended(g[v.items[i].value], g[v.items[i].value]) ]
        /\ [ i \in DOMAIN v.items |->
               Appended(EntryOf(v.items[i].key, f[v.items[i].value]), f[v.items[i].value]) ]
           = [ i \in DOMAIN v.items |->
               Appended(EntryOf(v.items[i].key, g[v.items[i].value]), g[v.items[i].value]) ]
    BY <2>2
  <2>4. QED
    BY <2>3 DEF MapBody
<1>2. mapValue = Mapping!Recursive
  BY DEF mapValue, Mapping!Recursive, MapBody
<1>3. mapValue = [ v \in Values |-> MapBody(mapValue, v) ]
  BY <1>1, <1>2, DepthType, Mapping!RecursionIsDefined
<1> DEFINE h == [ v \in Values |-> MapBody(mapValue, v) ]
<1>4. \A v \in Values : h[v] = MapBody(mapValue, v)
  OBVIOUS
<1>5. mapValue = h
  BY <1>3
<1> HIDE DEF h
<1>6. QED
  BY <1>4, <1>5

(* And those of the properties. *)
LEMMA WalkIs == \A v \in Values : Walk[v] = WalkBody(Walk, v)
<1>1. Walking!BodyIsLocal
  <2>1. SUFFICES ASSUME NEW f, NEW g, NEW v \in Values,
                        \A u \in Values : Depth[u] < Depth[v] => f[u] = g[u]
                 PROVE  WalkBody(f, v) = WalkBody(g, v)
    BY DEF Walking!BodyIsLocal
  <2>2. \A i \in DOMAIN v.items : f[v.items[i].value] = g[v.items[i].value]
    BY <2>1, ValueType
  <2>3. /\ [ i \in DOMAIN v.items |-> f[v.items[i].value] ]
           = [ i \in DOMAIN v.items |-> g[v.items[i].value] ]
        /\ [ i \in DOMAIN v.items |-> Keyed(v.items[i].key, f[v.items[i].value]) ]
           = [ i \in DOMAIN v.items |-> Keyed(v.items[i].key, g[v.items[i].value]) ]
    BY <2>2
  <2>4. QED
    BY <2>3 DEF WalkBody
<1>2. Walk = Walking!Recursive
  BY DEF Walk, Walking!Recursive, WalkBody
<1>3. Walk = [ v \in Values |-> WalkBody(Walk, v) ]
  BY <1>1, <1>2, DepthType, Walking!RecursionIsDefined
<1> DEFINE h == [ v \in Values |-> WalkBody(Walk, v) ]
<1>4. \A v \in Values : h[v] = WalkBody(Walk, v)
  OBVIOUS
<1>5. Walk = h
  BY <1>3
<1> HIDE DEF h
<1>6. QED
  BY <1>4, <1>5

LEMMA ArrivedWalkIs ==
  \A m \in AttributeValues : ArrivedWalk[m] = ArrivedBody(ArrivedWalk, m)
<1>1. Arriving!BodyIsLocal
  <2>1. SUFFICES ASSUME NEW f, NEW g, NEW m \in AttributeValues,
                        \A u \in AttributeValues : Depth[u] < Depth[m] => f[u] = g[u]
                 PROVE  ArrivedBody(f, m) = ArrivedBody(g, m)
    BY DEF Arriving!BodyIsLocal
  <2>2. /\ \A i \in DOMAIN m.values : f[m.values[i]] = g[m.values[i]]
        /\ \A i \in DOMAIN m.entries : f[m.entries[i].value] = g[m.entries[i].value]
    BY <2>1, MessageType
  <2>3. /\ [ i \in DOMAIN m.values |-> f[m.values[i]] ]
           = [ i \in DOMAIN m.values |-> g[m.values[i]] ]
        /\ [ i \in DOMAIN m.entries |-> Keyed(m.entries[i].key, f[m.entries[i].value]) ]
           = [ i \in DOMAIN m.entries |-> Keyed(m.entries[i].key, g[m.entries[i].value]) ]
    BY <2>2
  <2>4. QED
    BY <2>3 DEF ArrivedBody
<1>2. ArrivedWalk = Arriving!Recursive
  BY DEF ArrivedWalk, Arriving!Recursive, ArrivedBody
<1>3. ArrivedWalk = [ m \in AttributeValues |-> ArrivedBody(ArrivedWalk, m) ]
  BY <1>1, <1>2, DepthType, Arriving!RecursionIsDefined
<1> DEFINE h == [ m \in AttributeValues |-> ArrivedBody(ArrivedWalk, m) ]
<1>4. \A m \in AttributeValues : h[m] = ArrivedBody(ArrivedWalk, m)
  OBVIOUS
<1>5. ArrivedWalk = h
  BY <1>3
<1> HIDE DEF h
<1>6. QED
  BY <1>4, <1>5

-----------------------------------------------------------------------------
(* The arms of leaves are not those of arrays and maps. *)
LEMMA ArmOfType ==
  \A t \in LeafTypes : ArmOf[t] \in Arms \ {"array_value", "map_value"}
<1>1. /\ ArmOf["STRING"] = "string_value" /\ ArmOf["BOOL"] = "bool_value"
      /\ ArmOf["INT64"] = "integer_value" /\ ArmOf["FLOAT64"] = "double_value"
      /\ ArmOf["BYTESLICE"] = "bytes_value"
  BY DEF ArmOf
<1>2. QED
  BY <1>1 DEF LeafTypes, Arms

(* A token of a walk; and an entry that has a value. *)
Tokens == (Arms \cup {"key", "end"}) \X STRING
Entries == {e \in AttributeEntry : e.value \in AttributeValues}

(* The walks of an item, of an item of a map and of an entry, and what mapValue keeps
   of an item. *)
walkOf == [ item \in KeyValue |-> Walk[item.value] ]
keyedOf == [ item \in KeyValue |-> Keyed(item.key, Walk[item.value]) ]
arrivedOf == [ entry \in Entries |-> Keyed(entry.key, ArrivedWalk[entry.value]) ]
valuesOf == [ item \in KeyValue |-> Appended(mapValue[item.value], mapValue[item.value]) ]
entriesOf == [ item \in KeyValue |->
                 Appended(EntryOf(item.key, mapValue[item.value]), mapValue[item.value]) ]

(* What encloses tokens, or precedes them, is tokens. *)
LEMMA EnclosedType ==
  ASSUME NEW arm \in Arms, NEW tokens \in Seq(Tokens)
  PROVE  Enclosed(arm, tokens) \in Seq(Tokens)
<1>1. PICK first \in Tokens, last \in Tokens : first = << arm, "" >> /\ last = << "end", "" >>
  BY LiteralAssumption DEF Tokens
<1>2. PICK opens \in Seq(Tokens), ends \in Seq(Tokens) :
        opens = << first >> /\ ends = << last >>
  <2>1. << first >> \in Seq(Tokens) /\ << last >> \in Seq(Tokens)
    OBVIOUS
  <2>2. QED
    BY <2>1
<1>3. (opens \o tokens) \o ends \in Seq(Tokens)
  BY ConcatProperties
<1>4. QED
  BY <1>1, <1>2, <1>3 DEF Enclosed

LEMMA KeyedType ==
  ASSUME NEW key \in STRING, NEW tokens \in Seq(Tokens)
  PROVE  Keyed(key, tokens) \in Seq(Tokens)
<1>1. PICK first \in Tokens : first = << "key", key >>
  BY DEF Tokens
<1>2. PICK head \in Seq(Tokens) : head = << first >>
  <2>1. << first >> \in Seq(Tokens)
    OBVIOUS
  <2>2. QED
    BY <2>1
<1>3. head \o tokens \in Seq(Tokens)
  BY ConcatProperties
<1>4. QED
  BY <1>1, <1>2, <1>3, EmptySeq DEF Keyed

(* The items of a value are its key-values. *)
LEMMA ItemsAre ==
  ASSUME NEW v \in Values
  PROVE  /\ v.items \in Seq(KeyValue)
         /\ \A i \in DOMAIN v.items : v.items[i] \in KeyValue
BY ValueType, ElementOfSeq, LenProperties DEF KeyValue

(* The walk of a slice, and of a map, encloses those of its items, in turn. *)
LEMMA WalkOfSlice ==
  ASSUME NEW v \in Values, v.type \in SliceTypes
  PROVE  Walk[v] = Enclosed("array_value", FlatMap(walkOf, v.items))
<1>1. \A i \in DOMAIN v.items : walkOf[v.items[i]] = Walk[v.items[i].value]
  BY ItemsAre DEF walkOf
<1>2. Mapped(walkOf, v.items) = [ i \in DOMAIN v.items |-> Walk[v.items[i].value] ]
  BY <1>1 DEF Mapped
<1>3. v.type \notin LeafTypes /\ v.type \notin Skipped /\ v.type # "MAP"
  BY DEF LeafTypes, Skipped, SliceTypes
<1>4. QED
  BY <1>2, <1>3, WalkIs DEF WalkBody, FlatMap

LEMMA WalkOfMap ==
  ASSUME NEW v \in Values, v.type = "MAP"
  PROVE  Walk[v] = Enclosed("map_value", FlatMap(keyedOf, v.items))
<1>1. \A i \in DOMAIN v.items :
        keyedOf[v.items[i]] = Keyed(v.items[i].key, Walk[v.items[i].value])
  BY ItemsAre DEF keyedOf
<1>2. Mapped(keyedOf, v.items)
        = [ i \in DOMAIN v.items |-> Keyed(v.items[i].key, Walk[v.items[i].value]) ]
  BY <1>1 DEF Mapped
<1>3. v.type \notin LeafTypes /\ v.type \notin Skipped
  BY DEF LeafTypes, Skipped
<1>4. QED
  BY <1>2, <1>3, WalkIs DEF WalkBody, FlatMap

(* A leaf is one token; what is skipped is none. *)
LEMMA WalkOfLeaf ==
  ASSUME NEW v \in Values
  PROVE  /\ v.type \in LeafTypes => Walk[v] = << << ArmOf[v.type], v.leaf >> >>
         /\ v.type \in Skipped => Walk[v] = << >>
BY WalkIs DEF WalkBody, LeafTypes, Skipped

(* However deep the value. *)
LEMMA WalkType == \A v \in Values : Walk[v] \in Seq(Tokens)
<1> DEFINE Good == {v \in Values : Walk[v] \in Seq(Tokens)}
<1>1. ASSUME NEW v \in Values, \A u \in Values : Depth[u] < Depth[v] => u \in Good
      PROVE  v \in Good
  <2>1. CASE v.type \in LeafTypes
    <3>1. << ArmOf[v.type], v.leaf >> \in Tokens
      BY <2>1, ValueType, ArmOfType DEF Tokens
    <3>2. QED
      BY <2>1, <3>1, WalkOfLeaf
  <2>2. CASE v.type \in Skipped
    BY <2>2, WalkOfLeaf, EmptySeq
  <2> DEFINE S == {item \in KeyValue : item.value \in Good}
  <2>3. v.items \in Seq(S)
    <3>1. \A i \in DOMAIN v.items : v.items[i] \in S
      BY <1>1, ValueType, ItemsAre
    <3>2. v.items \in Seq(KeyValue)
      BY ItemsAre
    <3> HIDE DEF S
    <3>3. QED
      BY <3>1, <3>2, SeqOfElements
  <2>4. \A item \in S : walkOf[item] \in Seq(Tokens) /\ keyedOf[item] \in Seq(Tokens)
    BY KeyedType DEF walkOf, keyedOf, KeyValue
  <2> HIDE DEF S, Good
  <2>5. FlatMap(walkOf, v.items) \in Seq(Tokens) /\ FlatMap(keyedOf, v.items) \in Seq(Tokens)
    BY <2>3, <2>4, FlatMapType DEF Appends
  <2>6. CASE v.type \in SliceTypes
    BY <2>5, <2>6, WalkOfSlice, EnclosedType DEF Good, Arms
  <2>7. CASE v.type = "MAP"
    BY <2>5, <2>7, WalkOfMap, EnclosedType DEF Good, Arms
  <2>8. QED
    BY <2>1, <2>2, <2>6, <2>7, ValueType DEF Types
<1>2. Values \subseteq Good
  <2> HIDE DEF Good
  <2>1. \A u, v \in Values :
          [ w \in Values |-> Depth[w] ][u] < [ w \in Values |-> Depth[w] ][v]
            <=> Depth[u] < Depth[v]
    OBVIOUS
  <2>2. QED
    BY <1>1, <2>1, DepthType, Walking!TreeInduction
<1>3. QED
  BY <1>2

(* The walk of a message, by its arm. *)
LEMMA ArrivedOfLeaf ==
  ASSUME NEW m \in AttributeValues, m.arm \notin {"array_value", "map_value"}
  PROVE  ArrivedWalk[m] = << << m.arm, m.leaf >> >>
BY ArrivedWalkIs DEF ArrivedBody

LEMMA ArrivedOfArray ==
  ASSUME NEW m \in AttributeValues, m.arm = "array_value"
  PROVE  ArrivedWalk[m] = Enclosed("array_value", FlatMap(ArrivedWalk, m.values))
BY ArrivedWalkIs DEF ArrivedBody, FlatMap, Mapped

(* The entries of a message have values. *)
LEMMA EntriesAre ==
  ASSUME NEW m \in AttributeValues
  PROVE  m.entries \in Seq(Entries) /\ \A i \in DOMAIN m.entries : m.entries[i] \in Entries
<1>1. m.entries \in Seq(AttributeEntry)
  BY MessageType
<1>2. \A i \in DOMAIN m.entries : m.entries[i] \in Entries
  <2>1. \A i \in DOMAIN m.entries : m.entries[i] \in AttributeEntry
    BY <1>1, ElementOfSeq, LenProperties
  <2>2. QED
    BY <2>1, MessageType DEF Entries
<1>3. QED
  BY <1>1, <1>2, SeqOfElements

LEMMA ArrivedOfMap ==
  ASSUME NEW m \in AttributeValues, m.arm = "map_value"
  PROVE  ArrivedWalk[m] = Enclosed("map_value", FlatMap(arrivedOf, m.entries))
<1>1. \A i \in DOMAIN m.entries :
        arrivedOf[m.entries[i]] = Keyed(m.entries[i].key, ArrivedWalk[m.entries[i].value])
  BY EntriesAre DEF arrivedOf, Entries
<1>2. Mapped(arrivedOf, m.entries)
        = [ i \in DOMAIN m.entries |->
              Keyed(m.entries[i].key, ArrivedWalk[m.entries[i].value]) ]
  BY <1>1 DEF Mapped
<1>3. QED
  BY <1>2, ArrivedWalkIs DEF ArrivedBody, FlatMap

(* However deep the message. *)
LEMMA ArrivedType == \A m \in AttributeValues : ArrivedWalk[m] \in Seq(Tokens)
<1> DEFINE Good == {m \in AttributeValues : ArrivedWalk[m] \in Seq(Tokens)}
<1>1. ASSUME NEW m \in AttributeValues,
             \A u \in AttributeValues : Depth[u] < Depth[m] => u \in Good
      PROVE  m \in Good
  <2>1. CASE m.arm \notin {"array_value", "map_value"}
    <3>1. << m.arm, m.leaf >> \in Tokens
      BY TreeAssumption DEF AttributeValue, Tokens
    <3>2. QED
      BY <2>1, <3>1, ArrivedOfLeaf
  <2>2. CASE m.arm = "array_value"
    <3>1. \A i \in DOMAIN m.values : m.values[i] \in Good
      BY <1>1, MessageType
    <3> HIDE DEF Good
    <3>2. m.values \in Seq(Good)
      BY <3>1, MessageType, SeqOfElements
    <3>3. \A u \in Good : ArrivedWalk[u] \in Seq(Tokens)
      BY DEF Good
    <3>4. FlatMap(ArrivedWalk, m.values) \in Seq(Tokens)
      BY <3>2, <3>3, FlatMapType DEF Appends
    <3>5. QED
      BY <2>2, <3>4, ArrivedOfArray, EnclosedType DEF Good, Arms
  <2>3. CASE m.arm = "map_value"
    <3> DEFINE S == {e \in Entries : e.value \in Good}
    <3>1. \A i \in DOMAIN m.entries : m.entries[i] \in S
      BY <1>1, MessageType, EntriesAre
    <3>2. m.entries \in Seq(S)
      <4>1. m.entries \in Seq(Entries)
        BY EntriesAre
      <4> HIDE DEF S
      <4>2. QED
        BY <3>1, <4>1, SeqOfElements
    <3>3. \A e \in S : arrivedOf[e] \in Seq(Tokens)
      BY KeyedType DEF arrivedOf, Entries, AttributeEntry
    <3> HIDE DEF S, Good
    <3>4. FlatMap(arrivedOf, m.entries) \in Seq(Tokens)
      BY <3>2, <3>3, FlatMapType DEF Appends
    <3>5. QED
      BY <2>3, <3>4, ArrivedOfMap, EnclosedType DEF Good, Arms
  <2>4. QED
    BY <2>1, <2>2, <2>3
<1>2. AttributeValues \subseteq Good
  <2> HIDE DEF Good
  <2>1. \A u, m \in AttributeValues :
          [ w \in AttributeValues |-> Depth[w] ][u] < [ w \in AttributeValues |-> Depth[w] ][m]
            <=> Depth[u] < Depth[m]
    OBVIOUS
  <2>2. QED
    BY <1>1, <2>1, DepthType, Arriving!TreeInduction
<1>3. QED
  BY <1>2

LEMMA ArrivedOfEntries == Appends(arrivedOf, Entries, Tokens)
<1>1. SUFFICES ASSUME NEW entry \in Entries
               PROVE  Keyed(entry.key, ArrivedWalk[entry.value]) \in Seq(Tokens)
  BY DEF Appends, arrivedOf
<1>2. entry.key \in STRING /\ entry.value \in AttributeValues
  BY DEF Entries, AttributeEntry
<1>3. QED
  BY <1>2, ArrivedType, KeyedType

-----------------------------------------------------------------------------
(* The zero values and the clock are strings. *)
LEMMA LiteralsAreStrings == "" \in STRING /\ "unix" \in STRING /\ InvalidSpanID \in STRING
BY LiteralAssumption

(* The messages mapValue builds. *)
LEMMA ArrayMessageType ==
  ASSUME NEW values \in Seq(AttributeValues)
  PROVE  /\ arrayValue(values) \in AttributeValue
         /\ arrayValue(values).arm = "array_value"
         /\ arrayValue(values).values = values
<1>1. PICK m : m = arrayValue(values)
  OBVIOUS
<1>2. m = [ arm |-> "array_value", leaf |-> "", values |-> values, entries |-> << >> ]
  BY <1>1 DEF arrayValue, ZeroAttributeValue
<1>3. "" \in STRING /\ << >> \in Seq(AttributeEntry)
  BY LiteralsAreStrings, EmptySeq
<1>4. "array_value" \in Arms
  BY DEF Arms
<1>5. m \in AttributeValue
  BY <1>2, <1>3, <1>4 DEF AttributeValue
<1>6. m.arm = "array_value" /\ m.values = values
  BY <1>2
<1>7. QED
  BY <1>1, <1>5, <1>6

LEMMA MapMessageType ==
  ASSUME NEW entries \in Seq(AttributeEntry)
  PROVE  /\ mapOf(entries) \in AttributeValue
         /\ mapOf(entries).arm = "map_value"
         /\ mapOf(entries).entries = entries
<1>1. PICK m : m = mapOf(entries)
  OBVIOUS
<1>2. m = [ arm |-> "map_value", leaf |-> "", values |-> << >>, entries |-> entries ]
  BY <1>1 DEF mapOf, ZeroAttributeValue
<1>3. "" \in STRING /\ << >> \in Seq(AttributeValues)
  BY LiteralsAreStrings, EmptySeq
<1>4. "map_value" \in Arms
  BY DEF Arms
<1>5. m \in AttributeValue
  BY <1>2, <1>3, <1>4 DEF AttributeValue
<1>6. m.arm = "map_value" /\ m.entries = entries
  BY <1>2
<1>7. QED
  BY <1>1, <1>5, <1>6

(* What mapValue keeps of the items it keeps. *)
LEMMA MapOfSlice ==
  ASSUME NEW v \in Values, v.type \in SliceTypes
  PROVE  mapValue[v] = arrayValue(FlatMap(valuesOf, v.items))
<1>1. \A i \in DOMAIN v.items :
        valuesOf[v.items[i]]
          = Appended(mapValue[v.items[i].value], mapValue[v.items[i].value])
  BY ItemsAre DEF valuesOf
<1>2. Mapped(valuesOf, v.items)
        = [ i \in DOMAIN v.items |->
              Appended(mapValue[v.items[i].value], mapValue[v.items[i].value]) ]
  BY <1>1 DEF Mapped
<1>3. v.type \notin LeafTypes
  BY DEF LeafTypes, SliceTypes
<1>4. QED
  BY <1>2, <1>3, MapValueIs DEF MapBody, FlatMap

(* A map keeps the key of each item it keeps. *)
LEMMA MapOfMap ==
  ASSUME NEW v \in Values, v.type = "MAP"
  PROVE  mapValue[v] = mapOf(FlatMap(entriesOf, v.items))
<1>1. \A i \in DOMAIN v.items :
        entriesOf[v.items[i]]
          = Appended(EntryOf(v.items[i].key, mapValue[v.items[i].value]),
                     mapValue[v.items[i].value])
  BY ItemsAre DEF entriesOf
<1>2. Mapped(entriesOf, v.items)
        = [ i \in DOMAIN v.items |->
              Appended(EntryOf(v.items[i].key, mapValue[v.items[i].value]),
                       mapValue[v.items[i].value]) ]
  BY <1>1 DEF Mapped
<1>3. v.type \notin LeafTypes /\ v.type \notin SliceTypes
  BY DEF LeafTypes, SliceTypes
<1>4. QED
  BY <1>2, <1>3, MapValueIs DEF MapBody, FlatMap

LEMMA EntryType ==
  ASSUME NEW key \in STRING, NEW m \in AttributeValues
  PROVE  EntryOf(key, m) \in Entries /\ EntryOf(key, m).value = m /\ EntryOf(key, m).key = key
<1>1. PICK e : e = EntryOf(key, m)
  OBVIOUS
<1>2. e = [ key |-> key, value |-> m, claimedSensitivity |-> "UNSPECIFIED" ]
  BY <1>1 DEF EntryOf, ZeroAttributeEntry
<1>3. QED
  BY <1>1, <1>2 DEF Entries, AttributeEntry, Sensitivities

(* Nil is mapped from the types skipped, and from nothing else. *)
LEMMA MappedType ==
  ASSUME NEW v \in Values
  PROVE  IF v.type \in Skipped THEN mapValue[v] = Nil
         ELSE mapValue[v] \in AttributeValues /\ mapValue[v] # Nil
<1>1. mapValue[v] \in AttributeValues \cup {Nil}
  BY MappedAssumption
<1>2. Nil \notin AttributeValues /\ Nil \notin AttributeValue
  BY TreeAssumption
<1>3. CASE v.type \in Skipped
  BY <1>3, MapValueIs DEF MapBody, LeafTypes, SliceTypes, Skipped
<1>4. CASE v.type \in LeafTypes
  <2>1. mapValue[v] = [ arm |-> ArmOf[v.type], leaf |-> v.leaf, values |-> << >>,
                        entries |-> << >> ]
    BY <1>4, MapValueIs DEF MapBody, ZeroAttributeValue
  <2>2. mapValue[v] \in AttributeValue
    BY <1>4, <2>1, ArmOfType, ValueType, EmptySeq DEF AttributeValue
  <2>3. v.type \notin Skipped
    BY <1>4 DEF LeafTypes, Skipped
  <2>4. QED
    BY <1>1, <1>2, <2>2, <2>3
<1>5. CASE v.type \in SliceTypes
  <2>1. \A item \in KeyValue : valuesOf[item] \in Seq(AttributeValues)
    <3>1. \A item \in KeyValue : mapValue[item.value] \in AttributeValues \cup {Nil}
      BY MappedAssumption DEF KeyValue
    <3>2. QED
      BY <3>1, EmptySeq DEF valuesOf, Appended
  <2>2. FlatMap(valuesOf, v.items) \in Seq(AttributeValues)
    BY <2>1, ItemsAre, FlatMapType DEF Appends
  <2>3. mapValue[v] \in AttributeValue
    BY <1>5, <2>2, MapOfSlice, ArrayMessageType
  <2>4. v.type \notin Skipped
    BY <1>5 DEF SliceTypes, Skipped
  <2>5. QED
    BY <1>1, <1>2, <2>3, <2>4
<1>6. CASE v.type = "MAP"
  <2>1. \A item \in KeyValue : entriesOf[item] \in Seq(AttributeEntry)
    <3>1. \A item \in KeyValue : mapValue[item.value] # Nil =>
            EntryOf(item.key, mapValue[item.value]) \in AttributeEntry
      BY MappedAssumption, EntryType DEF KeyValue, Entries
    <3>2. QED
      BY <3>1, EmptySeq DEF entriesOf, Appended
  <2>2. FlatMap(entriesOf, v.items) \in Seq(AttributeEntry)
    BY <2>1, ItemsAre, FlatMapType DEF Appends
  <2>3. mapValue[v] \in AttributeValue
    BY <1>6, <2>2, MapOfMap, MapMessageType
  <2>4. v.type \notin Skipped
    BY <1>6 DEF Skipped
  <2>5. QED
    BY <1>1, <1>2, <2>3, <2>4
<1>7. QED
  BY <1>3, <1>4, <1>5, <1>6, ValueType DEF Types

(* What a round of either loop appends. *)
LEMMA KeptType ==
  \A item \in KeyValue :
    valuesOf[item] \in Seq(AttributeValues) /\ entriesOf[item] \in Seq(Entries)
<1>1. SUFFICES ASSUME NEW item \in KeyValue
               PROVE  /\ valuesOf[item] \in Seq(AttributeValues)
                      /\ entriesOf[item] \in Seq(Entries)
  OBVIOUS
<1>2. item.key \in STRING /\ mapValue[item.value] \in AttributeValues \cup {Nil}
  BY MappedAssumption DEF KeyValue
<1>3. mapValue[item.value] # Nil => EntryOf(item.key, mapValue[item.value]) \in Entries
  BY <1>2, EntryType
<1>4. QED
  BY <1>2, <1>3, EmptySeq DEF valuesOf, entriesOf, Appended

(* It drops the items of the types skipped and no other. *)
LEMMA DroppedItems ==
  \A item \in KeyValue : item.value.type \in Skipped =>
    valuesOf[item] = << >> /\ entriesOf[item] = << >>
BY MappedType DEF valuesOf, entriesOf, Appended, KeyValue

LEMMA KeptItems ==
  \A item \in KeyValue : item.value.type \notin Skipped =>
    /\ valuesOf[item] = << mapValue[item.value] >>
    /\ entriesOf[item] = << EntryOf(item.key, mapValue[item.value]) >>
BY MappedType DEF valuesOf, entriesOf, Appended, KeyValue

(* Whatever is mapped arrives, token by token, unless its type is skipped. *)
LEMMA WalksArrive ==
  \A v \in Values : v.type \notin Skipped => ArrivedWalk[mapValue[v]] = Walk[v]
<1> DEFINE Good == {v \in Values : v.type \notin Skipped => ArrivedWalk[mapValue[v]] = Walk[v]}
<1>1. ASSUME NEW v \in Values, \A u \in Values : Depth[u] < Depth[v] => u \in Good,
             v.type \notin Skipped
      PROVE  ArrivedWalk[mapValue[v]] = Walk[v]
  <2>1. mapValue[v] \in AttributeValues
    BY <1>1, MappedType
  <2>2. CASE v.type \in LeafTypes
    <3>1. PICK m : m = mapValue[v]
      OBVIOUS
    <3>2. m = [ arm |-> ArmOf[v.type], leaf |-> v.leaf, values |-> << >>, entries |-> << >> ]
      BY <2>2, <3>1, MapValueIs DEF MapBody, ZeroAttributeValue
    <3>3. m.arm = ArmOf[v.type] /\ m.leaf = v.leaf
      BY <3>2
    <3>4. QED
      BY <2>1, <2>2, <3>1, <3>3, ArmOfType, ArrivedOfLeaf, WalkOfLeaf
  <2> DEFINE S == {item \in KeyValue : item.value \in Good}
  <2>3. v.items \in Seq(S)
    <3>1. \A i \in DOMAIN v.items : v.items[i] \in S
      BY <1>1, ValueType, ItemsAre
    <3> HIDE DEF S
    <3>2. QED
      BY <3>1, ItemsAre, SeqOfElements
  <2>4. S \subseteq KeyValue /\ \A item \in S : item.value \in Good
    OBVIOUS
  <2> HIDE DEF S
  <2>5. Appends(walkOf, S, Tokens) /\ Appends(keyedOf, S, Tokens)
    BY <2>4, WalkType, KeyedType DEF Appends, walkOf, keyedOf, KeyValue
  <2>6. CASE v.type \in SliceTypes
    <3>1. Appends(valuesOf, S, AttributeValues)
      BY <2>4, KeptType DEF Appends
    <3>2. Appends(ArrivedWalk, AttributeValues, Tokens)
      BY ArrivedType DEF Appends
    <3>3. ASSUME NEW item \in S
          PROVE  walkOf[item] = FlatMap(ArrivedWalk, valuesOf[item])
      <4>1. walkOf[item] = Walk[item.value] /\ item.value \in Values
        BY <2>4 DEF walkOf, KeyValue
      <4>2. CASE item.value.type \in Skipped
        BY <2>4, <4>1, <4>2, DroppedItems, WalkOfLeaf, FlatMapEmpty
      <4>3. CASE item.value.type \notin Skipped
        <5>1. PICK m : m = mapValue[item.value]
          OBVIOUS
        <5>2. valuesOf[item] = << m >>
          BY <2>4, <4>3, <5>1, KeptItems
        <5>3. FlatMap(ArrivedWalk, << m >>) = ArrivedWalk[m]
          BY FlatMapOne
        <5>4. ArrivedWalk[m] = Walk[item.value]
          BY <2>4, <4>3, <5>1
        <5>5. QED
          BY <4>1, <5>2, <5>3, <5>4
      <4>4. QED
        BY <4>2, <4>3
    <3>4. FlatMap(ArrivedWalk, FlatMap(valuesOf, v.items)) = FlatMap(walkOf, v.items)
      BY <2>3, <2>5, <3>1, <3>2, <3>3, FlatMapTwice
    <3>5. PICK kept \in Seq(AttributeValues) : kept = FlatMap(valuesOf, v.items)
      BY <2>3, <3>1, FlatMapType
    <3>6. PICK m : m = mapValue[v]
      OBVIOUS
    <3>7. m.arm = "array_value" /\ m.values = kept
      BY <2>6, <3>5, <3>6, MapOfSlice, ArrayMessageType
    <3>8. ArrivedWalk[m] = Enclosed("array_value", FlatMap(ArrivedWalk, kept))
      BY <2>1, <3>6, <3>7, ArrivedOfArray
    <3>9. QED
      BY <2>6, <3>4, <3>5, <3>6, <3>8, WalkOfSlice
  <2>7. CASE v.type = "MAP"
    <3>1. Appends(entriesOf, S, Entries)
      BY <2>4, KeptType DEF Appends
    <3>2. Appends(arrivedOf, Entries, Tokens)
      BY ArrivedOfEntries
    <3>3. ASSUME NEW item \in S
          PROVE  keyedOf[item] = FlatMap(arrivedOf, entriesOf[item])
      <4>1. keyedOf[item] = Keyed(item.key, Walk[item.value]) /\ item.value \in Values
        BY <2>4 DEF keyedOf, KeyValue
      <4>2. CASE item.value.type \in Skipped
        BY <2>4, <4>1, <4>2, DroppedItems, WalkOfLeaf, FlatMapEmpty DEF Keyed
      <4>3. CASE item.value.type \notin Skipped
        <5>1. PICK m \in AttributeValues : m = mapValue[item.value]
          BY <4>1, <4>3, MappedType
        <5>2. PICK entry \in Entries :
                entry = EntryOf(item.key, m) /\ entry.key = item.key /\ entry.value = m
          BY <2>4, EntryType DEF KeyValue
        <5>3. arrivedOf[entry] = Keyed(item.key, ArrivedWalk[m])
          BY <5>2 DEF arrivedOf, Entries
        <5>4. entriesOf[item] = << entry >>
          BY <2>4, <4>3, <5>1, <5>2, KeptItems
        <5>5. FlatMap(arrivedOf, << entry >>) = arrivedOf[entry]
          BY FlatMapOne
        <5>6. FlatMap(arrivedOf, entriesOf[item]) = arrivedOf[entry]
          BY <5>4, <5>5
        <5>7. ArrivedWalk[m] = Walk[item.value]
          BY <2>4, <4>3, <5>1
        <5>8. QED
          BY <4>1, <5>3, <5>6, <5>7
      <4>4. QED
        BY <4>2, <4>3
    <3>4. FlatMap(arrivedOf, FlatMap(entriesOf, v.items)) = FlatMap(keyedOf, v.items)
      BY <2>3, <2>5, <3>1, <3>2, <3>3, FlatMapTwice
    <3>5. PICK kept \in Seq(Entries) : kept = FlatMap(entriesOf, v.items)
      BY <2>3, <3>1, FlatMapType
    <3>6. kept \in Seq(AttributeEntry)
      BY SeqMonotonic DEF Entries
    <3>7. PICK m : m = mapValue[v]
      OBVIOUS
    <3>8. m.arm = "map_value" /\ m.entries = kept
      BY <2>7, <3>5, <3>6, <3>7, MapOfMap, MapMessageType
    <3>9. ArrivedWalk[m] = Enclosed("map_value", FlatMap(arrivedOf, kept))
      BY <2>1, <3>7, <3>8, ArrivedOfMap
    <3>10. QED
      BY <2>7, <3>4, <3>5, <3>7, <3>9, WalkOfMap
  <2>8. QED
    BY <1>1, <2>2, <2>6, <2>7, ValueType DEF Types
<1>2. Values \subseteq Good
  <2>1. \A u, v \in Values :
          [ w \in Values |-> Depth[w] ][u] < [ w \in Values |-> Depth[w] ][v]
            <=> Depth[u] < Depth[v]
    OBVIOUS
  <2>2. \A v \in Values : (\A u \in Values : Depth[u] < Depth[v] => u \in Good) => v \in Good
    BY <1>1
  <2> HIDE DEF Good
  <2>3. QED
    BY <2>1, <2>2, DepthType, Mapping!TreeInduction
<1>3. QED
  BY <1>2

-----------------------------------------------------------------------------
(* What the assumptions say of the identifiers producers thread. *)
LEMMA ConstantTypes ==
  /\ EventId \in [ Spans \cup {Remote} -> STRING ]
  /\ \A t \in Spans \cup {Remote} :
       /\ EventId[t] \in STRING /\ EventId[t] # Nil
       /\ \A type \in {"STRING", "INT64"} :
            Leaf(type, EventId[t]) \in Values /\ Leaf(type, EventId[t]) # Nil
  /\ Nil \notin Values /\ Nil \notin STRING
<1>1. EventId \in [ Spans \cup {Remote} -> STRING ]
  BY EmissionAssumption
<1>2. {Leaf(type, EventId[s]) : type \in {"STRING", "INT64"}, s \in Spans \cup {Remote}}
        \subseteq Values
  BY EmissionAssumption
<1>3. Nil \notin Values \cup STRING
  BY EmissionAssumption
<1>4. QED
  BY <1>1, <1>2, <1>3

(* What a producer threads is a list of attributes. *)
LEMMA ThreadedType ==
  ASSUME NEW key \in Reserved, NEW t \in Spans \cup {Remote}, NEW how \in Threadings
  PROVE  Threaded(key, t, how) \in Seq(KeyValue)
<1>1. key \in STRING
  BY LiteralAssumption
<1>2. PICK type \in {"STRING", "INT64"} : type = IF how = "threaded" THEN "STRING" ELSE "INT64"
  OBVIOUS
<1>3. [ key |-> key, value |-> Leaf(type, EventId[t]) ] \in KeyValue
  BY <1>1, ConstantTypes DEF KeyValue
<1>4. QED
  BY <1>2, <1>3, EmptySeq DEF Threaded

(* The first of one index. *)
LEMMA MinOfOne == ASSUME NEW n \in Nat PROVE Min({n}) = n
BY DEF Min

(* stringAttribute reads what was threaded last under a key nothing before it has, if
   it is a string. *)
LEMMA ThreadedIsRead ==
  ASSUME NEW attributes \in Seq(KeyValue), NEW key \in Reserved,
         \A i \in DOMAIN attributes : attributes[i].key # key,
         NEW t \in Spans \cup {Remote}, NEW how \in Threadings
  PROVE  stringAttribute(attributes \o Threaded(key, t, how), key)
           = IF how = "threaded" THEN EventId[t] ELSE Nil
<1> DEFINE all == attributes \o Threaded(key, t, how)
           found == {i \in DOMAIN all : all[i].key = key}
<1>1. PICK n \in Nat : n = Len(attributes)
  BY LenProperties
<1>2. CASE how = "absent"
  <2>1. all = attributes
    BY <1>2, ConcatEmptySeq DEF Threaded
  <2>2. found = {}
    BY <2>1
  <2>3. valueOf(all, key) = Nil
    BY <2>2 DEF valueOf
  <2>4. QED
    BY <1>2, <2>3 DEF stringAttribute
<1>3. CASE how # "absent"
  <2>1. PICK type \in {"STRING", "INT64"} : type = IF how = "threaded" THEN "STRING" ELSE "INT64"
    OBVIOUS
  <2>2. PICK kv \in KeyValue : kv = [ key |-> key, value |-> Leaf(type, EventId[t]) ]
    <3>1. key \in STRING
      BY LiteralAssumption
    <3>2. QED
      BY <3>1, ConstantTypes DEF KeyValue
  <2>3. all = Append(attributes, kv)
    BY <1>3, <2>1, <2>2, AppendIsConcat DEF Threaded
  <2>4. PICK k \in Nat : k = n + 1
    OBVIOUS
  <2>5. /\ DOMAIN all = 1 .. k /\ all[k] = kv
        /\ \A i \in 1 .. n : all[i] = attributes[i] /\ i \in DOMAIN attributes
    BY <1>1, <2>3, <2>4, AppendProperties, LenProperties
  <2> HIDE DEF all
  <2>6. found = {k}
    BY <2>2, <2>4, <2>5
  <2>7. valueOf(all, key) = kv.value
    BY <2>4, <2>5, <2>6, MinOfOne DEF valueOf
  <2>8. kv.value # Nil /\ kv.value.type = type /\ kv.value.leaf = EventId[t]
    BY <2>2, ConstantTypes DEF Leaf
  <2>9. QED
    BY <2>1, <2>7, <2>8 DEF stringAttribute, all, Threadings
<1>4. QED
  BY <1>2, <1>3

-----------------------------------------------------------------------------
(* What a span carries from its start, whatever its parent; and what a round of
   mapAttributes ships of an attribute, the loop of which is it. *)
Own(s) == Threaded(AttributeEventID, s, "threaded") \o Recording[s].attributes
shippedOf == [ kv \in KeyValue |-> IF kv.key \in Reserved THEN << >> ELSE entriesOf[kv] ]

LEMMA MapAttributesIs ==
  ASSUME NEW attributes \in Seq(KeyValue)
  PROVE  mapAttributes(attributes) = FlatMap(shippedOf, attributes)
<1>1. \A i \in DOMAIN attributes : attributes[i] \in KeyValue
  BY LenProperties, ElementOfSeq
<1>2. Mapped(shippedOf, attributes)
        = [ i \in DOMAIN attributes |->
              IF attributes[i].key \in Reserved THEN << >>
              ELSE Appended(EntryOf(attributes[i].key, mapValue[attributes[i].value]),
                            mapValue[attributes[i].value]) ]
  BY <1>1 DEF Mapped, shippedOf, entriesOf
<1>3. QED
  BY <1>2 DEF mapAttributes, FlatMap

LEMMA ShippedOfType == Appends(shippedOf, KeyValue, Entries)
BY KeptType, EmptySeq DEF Appends, shippedOf

(* What the assumptions say of what a span records. *)
LEMMA RecordingType ==
  ASSUME NEW s \in Spans
  PROVE  /\ Recording[s].name \in STRING /\ Recording[s].start \in Time
         /\ Recording[s].attributes \in Seq(KeyValue)
         /\ \A i \in DOMAIN Recording[s].attributes :
              Recording[s].attributes[i].key \notin Reserved
         /\ Conversion[s] \in SpanConversion
<1>1. /\ Recording[s].name \in STRING /\ Recording[s].start \in Time
      /\ Recording[s].attributes \in Seq(DomainAttribute) /\ Conversion[s] \in SpanConversion
  BY EmissionAssumption
<1>2. DomainAttribute \subseteq KeyValue
  BY DEF DomainAttribute, KeyValue
<1>3. \A kv \in DomainAttribute : kv.key \notin Reserved
  BY DEF DomainAttribute
<1>4. PICK attributes \in Seq(DomainAttribute) : attributes = Recording[s].attributes
  BY <1>1
<1>5. attributes \in Seq(KeyValue)
  BY <1>2, SeqMonotonic
<1>6. \A i \in DOMAIN attributes : attributes[i].key \notin Reserved
  BY <1>3, LenProperties, ElementOfSeq
<1>7. QED
  BY <1>1, <1>4, <1>5, <1>6

(* What a producer threads has the key it has, and is not shipped. *)
LEMMA ThreadedStays ==
  ASSUME NEW key \in Reserved, NEW t \in Spans \cup {Remote}, NEW how \in Threadings
  PROVE  /\ FlatMap(shippedOf, Threaded(key, t, how)) = << >>
         /\ \A i \in DOMAIN Threaded(key, t, how) : Threaded(key, t, how)[i].key = key
<1>1. \A i \in DOMAIN Threaded(key, t, how) : Threaded(key, t, how)[i].key = key
  BY DEF Threaded
<1>2. CASE how = "absent"
  BY <1>1, <1>2, FlatMapEmpty DEF Threaded
<1>3. CASE how # "absent"
  <2>1. PICK kv \in KeyValue : kv.key = key /\ Threaded(key, t, how) = << kv >>
    <3>1. PICK type \in {"STRING", "INT64"} :
            type = IF how = "threaded" THEN "STRING" ELSE "INT64"
      OBVIOUS
    <3>2. PICK kv : kv = [ key |-> key, value |-> Leaf(type, EventId[t]) ]
      OBVIOUS
    <3>3. kv \in KeyValue /\ kv.key = key
      BY <3>2, ConstantTypes, LiteralAssumption DEF KeyValue
    <3>4. QED
      BY <1>3, <3>1, <3>2, <3>3 DEF Threaded
  <2>2. shippedOf[kv] = << >>
    BY <2>1 DEF shippedOf
  <2>3. QED
    BY <1>1, <2>1, <2>2, FlatMapOne
<1>4. QED
  BY <1>2, <1>3

(* A span of its own shows no parent, and ships what it recorded. *)
LEMMA OwnAttributes ==
  ASSUME NEW s \in Spans
  PROVE  /\ Own(s) \in Seq(KeyValue)
         /\ \A i \in DOMAIN Own(s) : Own(s)[i].key # AttributeParentEventID
         /\ FlatMap(shippedOf, Own(s)) = FlatMap(shippedOf, Recording[s].attributes)
<1>1. PICK a \in Seq(KeyValue) : a = Threaded(AttributeEventID, s, "threaded")
  BY ThreadedType DEF Threadings, Reserved
<1>2. PICK b \in Seq(KeyValue) : b = Recording[s].attributes
  BY RecordingType
<1>3. FlatMap(shippedOf, a) = << >> /\ \A i \in DOMAIN a : a[i].key = AttributeEventID
  BY <1>1, ThreadedStays DEF Threadings, Reserved
<1>4. \A i \in DOMAIN b : b[i].key \notin Reserved
  BY <1>2, RecordingType
<1>5. a \o b \in Seq(KeyValue)
  BY ConcatProperties
<1>6. FlatMap(shippedOf, a \o b) = FlatMap(shippedOf, b)
  <2>1. FlatMap(shippedOf, a \o b) = FlatMap(shippedOf, a) \o FlatMap(shippedOf, b)
    BY ShippedOfType, FlatMapConcat
  <2>2. FlatMap(shippedOf, b) \in Seq(Entries)
    BY ShippedOfType, FlatMapType
  <2>3. QED
    BY <1>3, <2>1, <2>2, ConcatEmptySeq
<1>7. ASSUME NEW i \in DOMAIN (a \o b) PROVE (a \o b)[i].key # AttributeParentEventID
  <2>1. Range(a \o b) = Range(a) \cup Range(b)
    BY RangeConcatenation
  <2>2. (a \o b)[i] \in Range(a) \cup Range(b)
    BY <2>1 DEF Range
  <2>3. \A kv \in Range(a) \cup Range(b) : kv.key # AttributeParentEventID
    BY <1>3, <1>4 DEF Range, Reserved, AttributeEventID, AttributeParentEventID
  <2>4. QED
    BY <2>2, <2>3
<1>8. QED
  BY <1>1, <1>2, <1>5, <1>6, <1>7 DEF Own

-----------------------------------------------------------------------------
(* The edges a producer may mean, of them those that leave something behind, and
   what collectCausalPredecessors makes of one. *)
ProducerEdge(targets) ==
  [ source : {"parent", "link"}, target : targets, journey : Journeys, how : Threadings ]
AnyEdge == ProducerEdge(Spans \cup {Remote})

named == [ e \in AnyEdge |-> IF Named(e) THEN << e >> ELSE << >> ]
edgeOf == [ e \in AnyEdge |->
  IF e.how = "threaded" THEN [ predecessor |-> EventId[e.target], source |-> Nil ]
  ELSE [ predecessor |-> spanIdOf(e), source |-> e.source ] ]

Link == [ context : SpanContext, attributes : Seq(KeyValue) ]
linkEdge == [ link \in Link |->
  Edge(stringAttribute(link.attributes, AttributeEventID), link.context.spanId, "link") ]

(* What is left of a context. *)
LEMMA ContextType ==
  ASSUME NEW t \in Spans \cup {Remote}, NEW journey \in Journeys
  PROVE  /\ ContextOf(t, journey) \in SpanContext
         /\ IsValid(ContextOf(t, journey)) <=> journey = "whole"
<1>1. t \in STRING /\ t # InvalidSpanID
  BY EmissionAssumption
<1>2. PICK id \in STRING : id = IF journey = "lost" THEN InvalidSpanID ELSE t
  BY <1>1, LiteralsAreStrings
<1>3. PICK context :
        context = [ spanId |-> id, traced |-> journey = "whole" ] /\ context = ContextOf(t, journey)
  BY <1>2 DEF ContextOf
<1>4. context.spanId = id /\ context.traced = (journey = "whole")
  BY <1>3
<1>5. context \in SpanContext
  BY <1>3 DEF SpanContext
<1>6. IsValid(context) <=> journey = "whole"
  BY <1>1, <1>2, <1>4 DEF IsValid
<1>7. QED
  BY <1>3, <1>5, <1>6

(* The edges meant, and the edges of the links, as loops. *)
LEMMA MeantIs ==
  ASSUME NEW s, edges[s] \in Seq(AnyEdge)
  PROVE  Meant(s) = FlatMap(named, edges[s]) /\ Meant(s) \in Seq(AnyEdge)
<1>1. \A i \in DOMAIN edges[s] : edges[s][i] \in AnyEdge
  BY LenProperties, ElementOfSeq
<1>2. Mapped(named, edges[s])
        = [ i \in DOMAIN edges[s] |-> IF Named(edges[s][i]) THEN << edges[s][i] >> ELSE << >> ]
  BY <1>1 DEF Mapped, named
<1>3. Appends(named, AnyEdge, AnyEdge)
  BY EmptySeq DEF Appends, named
<1>4. QED
  BY <1>2, <1>3, FlatMapType DEF Meant, FlatMap

LEMMA LinkEdgesAre ==
  ASSUME NEW sp, sp.links \in Seq(Link)
  PROVE  LinkEdges(sp) = Mapped(linkEdge, sp.links)
<1>1. \A i \in DOMAIN sp.links : sp.links[i] \in Link
  BY LenProperties, ElementOfSeq
<1>2. QED
  BY <1>1 DEF LinkEdges, Mapped, linkEdge

(* A span without a parent has no edges when it starts. *)
LEMMA RootCollects ==
  ASSUME NEW s \in Spans, NEW sp, sp.attributes = Own(s), sp.parent = ContextOf(s, "lost"),
         sp.links = << >>
  PROVE  collected(sp) = << >>
<1>1. stringAttribute(Own(s), AttributeParentEventID) = Nil
  <2>1. Threaded(AttributeParentEventID, s, "absent") = << >>
    BY DEF Threaded
  <2>2. Own(s) \o << >> = Own(s)
    BY OwnAttributes, ConcatEmptySeq
  <2>3. stringAttribute(Own(s) \o Threaded(AttributeParentEventID, s, "absent"),
                        AttributeParentEventID) = Nil
    BY OwnAttributes, ThreadedIsRead DEF Reserved, Threadings
  <2>4. QED
    BY <2>1, <2>2, <2>3
<1>2. ParentEdge(sp) = << >>
  <2>1. ~IsValid(sp.parent)
    BY ContextType DEF Journeys
  <2>2. QED
    BY <1>1, <2>1 DEF ParentEdge
<1>3. LinkEdges(sp) = << >>
  BY DEF LinkEdges
<1>4. QED
  BY <1>2, <1>3 DEF collected

(* A child has the edge of its parent, if anything of that edge arrived. *)
LEMMA ChildCollects ==
  ASSUME NEW s \in Spans, NEW e \in AnyEdge, e.source = "parent", NEW sp,
         sp.attributes = Own(s) \o Threaded(AttributeParentEventID, e.target, e.how),
         sp.parent = ContextOf(e.target, e.journey), sp.links = << >>
  PROVE  collected(sp) = Mapped(edgeOf, named[e])
<1>1. e.target \in Spans \cup {Remote} /\ e.how \in Threadings /\ e.journey \in Journeys
  BY DEF AnyEdge, ProducerEdge
<1>2. stringAttribute(sp.attributes, AttributeParentEventID)
        = IF e.how = "threaded" THEN EventId[e.target] ELSE Nil
  <2>1. PICK own \in Seq(KeyValue) :
          /\ own = Own(s)
          /\ \A i \in DOMAIN own : own[i].key # AttributeParentEventID
    BY OwnAttributes
  <2>2. PICK target \in Spans \cup {Remote}, how \in Threadings : target = e.target /\ how = e.how
    BY <1>1
  <2>3. stringAttribute(own \o Threaded(AttributeParentEventID, target, how),
                        AttributeParentEventID)
          = IF how = "threaded" THEN EventId[target] ELSE Nil
    BY <2>1, ThreadedIsRead DEF Reserved
  <2>4. QED
    BY <2>1, <2>2, <2>3
<1>3. IsValid(sp.parent) <=> e.journey = "whole"
  BY <1>1, ContextType
<1>4. EventId[e.target] # Nil
  BY <1>1, ConstantTypes
<1>5. ParentEdge(sp) = IF Named(e) THEN << edgeOf[e] >> ELSE << >>
  BY <1>2, <1>3, <1>4 DEF ParentEdge, Edge, edgeOf, Named, spanIdOf
<1>6. Mapped(edgeOf, named[e]) = IF Named(e) THEN << edgeOf[e] >> ELSE << >>
  BY DEF Mapped, named
<1>7. LinkEdges(sp) = << >>
  BY DEF LinkEdges
<1>8. ParentEdge(sp) \o << >> = ParentEdge(sp)
  BY <1>5
<1>9. QED
  BY <1>5, <1>6, <1>7, <1>8 DEF collected

(* A link adds its edge, after the others. *)
LEMMA LinkCollects ==
  ASSUME NEW e \in AnyEdge, e.source = "link", NEW sp, sp.links \in Seq(Link), NEW link,
         link = [ context |-> ContextOf(e.target, e.journey),
                  attributes |-> Threaded(AttributeEventID, e.target, e.how) ],
         NEW tp, tp.attributes = sp.attributes, tp.parent = sp.parent,
         tp.links = Append(sp.links, link)
  PROVE  /\ link \in Link
         /\ collected(tp) = collected(sp) \o Mapped(edgeOf, named[e])
<1>1. e.target \in Spans \cup {Remote} /\ e.how \in Threadings /\ e.journey \in Journeys
  BY DEF AnyEdge, ProducerEdge
<1>2. PICK attributes \in Seq(KeyValue) :
        attributes = Threaded(AttributeEventID, e.target, e.how)
  BY <1>1, ThreadedType DEF Reserved
<1>3. PICK context \in SpanContext :
        context = ContextOf(e.target, e.journey) /\ context.spanId = spanIdOf(e)
  BY <1>1, ContextType DEF spanIdOf
<1>4. link \in Link /\ link.context.spanId = spanIdOf(e)
  <2>1. link = [ context |-> context, attributes |-> attributes ]
    BY <1>2, <1>3
  <2>2. QED
    BY <1>3, <2>1 DEF Link
<1>5. stringAttribute(link.attributes, AttributeEventID)
        = IF e.how = "threaded" THEN EventId[e.target] ELSE Nil
  <2>1. PICK none \in Seq(KeyValue) :
          none = << >> /\ DOMAIN none = {} /\ none \o attributes = attributes
    <3>1. << >> \in Seq(KeyValue)
      BY EmptySeq
    <3>2. << >> \o attributes = attributes
      BY ConcatEmptySeq
    <3>3. DOMAIN << >> = {}
      OBVIOUS
    <3>4. QED
      BY <3>1, <3>2, <3>3
  <2>2. PICK target \in Spans \cup {Remote}, how \in Threadings : target = e.target /\ how = e.how
    BY <1>1
  <2>3. stringAttribute(none \o Threaded(AttributeEventID, target, how), AttributeEventID)
          = IF how = "threaded" THEN EventId[target] ELSE Nil
    BY <2>1, ThreadedIsRead DEF Reserved
  <2>4. link.attributes = attributes
    BY <1>2
  <2>5. QED
    BY <1>2, <2>1, <2>2, <2>3, <2>4
<1>6. EventId[e.target] # Nil
  BY <1>1, ConstantTypes
<1>7. linkEdge[link] = edgeOf[e] /\ Named(e)
  BY <1>4, <1>5, <1>6 DEF linkEdge, Edge, edgeOf, Named
<1>8. Mapped(edgeOf, named[e]) = << edgeOf[e] >>
  BY <1>7 DEF Mapped, named
<1>9. LinkEdges(tp) = Append(LinkEdges(sp), edgeOf[e])
  <2>1. tp.links \in Seq(Link)
    BY <1>4, AppendProperties
  <2>2. Mapped(linkEdge, Append(sp.links, link)) = Append(Mapped(linkEdge, sp.links), linkEdge[link])
    <3>1. PICK links \in Seq(Link) : links = sp.links
      OBVIOUS
    <3>2. Mapped(linkEdge, Append(links, link)) = Append(Mapped(linkEdge, links), linkEdge[link])
      BY <1>4, MapAppend
    <3>3. QED
      BY <3>1, <3>2
  <2>3. LinkEdges(tp) = Mapped(linkEdge, tp.links) /\ LinkEdges(sp) = Mapped(linkEdge, sp.links)
    BY <2>1, LinkEdgesAre
  <2>4. QED
    BY <1>7, <2>2, <2>3
<1>10. ParentEdge(tp) = ParentEdge(sp)
  BY DEF ParentEdge
<1>11. PICK parent : ParentEdge(sp) = << >> \/ ParentEdge(sp) = << parent >>
  BY DEF ParentEdge
<1>12. ParentEdge(sp) \o Append(LinkEdges(sp), edgeOf[e])
         = (ParentEdge(sp) \o LinkEdges(sp)) \o << edgeOf[e] >>
  <2> DEFINE U == {linkEdge[l] : l \in Link} \cup {parent}
  <2>1. linkEdge[link] \in U /\ \A l \in Link : linkEdge[l] \in U
    BY <1>4
  <2>2. parent \in U
    OBVIOUS
  <2> HIDE DEF U
  <2>3. PICK p \in Seq(U) : p = ParentEdge(sp)
    <3>1. << >> \in Seq(U) /\ << parent >> \in Seq(U)
      BY <2>2, EmptySeq
    <3>2. QED
      BY <1>11, <3>1
  <2>4. PICK q \in Seq(U) : q = LinkEdges(sp)
    BY <2>1, MapType, LinkEdgesAre
  <2>5. PICK x \in U : x = edgeOf[e]
    BY <1>7, <2>1
  <2>6. << x >> \in Seq(U)
    BY <2>5
  <2>7. Append(q, x) = q \o << x >> /\ (p \o q) \o << x >> = p \o (q \o << x >>)
    BY <2>6, AppendIsConcat, ConcatAssociative
  <2>8. QED
    BY <2>3, <2>4, <2>5, <2>7
<1>13. QED
  BY <1>4, <1>8, <1>9, <1>10, <1>12 DEF collected

-----------------------------------------------------------------------------
(* The invariant of the trace.  The edges are history, so what a span shows is told
   from them; an event is told from what its span showed when it was converted. *)
RecordedSpan ==
  [ name : STRING, start : Time, parent : SpanContext, links : Seq(Link),
    attributes : Seq(KeyValue) ]

(* A span that has started shows its start, what it recorded of its domain and the
   edges it was given. *)
Recorded(s) ==
  /\ span[s] \in RecordedSpan
  /\ span[s].start = Recording[s].start
  /\ FlatMap(shippedOf, span[s].attributes)
       = FlatMap(shippedOf, Recording[s].attributes)
  /\ collected(span[s]) = Mapped(edgeOf, FlatMap(named, edges[s]))

(* A converted one has shipped what its span showed, and reported it. *)
Shipped(s) ==
  /\ event[s] = SpanToEvent([ Conversion[s] EXCEPT !.eventId = EventId[s] ], span[s])
  /\ reports[s] = Reports(span[s])

SpanKept(s) ==
  /\ phase[s] \in {"idle", "running", "ended", "converted"}
  /\ edges[s] \in Seq(ProducerEdge(Known \ {s}))
  /\ phase[s] = "idle" => edges[s] = << >>
  /\ phase[s] # "idle" => Recorded(s)
  /\ IF converted(s) THEN Shipped(s) ELSE event[s] = Nil

EmissionInv ==
  /\ DOMAIN phase = Spans /\ DOMAIN span = Spans /\ DOMAIN event = Spans
  /\ DOMAIN reports = Spans /\ DOMAIN edges = Spans
  /\ \A s \in Spans : SpanKept(s)

(* It holds before any span starts. *)
LEMMA InitKept == Init => EmissionInv
<1>1. SUFFICES ASSUME Init PROVE EmissionInv
  OBVIOUS
<1>2. << >> \in Seq(ProducerEdge(Known \ {Remote})) /\
      \A s \in Spans : << >> \in Seq(ProducerEdge(Known \ {s}))
  BY EmptySeq
<1>3. QED
  BY <1>1, <1>2 DEF Init, EmissionInv, SpanKept, converted

(* A step of one span leaves the others what they were, and their predecessors
   known: no span becomes idle again. *)
LEMMA OtherSpansKeep ==
  ASSUME EmissionInv, NEW s \in Spans,
         DOMAIN phase' = Spans, DOMAIN span' = Spans, DOMAIN event' = Spans,
         DOMAIN reports' = Spans, DOMAIN edges' = Spans,
         \A t \in Spans \ {s} :
           /\ phase'[t] = phase[t] /\ span'[t] = span[t] /\ event'[t] = event[t]
           /\ reports'[t] = reports[t] /\ edges'[t] = edges[t],
         Known \subseteq Known', SpanKept(s)'
  PROVE  EmissionInv'
<1>1. ASSUME NEW t \in Spans, t # s PROVE SpanKept(t)'
  <2>1. ProducerEdge(Known \ {t}) \subseteq ProducerEdge(Known' \ {t})
    BY DEF ProducerEdge
  <2>2. SpanKept(t)
    BY DEF EmissionInv
  <2>3. PICK es \in Seq(ProducerEdge(Known \ {t})) : es = edges[t]
    BY <2>2 DEF SpanKept
  <2>4. es \in Seq(ProducerEdge(Known' \ {t}))
    BY <2>1, SeqMonotonic
  <2>5. /\ phase'[t] = phase[t] /\ span'[t] = span[t] /\ event'[t] = event[t]
        /\ reports'[t] = reports[t] /\ edges'[t] = edges[t]
    BY <1>1
  <2>6. Recorded(t) => Recorded(t)'
    BY <2>5 DEF Recorded
  <2>7. Shipped(t) => Shipped(t)'
    BY <2>5 DEF Shipped
  <2>8. QED
    BY <2>2, <2>3, <2>4, <2>5, <2>6, <2>7 DEF SpanKept, converted
<1>2. QED
  BY <1>1 DEF EmissionInv

(* What a span is when it starts: its own attributes, and its parent's identifier. *)
Started(s, parent, t, how) ==
  [ name |-> Recording[s].name, start |-> Recording[s].start, parent |-> parent,
    links |-> << >>,
    attributes |-> Own(s) \o Threaded(AttributeParentEventID, t, how) ]

LEMMA StartedSpan ==
  ASSUME NEW s \in Spans, NEW t \in Spans \cup {Remote}, NEW how \in Threadings,
         NEW parent \in SpanContext
  PROVE  /\ Started(s, parent, t, how) \in RecordedSpan
         /\ Started(s, parent, t, how).start = Recording[s].start
         /\ FlatMap(shippedOf, Started(s, parent, t, how).attributes)
              = FlatMap(shippedOf, Recording[s].attributes)
<1>1. PICK own \in Seq(KeyValue) : own = Own(s)
  BY OwnAttributes
<1>2. PICK b \in Seq(KeyValue) : b = Threaded(AttributeParentEventID, t, how)
  BY ThreadedType DEF Reserved
<1>3. own \o b \in Seq(KeyValue)
  BY ConcatProperties
<1>4. FlatMap(shippedOf, own \o b) = FlatMap(shippedOf, own)
  <2>1. FlatMap(shippedOf, own \o b) = FlatMap(shippedOf, own) \o FlatMap(shippedOf, b)
    BY ShippedOfType, FlatMapConcat
  <2>2. FlatMap(shippedOf, own) \in Seq(Entries) /\ FlatMap(shippedOf, b) = << >>
    BY <1>2, ShippedOfType, FlatMapType, ThreadedStays DEF Reserved
  <2>3. QED
    BY <2>1, <2>2, ConcatEmptySeq
<1>5. FlatMap(shippedOf, own) = FlatMap(shippedOf, Recording[s].attributes)
  BY <1>1, OwnAttributes
<1>6. PICK attributes \in Seq(KeyValue) : attributes = own \o b
  BY <1>3
<1>7. PICK name \in STRING, start \in Time, links \in Seq(Link) :
        name = Recording[s].name /\ start = Recording[s].start /\ links = << >>
  <2>1. Recording[s].name \in STRING /\ Recording[s].start \in Time
    BY RecordingType
  <2>2. << >> \in Seq(Link)
    BY EmptySeq
  <2>3. QED
    BY <2>1, <2>2
<1>8. PICK sp : sp = Started(s, parent, t, how)
  OBVIOUS
<1>9. sp = [ name |-> name, start |-> start, parent |-> parent, links |-> links,
             attributes |-> attributes ]
  BY <1>1, <1>2, <1>6, <1>7, <1>8 DEF Started
<1>10. sp \in RecordedSpan
  BY <1>9 DEF RecordedSpan
<1>11. sp.attributes = attributes /\ sp.start = Recording[s].start
  BY <1>7, <1>9
<1>12. QED
  BY <1>1, <1>2, <1>4, <1>5, <1>6, <1>8, <1>10, <1>11

(* Whoever is known is one of the spans, or the remote one. *)
LEMMA KnownType ==
  /\ Known \subseteq Spans \cup {Remote}
  /\ \A targets \in SUBSET (Spans \cup {Remote}) : ProducerEdge(targets) \subseteq AnyEdge
BY DEF Known, AnyEdge, ProducerEdge

(* The actions keep it, one by one. *)
LEMMA StartRootKeeps ==
  ASSUME EmissionInv, NEW s \in Spans, StartRoot(s)
  PROVE  EmissionInv'
<1>1. SpanKept(s) /\ phase[s] = "idle" /\ DOMAIN phase = Spans /\ DOMAIN span = Spans
  BY DEF EmissionInv, StartRoot
<1>2. PICK sp : sp = [ name |-> Recording[s].name, start |-> Recording[s].start,
                       parent |-> ContextOf(s, "lost"), links |-> << >>,
                       attributes |-> Own(s) ]
  OBVIOUS
<1>3. /\ phase'[s] = "running" /\ span'[s] = sp
      /\ event' = event /\ reports' = reports /\ edges' = edges
  BY <1>1, <1>2 DEF StartRoot, Own
<1>4. Own(s) = Own(s) \o Threaded(AttributeParentEventID, s, "absent")
  <2>1. Threaded(AttributeParentEventID, s, "absent") = << >>
    BY DEF Threaded
  <2>2. Own(s) \o << >> = Own(s)
    BY OwnAttributes, ConcatEmptySeq
  <2>3. QED
    BY <2>1, <2>2
<1>5. /\ sp \in RecordedSpan /\ sp.start = Recording[s].start
      /\ FlatMap(shippedOf, sp.attributes) = FlatMap(shippedOf, Recording[s].attributes)
  <2>1. PICK how \in Threadings, parent \in SpanContext :
          how = "absent" /\ parent = ContextOf(s, "lost")
    BY ContextType DEF Threadings, Journeys
  <2>2. sp = Started(s, parent, s, how)
    BY <1>2, <1>4, <2>1 DEF Started
  <2>3. QED
    BY <2>2, StartedSpan
<1>6. sp.attributes = Own(s) /\ sp.parent = ContextOf(s, "lost") /\ sp.links = << >>
  BY <1>2
<1>7. collected(sp) = << >>
  BY <1>6, RootCollects
<1>8. Mapped(edgeOf, FlatMap(named, << >>)) = << >>
  BY FlatMapEmpty DEF Mapped
<1>9. Known \subseteq Known'
  BY <1>1, <1>3 DEF StartRoot, Known
<1>10. SpanKept(s)'
  <2>1. PICK es \in Seq(ProducerEdge(Known \ {s})) : es = edges[s] /\ es = << >>
    BY <1>1 DEF SpanKept
  <2>2. << >> \in Seq(ProducerEdge(Known' \ {s}))
    BY EmptySeq
  <2>3. edges'[s] = << >>
    BY <1>3, <2>1
  <2>4. Recorded(s)'
    BY <1>3, <1>5, <1>7, <1>8, <2>3 DEF Recorded
  <2>5. event'[s] = Nil
    BY <1>1, <1>3 DEF SpanKept, converted
  <2>6. QED
    BY <1>3, <2>2, <2>3, <2>4, <2>5 DEF SpanKept, converted
<1>11. QED
  BY <1>3, <1>9, <1>10, OtherSpansKeep DEF EmissionInv, StartRoot

LEMMA StartChildKeeps ==
  ASSUME EmissionInv, NEW s \in Spans, NEW t \in Known \ {s}, NEW journey \in Journeys,
         NEW how \in Threadings, StartChild(s, t, journey, how)
  PROVE  EmissionInv'
<1>1. /\ SpanKept(s) /\ phase[s] = "idle" /\ DOMAIN phase = Spans /\ DOMAIN span = Spans
      /\ DOMAIN edges = Spans
  BY DEF EmissionInv, StartChild
<1>2. PICK e : e = [ source |-> "parent", target |-> t, journey |-> journey,
                     how |-> how ]
  OBVIOUS
<1>3. PICK sp : sp = [ name |-> Recording[s].name, start |-> Recording[s].start,
                       parent |-> ContextOf(t, journey), links |-> << >>,
                       attributes |-> Own(s) \o Threaded(AttributeParentEventID, t, how) ]
  OBVIOUS
<1>4. /\ phase'[s] = "running" /\ span'[s] = sp /\ edges'[s] = << e >>
      /\ event' = event /\ reports' = reports
  BY <1>1, <1>2, <1>3 DEF StartChild, Own
<1>5. Known \subseteq Known'
  BY <1>1, <1>4 DEF StartChild, Known
<1>6. t \in Spans \cup {Remote} /\ t \in Known' \ {s}
  BY <1>5, KnownType
<1>7. /\ e \in AnyEdge /\ e \in ProducerEdge(Known' \ {s})
      /\ e.source = "parent" /\ e.target = t /\ e.journey = journey /\ e.how = how
  BY <1>2, <1>6 DEF AnyEdge, ProducerEdge
<1>8. PICK parent \in SpanContext : parent = ContextOf(t, journey)
  BY <1>6, ContextType
<1>9. sp = Started(s, parent, t, how)
  BY <1>3, <1>8 DEF Started
<1>10. /\ sp \in RecordedSpan /\ sp.start = Recording[s].start
       /\ sp.links = << >> /\ sp.parent = parent
       /\ sp.attributes = Own(s) \o Threaded(AttributeParentEventID, t, how)
       /\ FlatMap(shippedOf, sp.attributes) = FlatMap(shippedOf, Recording[s].attributes)
  <2>1. PICK u \in Spans \cup {Remote} : u = t
    BY <1>6
  <2>2. sp = Started(s, parent, u, how)
    BY <1>9, <2>1
  <2>3. /\ sp \in RecordedSpan /\ sp.start = Recording[s].start
        /\ FlatMap(shippedOf, sp.attributes) = FlatMap(shippedOf, Recording[s].attributes)
    BY <2>2, StartedSpan
  <2>4. /\ sp.links = << >> /\ sp.parent = parent
        /\ sp.attributes = Own(s) \o Threaded(AttributeParentEventID, t, how)
    BY <1>9 DEF Started
  <2>5. QED
    BY <2>3, <2>4
<1>11. sp.parent = ContextOf(e.target, e.journey)
  BY <1>7, <1>8, <1>10
<1>12. collected(sp) = Mapped(edgeOf, named[e])
  BY <1>7, <1>10, <1>11, ChildCollects
<1>13. FlatMap(named, << e >>) = named[e]
  BY FlatMapOne
<1>14. SpanKept(s)'
  <2>1. << e >> \in Seq(ProducerEdge(Known' \ {s}))
    BY <1>7
  <2>2. Recorded(s)'
    BY <1>4, <1>10, <1>12, <1>13 DEF Recorded
  <2>3. event'[s] = Nil
    BY <1>1, <1>4 DEF SpanKept, converted
  <2>4. QED
    BY <1>4, <2>1, <2>2, <2>3 DEF SpanKept, converted
<1>15. QED
  BY <1>4, <1>5, <1>14, OtherSpansKeep DEF EmissionInv, StartChild

(* An edge that has a name is the last one of those meant. *)
LEMMA EdgesGrow ==
  ASSUME NEW es \in Seq(AnyEdge), NEW e \in AnyEdge, Named(e)
  PROVE  Mapped(edgeOf, FlatMap(named, Append(es, e)))
           = Mapped(edgeOf, FlatMap(named, es)) \o Mapped(edgeOf, named[e])
<1>1. named[e] = << e >>
  BY DEF named
<1>2. Appends(named, AnyEdge, AnyEdge)
  BY EmptySeq DEF Appends, named
<1>3. PICK ms \in Seq(AnyEdge) : ms = FlatMap(named, es)
  BY <1>2, FlatMapType
<1>4. FlatMap(named, Append(es, e)) = ms \o << e >>
  BY <1>1, <1>2, <1>3, FlatMapAppend
<1>5. ms \o << e >> = Append(ms, e)
  BY AppendIsConcat
<1>6. Mapped(edgeOf, Append(ms, e)) = Append(Mapped(edgeOf, ms), edgeOf[e])
  BY MapAppend
<1>7. Mapped(edgeOf, << e >>) = << edgeOf[e] >>
  BY DEF Mapped
<1> DEFINE U == {edgeOf[x] : x \in AnyEdge}
<1>8. edgeOf[e] \in U /\ \A x \in AnyEdge : edgeOf[x] \in U
  OBVIOUS
<1> HIDE DEF U
<1>9. PICK us \in Seq(U) : us = Mapped(edgeOf, ms)
  BY <1>8, MapType
<1>10. Append(us, edgeOf[e]) = us \o << edgeOf[e] >>
  BY <1>8, AppendIsConcat
<1>11. QED
  BY <1>1, <1>3, <1>4, <1>5, <1>6, <1>7, <1>9, <1>10

LEMMA AddLinkKeeps ==
  ASSUME EmissionInv, NEW s \in Spans, NEW t \in Known \ {s}, NEW journey \in Journeys,
         NEW how \in Threadings, AddLink(s, t, journey, how)
  PROVE  EmissionInv'
<1>1. /\ SpanKept(s) /\ phase[s] = "running" /\ DOMAIN phase = Spans
      /\ DOMAIN span = Spans /\ DOMAIN edges = Spans
  BY DEF EmissionInv, AddLink
<1>2. PICK sp : sp = span[s]
  OBVIOUS
<1>3. PICK es \in Seq(ProducerEdge(Known \ {s})) : es = edges[s]
  BY <1>1 DEF SpanKept
<1>4. /\ sp \in RecordedSpan /\ sp.start = Recording[s].start
      /\ FlatMap(shippedOf, sp.attributes) = FlatMap(shippedOf, Recording[s].attributes)
      /\ collected(sp) = Mapped(edgeOf, FlatMap(named, es))
  BY <1>1, <1>2, <1>3 DEF SpanKept, Recorded
<1>5. PICK e : e = [ source |-> "link", target |-> t, journey |-> journey,
                     how |-> how ]
  OBVIOUS
<1>6. /\ e \in AnyEdge /\ e \in ProducerEdge(Known \ {s})
      /\ e.source = "link" /\ e.target = t /\ e.journey = journey /\ e.how = how
  BY <1>5, KnownType DEF AnyEdge, ProducerEdge
<1>7. PICK link : link = [ context |-> ContextOf(t, journey),
                           attributes |-> Threaded(AttributeEventID, t, how) ]
  OBVIOUS
<1>8. link = [ context |-> ContextOf(e.target, e.journey),
               attributes |-> Threaded(AttributeEventID, e.target, e.how) ]
  BY <1>6, <1>7
<1>9. PICK tp : tp = [ sp EXCEPT !.links = Append(@, link) ]
  OBVIOUS
<1>10. /\ phase' = phase /\ event' = event /\ reports' = reports
       /\ span' = [ span EXCEPT ![s] = tp ] /\ edges' = [ edges EXCEPT ![s] = Append(@, e) ]
  BY <1>2, <1>5, <1>7, <1>9 DEF AddLink
<1>11. span'[s] = tp /\ edges'[s] = Append(es, e)
  BY <1>1, <1>3, <1>10
<1>12. Known' = Known
  BY <1>10 DEF Known
<1>13. sp.links \in Seq(Link) /\ sp.attributes \in Seq(KeyValue)
  BY <1>4 DEF RecordedSpan
<1>14. /\ tp.attributes = sp.attributes /\ tp.parent = sp.parent /\ tp.start = sp.start
       /\ tp.links = Append(sp.links, link)
  BY <1>4, <1>9 DEF RecordedSpan
<1>15. link \in Link /\ collected(tp) = collected(sp) \o Mapped(edgeOf, named[e])
  BY <1>6, <1>8, <1>13, <1>14, LinkCollects
<1>16. tp \in RecordedSpan
  <2>1. Append(sp.links, link) \in Seq(Link)
    BY <1>13, <1>15, AppendProperties
  <2>2. QED
    BY <1>4, <1>9, <2>1 DEF RecordedSpan
<1>17. collected(tp) = Mapped(edgeOf, FlatMap(named, Append(es, e)))
  <2>1. es \in Seq(AnyEdge)
    BY <1>3, KnownType, SeqMonotonic
  <2>2. Named(e)
    BY <1>6 DEF Named
  <2>3. QED
    BY <1>4, <1>6, <1>15, <2>1, <2>2, EdgesGrow
<1>18. SpanKept(s)'
  <2>1. Append(es, e) \in Seq(ProducerEdge(Known' \ {s}))
    BY <1>6, <1>12, AppendProperties
  <2>2. Recorded(s)'
    BY <1>4, <1>11, <1>14, <1>16, <1>17 DEF Recorded
  <2>3. event'[s] = Nil /\ phase'[s] = "running"
    BY <1>1, <1>10 DEF SpanKept, converted
  <2>4. QED
    BY <1>11, <2>1, <2>2, <2>3 DEF SpanKept, converted
<1>19. QED
  BY <1>1, <1>10, <1>12, <1>18, OtherSpansKeep DEF EmissionInv

LEMMA EndSpanKeeps ==
  ASSUME EmissionInv, NEW s \in Spans, EndSpan(s)
  PROVE  EmissionInv'
<1>1. /\ SpanKept(s) /\ phase[s] = "running" /\ DOMAIN phase = Spans
  BY DEF EmissionInv, EndSpan
<1>2. /\ phase'[s] = "ended" /\ span' = span /\ event' = event /\ reports' = reports
      /\ edges' = edges
  BY <1>1 DEF EndSpan
<1>3. Known' = Known
  BY <1>1, <1>2 DEF EndSpan, Known
<1>4. Recorded(s)'
  BY <1>1, <1>2 DEF SpanKept, Recorded
<1>5. SpanKept(s)'
  BY <1>1, <1>2, <1>3, <1>4 DEF SpanKept, converted
<1>6. QED
  BY <1>2, <1>3, <1>5, OtherSpansKeep DEF EmissionInv, EndSpan

LEMMA ConvertKeeps ==
  ASSUME EmissionInv, NEW s \in Spans, Convert(s)
  PROVE  EmissionInv'
<1>1. /\ SpanKept(s) /\ phase[s] = "ended" /\ DOMAIN phase = Spans
      /\ DOMAIN event = Spans /\ DOMAIN reports = Spans
  BY DEF EmissionInv, Convert
<1>2. /\ phase'[s] = "converted" /\ span' = span /\ edges' = edges
      /\ event'[s] = SpanToEvent([ Conversion[s] EXCEPT !.eventId = EventId[s] ], span[s])
      /\ reports'[s] = Reports(span[s])
  BY <1>1 DEF Convert
<1>3. Known' = Known
  BY <1>1, <1>2 DEF Convert, Known
<1>4. Recorded(s)' /\ Shipped(s)'
  BY <1>1, <1>2 DEF SpanKept, Recorded, Shipped
<1>5. SpanKept(s)'
  BY <1>1, <1>2, <1>3, <1>4 DEF SpanKept, converted
<1>6. QED
  BY <1>2, <1>3, <1>5, OtherSpansKeep DEF EmissionInv, Convert

(* The trace keeps the invariant: no span forgets an edge it was given. *)
LEMMA EmissionInvariant == Spec => []EmissionInv
<1>1. ASSUME EmissionInv, [Next]_vars PROVE EmissionInv'
  <2>1. CASE UNCHANGED vars
    BY <1>1, <2>1 DEF vars, EmissionInv, SpanKept, Recorded, Shipped, Known, converted
  <2>2. CASE Next
    <3>1. PICK s \in Spans :
            \/ StartRoot(s)
            \/ \E t \in Known \ {s}, journey \in Journeys, how \in Threadings :
                 StartChild(s, t, journey, how) \/ AddLink(s, t, journey, how)
            \/ EndSpan(s)
            \/ Convert(s)
      BY <2>2 DEF Next
    <3>2. QED
      BY <1>1, <3>1, StartRootKeeps, StartChildKeeps, AddLinkKeeps, EndSpanKeeps, ConvertKeeps
  <2>3. QED
    BY <1>1, <2>1, <2>2
<1>2. QED
  BY InitKept, <1>1, PTL DEF Spec

-----------------------------------------------------------------------------
(* The time of every event is the start of its span, for every time a span can
   start at and words of any width. *)
THEOREM TimesAreStarts == Spec => []TimesArrive
<1>1. EmissionInv => TimesArrive
  <2>1. SUFFICES ASSUME EmissionInv, NEW s \in Spans, converted(s)
                 PROVE  ToBigInt(event[s].occurrenceTime.nanoseconds)
                          = TimeToNanoseconds(Recording[s].start)
    BY DEF TimesArrive
  <2>2. Recording[s].start \in Time
    BY EmissionAssumption
  <2>3. Shipped(s) /\ Recorded(s)
    BY <2>1 DEF EmissionInv, SpanKept, converted
  <2>4. event[s].occurrenceTime.nanoseconds
          = FromBigInt(TimeToNanoseconds(Recording[s].start))
    BY <2>3 DEF Shipped, Recorded, SpanToEvent, BuildOccurrenceTime
  <2>5. QED
    BY <2>2, <2>4, EveryTimeHasAnEncoding
<1>2. QED
  BY EmissionInvariant, <1>1, PTL

(* What an event says of its span's edges, read off the edges the producer meant. *)
LEMMA ShippedEdges ==
  ASSUME EmissionInv, NEW s \in Spans, converted(s)
  PROVE  /\ Meant(s) \in Seq(AnyEdge)
         /\ \A i \in DOMAIN Meant(s) : Meant(s)[i] \in AnyEdge
         /\ event[s].causalPredecessorIds
              = [ i \in DOMAIN Meant(s) |-> edgeOf[Meant(s)[i]].predecessor ]
         /\ reports[s]
              = FlattenSeq([ i \in DOMAIN Meant(s) |->
                  Appended(<< edgeOf[Meant(s)[i]].source, edgeOf[Meant(s)[i]].predecessor >>,
                           edgeOf[Meant(s)[i]].source) ])
         /\ event[s].id = EventId[s]
<1>1. Shipped(s) /\ Recorded(s) /\ edges[s] \in Seq(AnyEdge)
  <2>1. SpanKept(s) /\ phase[s] = "converted"
    BY DEF EmissionInv, converted
  <2>2. PICK es \in Seq(ProducerEdge(Known \ {s})) : es = edges[s]
    BY <2>1 DEF SpanKept
  <2>3. es \in Seq(AnyEdge)
    BY KnownType, SeqMonotonic
  <2>4. QED
    BY <2>1, <2>2, <2>3 DEF SpanKept, converted
<1>2. PICK ms \in Seq(AnyEdge) : ms = Meant(s) /\ ms = FlatMap(named, edges[s])
  BY <1>1, MeantIs
<1>3. \A i \in DOMAIN ms : ms[i] \in AnyEdge
  BY LenProperties, ElementOfSeq
<1>4. PICK cs : cs = collected(span[s])
  OBVIOUS
<1>5. DOMAIN cs = DOMAIN ms /\ \A i \in DOMAIN ms : cs[i] = edgeOf[ms[i]]
  BY <1>1, <1>2, <1>4 DEF Recorded, Mapped
<1>6. /\ Predecessors(span[s]) = [ i \in DOMAIN cs |-> cs[i].predecessor ]
      /\ Reports(span[s]) = FlattenSeq([ i \in DOMAIN cs |->
           Appended(<< cs[i].source, cs[i].predecessor >>, cs[i].source) ])
  BY <1>4 DEF Predecessors, Reports
<1>7. /\ [ i \in DOMAIN cs |-> cs[i].predecessor ]
           = [ i \in DOMAIN ms |-> edgeOf[ms[i]].predecessor ]
      /\ [ i \in DOMAIN cs |->
             Appended(<< cs[i].source, cs[i].predecessor >>, cs[i].source) ]
           = [ i \in DOMAIN ms |->
                 Appended(<< edgeOf[ms[i]].source, edgeOf[ms[i]].predecessor >>,
                          edgeOf[ms[i]].source) ]
  BY <1>5
<1>8. /\ event[s].causalPredecessorIds = Predecessors(span[s])
      /\ reports[s] = Reports(span[s])
  BY <1>1 DEF Shipped, SpanToEvent
<1>9. event[s].id = EventId[s]
  BY <1>1, RecordingType DEF Shipped, SpanToEvent, SpanConversion
<1>10. QED
  BY <1>2, <1>3, <1>6, <1>7, <1>8, <1>9

-----------------------------------------------------------------------------
(* What an edge becomes: a predecessor, and a source unless it was threaded. *)
LEMMA EdgeOfIs ==
  ASSUME NEW e \in AnyEdge
  PROVE  /\ e.target \in Spans \cup {Remote}
         /\ e.how = "threaded" =>
              edgeOf[e].predecessor = EventId[e.target] /\ edgeOf[e].source = Nil
         /\ e.how # "threaded" =>
              /\ edgeOf[e].predecessor = spanIdOf(e)
              /\ edgeOf[e].source = e.source /\ e.source # Nil
         /\ edgeOf[e].predecessor \in STRING
<1>1. e.target \in Spans \cup {Remote} /\ e.source \in {"parent", "link"}
  BY DEF AnyEdge, ProducerEdge
<1>2. Spans \cup {Remote} \subseteq STRING
  BY EmissionAssumption
<1>3. "parent" \in STRING /\ "link" \in STRING /\ InvalidSpanID \in STRING
  BY LiteralAssumption
<1>4. e.source # Nil
  BY <1>1, <1>3, ConstantTypes
<1>5. EventId[e.target] \in STRING /\ spanIdOf(e) \in STRING
  <2>1. e.journey \in Journeys
    BY DEF AnyEdge, ProducerEdge
  <2>2. ContextOf(e.target, e.journey) \in SpanContext
    BY <1>1, <2>1, ContextType
  <2>3. QED
    BY <1>1, <2>2, ConstantTypes DEF spanIdOf, SpanContext
<1>6. QED
  BY <1>1, <1>4, <1>5 DEF edgeOf

(* What is reported of an edge. *)
reported == [ e \in AnyEdge |->
  IF e.how = "threaded" THEN << >> ELSE << << e.source, spanIdOf(e) >> >> ]

(* The reports of a conversion are those of its edges, in turn. *)
LEMMA ReportedEdges ==
  ASSUME EmissionInv, NEW s \in Spans, converted(s)
  PROVE  reports[s] = FlatMap(reported, Meant(s))
<1>1. PICK ms \in Seq(AnyEdge) : ms = Meant(s)
  BY ShippedEdges
<1>2. \A i \in DOMAIN ms : ms[i] \in AnyEdge
  BY LenProperties, ElementOfSeq
<1>3. \A e \in AnyEdge :
        Appended(<< edgeOf[e].source, edgeOf[e].predecessor >>, edgeOf[e].source) = reported[e]
  BY EdgeOfIs DEF Appended, reported
<1>4. [ i \in DOMAIN ms |->
          Appended(<< edgeOf[ms[i]].source, edgeOf[ms[i]].predecessor >>,
                   edgeOf[ms[i]].source) ]
        = Mapped(reported, ms)
  BY <1>2, <1>3 DEF Mapped
<1>5. QED
  BY <1>1, <1>4, ShippedEdges DEF FlatMap

(* Every edge the producer meant arrives once, in order, by its best name, for
   any trace of spans, links in any number and identifiers of any content. *)
THEOREM EdgesAreMeant == Spec => []EdgesArriveInOrder
<1>1. ASSUME EmissionInv, NEW s \in Spans, converted(s)
      PROVE  /\ event[s].causalPredecessorIds =
                  [ i \in DOMAIN Meant(s) |-> IF Meant(s)[i].how = "threaded"
                                              THEN EventId[Meant(s)[i].target]
                                              ELSE spanIdOf(Meant(s)[i]) ]
             /\ reports[s] =
                  FlattenSeq([ i \in DOMAIN Meant(s) |->
                    IF Meant(s)[i].how = "threaded" THEN << >>
                    ELSE << << Meant(s)[i].source, spanIdOf(Meant(s)[i]) >> >> ])
  <2>1. PICK ms : ms = Meant(s) /\ \A i \in DOMAIN ms : ms[i] \in AnyEdge
    BY <1>1, ShippedEdges
  <2>2. [ i \in DOMAIN ms |-> edgeOf[ms[i]].predecessor ]
          = [ i \in DOMAIN ms |-> IF ms[i].how = "threaded" THEN EventId[ms[i].target]
                                  ELSE spanIdOf(ms[i]) ]
    BY <2>1, EdgeOfIs
  <2>3. Mapped(reported, ms)
          = [ i \in DOMAIN ms |-> IF ms[i].how = "threaded" THEN << >>
                                  ELSE << << ms[i].source, spanIdOf(ms[i]) >> >> ]
    BY <2>1 DEF Mapped, reported
  <2>4. /\ event[s].causalPredecessorIds = [ i \in DOMAIN ms |-> edgeOf[ms[i]].predecessor ]
        /\ reports[s] = FlattenSeq(Mapped(reported, ms))
    BY <1>1, <2>1, ShippedEdges, ReportedEdges DEF FlatMap
  <2>5. QED
    BY <2>1, <2>2, <2>3, <2>4
<1>2. EmissionInv => EdgesArriveInOrder
  BY <1>1 DEF EdgesArriveInOrder
<1>3. QED
  BY EmissionInvariant, <1>2, PTL

(* The edges meant are edges of the producer's, to the spans it knew. *)
LEMMA MeantTargets ==
  ASSUME NEW targets \in SUBSET (Spans \cup {Remote}), NEW es \in Seq(ProducerEdge(targets))
  PROVE  FlatMap(named, es) \in Seq(ProducerEdge(targets))
<1> DEFINE S == ProducerEdge(targets)
<1>1. S \subseteq AnyEdge
  BY KnownType
<1> HIDE DEF S
<1>2. Appends(named, S, S)
  BY <1>1, EmptySeq DEF Appends, named
<1>3. PICK fs \in Seq(S) : fs = es
  BY DEF S
<1>4. FlatMap(named, fs) \in Seq(S)
  BY <1>2, FlatMapType
<1>5. QED
  BY <1>3, <1>4 DEF S

(* The edges meant are of those the producer made. *)
LEMMA MeantEdges ==
  ASSUME NEW s, NEW es \in Seq(AnyEdge), es = edges[s], NEW i \in DOMAIN Meant(s)
  PROVE  Meant(s)[i] \in ToSet(edges[s])
<1> DEFINE S == {e \in AnyEdge : e \in ToSet(es)}
<1>1. \A j \in DOMAIN es : es[j] \in S
  BY LenProperties, ElementOfSeq DEF ToSet
<1>2. S \subseteq AnyEdge
  OBVIOUS
<1>3. Meant(s) = FlatMap(named, es)
  BY MeantIs
<1> HIDE DEF S
<1>4. Appends(named, S, S)
  BY <1>2, EmptySeq DEF Appends, named
<1>5. es \in Seq(S)
  BY <1>1, SeqOfElements
<1>6. PICK ms \in Seq(S) : ms = Meant(s)
  BY <1>4, <1>3, <1>5, FlatMapType
<1>7. ms[i] \in S
  BY <1>6, LenProperties, ElementOfSeq
<1>8. QED
  BY <1>6, <1>7 DEF S

(* If nothing was reported every predecessor was threaded, for any trace, and is the
   identifier of an event unless the producer had none to thread. *)
THEOREM SilentEdgesAreJoinable == Spec => []SilenceMeansJoinable
<1>1. ASSUME EmissionInv, NEW s \in Spans, converted(s), reports[s] = << >>,
             NEW id \in ToSet(event[s].causalPredecessorIds)
      PROVE  Joinable(id, s) \/ (id = "" /\ \E e \in ToSet(edges[s]) : NamesNobody(e))
  <2>1. PICK ms \in Seq(AnyEdge) : ms = Meant(s)
    BY <1>1, ShippedEdges
  <2>2. event[s].causalPredecessorIds = [ i \in DOMAIN ms |-> edgeOf[ms[i]].predecessor ]
    BY <1>1, <2>1, ShippedEdges
  <2>3. PICK i \in DOMAIN ms : id = edgeOf[ms[i]].predecessor
    BY <1>1, <2>2 DEF ToSet
  <2>4. reported[ms[i]] = << >>
    <3>1. FlatMap(reported, ms) = << >>
      BY <1>1, <2>1, ReportedEdges
    <3> DEFINE U == {"parent", "link"} \X {spanIdOf(e) : e \in AnyEdge}
    <3>2. ASSUME NEW e \in AnyEdge PROVE reported[e] \in Seq(U)
      <4>1. CASE e.how = "threaded"
        BY <4>1, EmptySeq DEF reported
      <4>2. CASE e.how # "threaded"
        <5>1. << e.source, spanIdOf(e) >> \in U
          BY DEF AnyEdge, ProducerEdge
        <5>2. QED
          BY <4>2, <5>1 DEF reported
      <4>3. QED
        BY <4>1, <4>2
    <3> HIDE DEF U
    <3>3. Appends(reported, AnyEdge, U)
      BY <3>2 DEF Appends
    <3>4. QED
      BY <3>1, <3>3, FlatMapNothing
  <2>5. PICK t : t = ms[i].target
    OBVIOUS
  <2>6. ms[i] \in AnyEdge
    BY LenProperties, ElementOfSeq
  <2>7. ms[i].how = "threaded"
    BY <2>4, <2>6 DEF reported
  <2>8. id = EventId[t]
    BY <2>3, <2>5, <2>6, <2>7, EdgeOfIs
  <2>9. t \in Known \ {s}
    <3>1. SpanKept(s) /\ phase[s] = "converted"
      BY <1>1 DEF EmissionInv, converted
    <3>2. PICK es \in Seq(ProducerEdge(Known \ {s})) : es = edges[s]
      BY <3>1 DEF SpanKept
    <3>3. PICK targets \in SUBSET (Spans \cup {Remote}) : targets = Known \ {s}
      BY KnownType
    <3>4. PICK fs \in Seq(ProducerEdge(targets)) : fs = edges[s]
      BY <3>2, <3>3
    <3>5. FlatMap(named, fs) \in Seq(ProducerEdge(targets))
      BY MeantTargets
    <3>6. fs \in Seq(AnyEdge)
      BY KnownType, SeqMonotonic
    <3>7. ms = FlatMap(named, fs)
      BY <2>1, <3>4, <3>6, MeantIs
    <3>8. ms \in Seq(ProducerEdge(targets))
      BY <3>5, <3>7
    <3>9. ms[i] \in ProducerEdge(targets)
      BY <3>8, LenProperties, ElementOfSeq
    <3>10. QED
      BY <2>5, <3>3, <3>9 DEF ProducerEdge
  <2>10. ASSUME t # Remote, converted(t) PROVE event[t].id = id
    <3>1. t \in Spans
      BY <2>9, <2>10, KnownType
    <3>2. QED
      BY <1>1, <2>8, <2>10, <3>1, ShippedEdges
  <2>11. CASE id # ""
    BY <2>8, <2>9, <2>10, <2>11 DEF Joinable
  <2>12. CASE id = ""
    <3>1. SpanKept(s) /\ phase[s] = "converted"
      BY <1>1 DEF EmissionInv, converted
    <3>2. PICK es \in Seq(AnyEdge) : es = edges[s]
      BY <3>1, KnownType, SeqMonotonic DEF SpanKept
    <3>3. ms[i] \in ToSet(edges[s])
      BY <2>1, <3>2, MeantEdges
    <3>4. NamesNobody(ms[i])
      BY <2>5, <2>7, <2>8, <2>12 DEF NamesNobody
    <3>5. QED
      BY <2>12, <3>3, <3>4
  <2>13. QED
    BY <2>11, <2>12
<1>2. EmissionInv => SilenceMeansJoinable
  BY <1>1 DEF SilenceMeansJoinable
<1>3. QED
  BY EmissionInvariant, <1>2, PTL

-----------------------------------------------------------------------------
(* What an event carries is what its span recorded, mapped in its order. *)
LEMMA ShippedAttributes ==
  ASSUME EmissionInv, NEW s \in Spans, converted(s)
  PROVE  /\ event[s].attributes = FlatMap(shippedOf, Recording[s].attributes)
         /\ event[s].attributes \in Seq(Entries)
<1>1. Shipped(s) /\ Recorded(s)
  BY DEF EmissionInv, SpanKept, converted
<1>2. PICK attributes \in Seq(KeyValue) : attributes = span[s].attributes
  BY <1>1 DEF Recorded, RecordedSpan
<1>3. event[s].attributes = mapAttributes(attributes)
  BY <1>1, <1>2 DEF Shipped, SpanToEvent
<1>4. FlatMap(shippedOf, attributes) \in Seq(Entries)
  BY ShippedOfType, FlatMapType
<1>5. QED
  BY <1>1, <1>2, <1>3, <1>4, MapAttributesIs DEF Recorded

(* The walk of what is shipped of one attribute is that of the attribute. *)
LEMMA AttributeArrives ==
  ASSUME NEW kv \in KeyValue, kv.key \notin Reserved
  PROVE  keyedOf[kv] = FlatMap(arrivedOf, shippedOf[kv])
<1>1. PICK key \in STRING, v \in Values : key = kv.key /\ v = kv.value
  BY DEF KeyValue
<1>2. shippedOf[kv] = entriesOf[kv] /\ keyedOf[kv] = Keyed(key, Walk[v])
  BY <1>1 DEF shippedOf, keyedOf
<1>3. CASE v.type \in Skipped
  <2>1. entriesOf[kv] = << >>
    BY <1>1, <1>3, DroppedItems
  <2>2. Walk[v] = << >>
    BY <1>3, WalkOfLeaf
  <2>3. QED
    BY <1>2, <2>1, <2>2, FlatMapEmpty DEF Keyed
<1>4. CASE v.type \notin Skipped
  <2>1. PICK m \in AttributeValues : m = mapValue[v]
    BY <1>4, MappedType
  <2>2. PICK entry \in Entries :
          entry = EntryOf(key, m) /\ entry.key = key /\ entry.value = m
    BY EntryType
  <2>3. entriesOf[kv] = << entry >>
    BY <1>1, <1>4, <2>1, <2>2, KeptItems
  <2>4. arrivedOf[entry] = Keyed(key, ArrivedWalk[m])
    BY <2>2 DEF arrivedOf
  <2>5. ArrivedWalk[m] = Walk[v]
    BY <1>4, <2>1, WalksArrive
  <2>6. FlatMap(arrivedOf, << entry >>) = arrivedOf[entry]
    BY FlatMapOne
  <2>7. QED
    BY <1>2, <2>3, <2>4, <2>5, <2>6
<1>5. QED
  BY <1>3, <1>4

(* What a span recorded arrives, for values nested to any depth and attributes in
   any number: in order, each leaf under its own arm, each key of a map with its
   item, and nothing of the producer's own keys. *)
THEOREM SpansArriveWhole == Spec => []AttributesArrive
<1>1. ASSUME EmissionInv, NEW s \in Spans, converted(s)
      PROVE  FlattenSeq([ i \in DOMAIN event[s].attributes |->
               Keyed(event[s].attributes[i].key, ArrivedWalk[event[s].attributes[i].value]) ])
             = FlattenSeq([ i \in DOMAIN Recording[s].attributes |->
                 Keyed(Recording[s].attributes[i].key,
                       Walk[Recording[s].attributes[i].value]) ])
  <2> DEFINE S == {kv \in KeyValue : kv.key \notin Reserved}
  <2>1. PICK shipped \in Seq(Entries) : shipped = event[s].attributes
    BY <1>1, ShippedAttributes
  <2>2. PICK recorded \in Seq(KeyValue) : recorded = Recording[s].attributes
    BY RecordingType
  <2>3. \A i \in DOMAIN recorded : recorded[i] \in S
    BY <2>2, RecordingType, LenProperties, ElementOfSeq
  <2>4. \A kv \in S : kv \in KeyValue /\ kv.key \notin Reserved
    OBVIOUS
  <2> HIDE DEF S
  <2>5. recorded \in Seq(S)
    BY <2>3, SeqOfElements
  <2>6. Appends(shippedOf, S, Entries)
    BY <2>4, ShippedOfType DEF Appends
  <2>7. Appends(arrivedOf, Entries, Tokens)
    BY ArrivedOfEntries
  <2>8. Appends(keyedOf, S, Tokens)
    BY <2>4, WalkType, KeyedType DEF Appends, keyedOf, KeyValue
  <2>9. \A kv \in S : keyedOf[kv] = FlatMap(arrivedOf, shippedOf[kv])
    BY <2>4, AttributeArrives
  <2>10. FlatMap(arrivedOf, FlatMap(shippedOf, recorded)) = FlatMap(keyedOf, recorded)
    BY <2>5, <2>6, <2>7, <2>8, <2>9, FlatMapTwice
  <2>11. shipped = FlatMap(shippedOf, recorded)
    BY <1>1, <2>1, <2>2, ShippedAttributes
  <2>12. Mapped(arrivedOf, shipped)
           = [ i \in DOMAIN shipped |-> Keyed(shipped[i].key, ArrivedWalk[shipped[i].value]) ]
    <3>1. \A i \in DOMAIN shipped : shipped[i] \in Entries
      BY LenProperties, ElementOfSeq
    <3>2. QED
      BY <3>1 DEF Mapped, arrivedOf
  <2>13. Mapped(keyedOf, recorded)
           = [ i \in DOMAIN recorded |-> Keyed(recorded[i].key, Walk[recorded[i].value]) ]
    <3>1. \A i \in DOMAIN recorded : recorded[i] \in KeyValue
      BY LenProperties, ElementOfSeq
    <3>2. QED
      BY <3>1 DEF Mapped, keyedOf
  <2>14. QED
    BY <2>1, <2>2, <2>10, <2>11, <2>12, <2>13 DEF FlatMap
<1>2. EmissionInv => AttributesArrive
  BY <1>1 DEF AttributesArrive
<1>3. QED
  BY EmissionInvariant, <1>2, PTL

(* The time and the names of an event. *)
LEMMA ShippedTime ==
  ASSUME NEW t \in Time, NEW sp, sp.start = t
  PROVE  /\ BuildOccurrenceTime(sp) \in OccurrenceTime
         /\ BuildOccurrenceTime(sp).nanoseconds.low < twoPow64
<1>1. TimeToNanoseconds(t) \in Int
  <2>1. t.seconds \in Int /\ t.nanoseconds \in Int /\ PerSecond \in Int
    BY Int128Assumption DEF Time
  <2>2. QED
    BY <2>1 DEF TimeToNanoseconds
<1>2. PICK word \in Int128 : word = FromBigInt(TimeToNanoseconds(t)) /\ word.low < twoPow64
  <2>1. twoPow64 \in Nat
    BY Int128Assumption DEF twoPow64
  <2>2. QED
    BY <1>1, <2>1, EncodingIsWords
<1>3. PICK time : time = BuildOccurrenceTime(sp)
  OBVIOUS
<1>4. time = [ clockDomainId |-> "unix", nanoseconds |-> word,
               uncertaintyNanoseconds |-> 0 ]
  BY <1>2, <1>3 DEF BuildOccurrenceTime
<1>5. time \in OccurrenceTime
  BY <1>4, LiteralsAreStrings DEF OccurrenceTime
<1>6. time.nanoseconds = word
  BY <1>4
<1>7. QED
  BY <1>2, <1>3, <1>5, <1>6

(* The predecessors of an event are strings. *)
LEMMA ShippedNames ==
  ASSUME EmissionInv, NEW s \in Spans, converted(s)
  PROVE  event[s].causalPredecessorIds \in Seq(STRING)
<1>1. PICK ms \in Seq(AnyEdge) : ms = Meant(s)
  BY ShippedEdges
<1>2. PICK n \in Nat : n = Len(ms)
  BY LenProperties
<1>3. DOMAIN ms = 1 .. n /\ \A i \in 1 .. n : ms[i] \in AnyEdge
  BY <1>2, LenProperties, ElementOfSeq
<1>4. \A i \in 1 .. n : edgeOf[ms[i]].predecessor \in STRING
  BY <1>3, EdgeOfIs
<1>5. [ i \in 1 .. n |-> edgeOf[ms[i]].predecessor ] \in Seq(STRING)
  BY <1>4, IsASeq
<1>6. event[s].causalPredecessorIds = [ i \in DOMAIN ms |-> edgeOf[ms[i]].predecessor ]
  BY <1>1, ShippedEdges
<1>7. QED
  BY <1>3, <1>5, <1>6

(* Every event that is shipped is a message of the schema. *)
THEOREM EventsAreMessages == Spec => []TypeOK
<1>1. ASSUME EmissionInv, NEW s \in Spans, converted(s)
      PROVE  /\ event[s] \in ProducerEvent
             /\ event[s].occurrenceTime.nanoseconds.low < twoPow64
             /\ \A i \in DOMAIN event[s].attributes : event[s].attributes[i].value # Nil
  <2>1. Shipped(s) /\ Recorded(s)
    BY <1>1 DEF EmissionInv, SpanKept, converted
  <2>2. PICK sp \in RecordedSpan : sp = span[s] /\ sp.start = Recording[s].start
    BY <2>1 DEF Recorded
  <2>3. PICK conversion \in SpanConversion :
          conversion = [ Conversion[s] EXCEPT !.eventId = EventId[s] ]
    BY RecordingType, ConstantTypes DEF SpanConversion
  <2>4. PICK time \in OccurrenceTime :
          time = BuildOccurrenceTime(sp) /\ time.nanoseconds.low < twoPow64
    BY <2>2, ShippedTime DEF RecordedSpan
  <2>5. PICK names \in Seq(STRING) : names = event[s].causalPredecessorIds
    BY <1>1, ShippedNames
  <2>6. PICK entries \in Seq(Entries) : entries = event[s].attributes
    BY <1>1, ShippedAttributes
  <2>7. \A i \in DOMAIN entries : entries[i].value # Nil
    <3>1. \A i \in DOMAIN entries : entries[i] \in Entries
      BY LenProperties, ElementOfSeq
    <3>2. QED
      BY <3>1, TreeAssumption DEF Entries
  <2>8. event[s] = SpanToEvent(conversion, sp)
    BY <2>1, <2>2, <2>3 DEF Shipped
  <2>9. event[s] =
          [ id |-> conversion.eventId, sequence |-> conversion.sequence,
            schemaVersion |-> conversion.schemaVersion,
            acknowledgedFilterEpoch |-> conversion.acknowledgedEpoch,
            kind |-> sp.name, occurrenceTime |-> time, attributes |-> entries,
            claimedCapabilities |-> conversion.claimedCapabilities,
            claimedSensitivity |-> conversion.claimedSensitivity,
            causalPredecessorIds |-> names ]
    BY <2>4, <2>5, <2>6, <2>8 DEF SpanToEvent
  <2>10. entries \in Seq(AttributeEntry)
    BY SeqMonotonic DEF Entries
  <2>11. event[s] \in ProducerEvent
    BY <2>9, <2>10 DEF ProducerEvent, SpanConversion, RecordedSpan
  <2>12. event[s].occurrenceTime = time
    BY <2>9
  <2>13. QED
    BY <2>4, <2>6, <2>7, <2>11, <2>12
<1>2. EmissionInv => TypeOK
  <2>1. ASSUME EmissionInv, NEW s \in Spans
        PROVE  /\ phase[s] \in {"idle", "running", "ended", "converted"}
               /\ ~converted(s) => event[s] = Nil
    BY <2>1 DEF EmissionInv, SpanKept
  <2>2. QED
    BY <1>1, <2>1 DEF TypeOK
<1>3. QED
  BY EmissionInvariant, <1>2, PTL
=============================================================================
