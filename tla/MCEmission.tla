----------------------------- MODULE MCEmission -----------------------------
(* Two spans of one process and one of another, whose producer assigned no event
   identifier.  Words of 8 values: times before and after the epoch that no one
   word holds.  Every attribute type, the types skipped at every depth, and a
   reserved key inside a map, where it is a key like any other. *)
EXTENDS Emission

MCSpans == {"s1", "s2"}
MCEventId == "s1" :> "e1" @@ "s2" :> "e2" @@ "r0" :> ""
MCMaxLinks == "s1" :> 2 @@ "s2" :> 0

Item(value) == [ key |-> "", value |-> value ]
Pair(key, value) == [ key |-> key, value |-> value ]
Compound(type, items) == [ type |-> type, leaf |-> "", items |-> items ]

empty == Leaf("EMPTY", "")
later == Leaf("UNKNOWN", "?")
text == Leaf("STRING", "abc")
number == Leaf("INT64", "3")
real == Leaf("FLOAT64", "3")
flag == Leaf("BOOL", "true")
bytes == Leaf("BYTESLICE", "abc")
numbers == Compound("INT64SLICE", << Item(number), Item(number) >>)
reals == Compound("FLOAT64SLICE", << Item(real) >>)
flags == Compound("BOOLSLICE", << Item(flag) >>)
texts == Compound("STRINGSLICE", <<>>)
mixed == Compound("SLICE", << Item(later), Item(real), Item(numbers) >>)
nested == Compound("MAP", << Pair("a", empty), Pair("b", mixed), Pair(AttributeEventID, bytes) >>)

MCValues ==
  {empty, later, text, number, real, flag, bytes, numbers, reals, flags, texts, mixed, nested}
  \cup {Leaf(type, MCEventId[s]) : type \in {"STRING", "INT64"}, s \in DOMAIN MCEventId}

(* What mapValue can return, arm by arm. *)
MCAttributeValues == {mapValue[v] : v \in MCValues} \ {Nil}

(* How deep they are: 1 for a leaf. *)
depthOf[v \in MCValues] ==
  1 + Max({0} \cup {depthOf[v.items[i].value] : i \in DOMAIN v.items})
messageDepth[m \in MCAttributeValues] ==
  1 + Max({0} \cup {messageDepth[m.values[i]] : i \in DOMAIN m.values}
              \cup {messageDepth[m.entries[i].value] : i \in DOMAIN m.entries})
MCDepth == depthOf @@ messageDepth

MCRecording ==
  "s1" :> [ name |-> "order.charge", start |-> [ seconds |-> -2, nanoseconds |-> 3 ],
            attributes |-> << Pair("order.id", text), Pair("order.retry", flag),
                              Pair("order.note", empty), Pair("order.lines", nested) >> ] @@
  "s2" :> [ name |-> "charge.card", start |-> [ seconds |-> 3, nanoseconds |-> 1 ],
            attributes |-> << Pair("amount", real), Pair("count", number),
                              Pair("raw", bytes), Pair("trend", later), Pair("sums", reals),
                              Pair("flags", flags), Pair("tags", texts) >> ]

MCConversion ==
  [ s \in MCSpans |->
      [ eventId |-> "", sequence |-> [ epoch |-> 1, sequence |-> 1 ],
        schemaVersion |-> "1.0.0", acknowledgedEpoch |-> IF s = "s1" THEN Nil ELSE 0,
        claimedCapabilities |-> {"CAUSAL_EDGES"}, claimedSensitivity |-> "INTERNAL" ] ]
=============================================================================
