------------------------------- MODULE MCJson -------------------------------
(* Inputs of the json components: documents, strings and numbers, models.     *)
EXTENDS JsonReading, JsonText, JsonModel

-----------------------------------------------------------------------------
(* Documents *)
MCStrings == { [taken |-> 2, content |-> <<>>], [taken |-> 3, content |-> <<2>>],
               [taken |-> 4, content |-> <<1, 1>>] }
MCNumbers == { [taken |-> 1, type |-> TYPE_INTEGER, value |-> 5] }

-----------------------------------------------------------------------------
(* Strings: pieces with their meaning, put together, cut short or broken, and  *)
(* what jsonEncode writes.                                                     *)
Quote == <<34>>
Pieces == { [bytes |-> <<97>>, means |-> <<97>>],
            [bytes |-> <<92, 110>>, means |-> <<10>>],
            [bytes |-> Text("\\u0041"), means |-> <<65>>],
            [bytes |-> Text("\\u00e9"), means |-> <<195, 169>>],
            [bytes |-> Text("\\u4E00"), means |-> <<228, 184, 128>>],
            [bytes |-> Text("\\uD834\\uDD1E"), means |-> <<240, 157, 132, 158>>],
            [bytes |-> <<195, 169>>, means |-> <<195, 169>>],
            [bytes |-> <<228, 184, 128>>, means |-> <<228, 184, 128>>],
            [bytes |-> <<240, 157, 132, 158>>, means |-> <<240, 157, 132, 158>>] }
Broken == { <<10>>, Text("\\x"), Text("\\u00g0"), Text("\\uD834\\u0041"), Text("\\uD834a"),
            <<195, 97>>, <<228, 184, 97>>, <<248>> }
Flat(pieces, ending, means) ==
  [pieces |-> pieces, ending |-> ending, bytes |-> FlattenSeq(pieces) \o ending, means |-> means]
Whole(s) == Flat([i \in DOMAIN s |-> s[i].bytes], Quote, FlattenSeq([i \in DOMAIN s |-> s[i].means]))
Encoded(s) == [pieces |-> [i \in DOMAIN s |-> JsonEncodeMapping(s[i])], ending |-> Quote,
               bytes |-> jsonEncode(s) \o Quote, means |-> s]
Cut(x, n) == IF n = Len(x.bytes) THEN Flat(<<x.bytes>>, <<>>, Refused)
             ELSE Flat(<<>>, SubSeq(x.bytes, 1, n), Refused)
MCStringTexts ==
  { Whole(s) : s \in UNION { [1..n -> Pieces] : n \in 0..3 } }
  \cup UNION { { Cut(x, n) : n \in 0..Len(x.bytes) } : x \in Pieces }
  \cup { Flat(<<x.bytes>>, b \o Quote, Refused) : x \in Pieces, b \in Broken }
  \cup { Encoded(<<c, d>>) : c \in 0..127, d \in {8, 31, 34, 65, 92} }

-----------------------------------------------------------------------------
(* Numbers, around the int's limit of 127 and the powers of ten's of 30.       *)
MCDigits == {48, 49, 50, 57}
Numeral(t) == [field \in DOMAIN t \cup {"bytes"} |-> IF field = "bytes" THEN Spelt(t) ELSE t[field]]
Powers == { <<>>, Text("0"), Text("2"), Text("31"), Text("999") }
MCNumberTexts ==
  { Numeral([negative |-> neg, whole |-> w, fraction |-> f,
             mark |-> IF neg THEN 69 ELSE 101, sign |-> s, power |-> e, last |-> 44]) :
      neg \in BOOLEAN,
      w \in {<<48>>} \cup { w \in UNION { [1..n -> MCDigits] : n \in 1..3 } : w[1] # 48 },
      f \in { <<>>, <<48>>, <<49, 57>> }, s \in { <<>>, Text("+"), Text("-") }, e \in Powers }

-----------------------------------------------------------------------------
(* Models with members of every kind, nested and null ones among them.         *)
Int8 == [kind |-> "integer", low |-> -128, high |-> 127]
UInt8 == [kind |-> "integer", low |-> 0, high |-> 255]
Child == [kind |-> "model", members |-> << [key |-> <<1>>, type |-> Int8, static |-> TRUE] >>]
Parent ==
  [kind |-> "model", members |->
     << [key |-> <<1>>, type |-> UInt8, static |-> FALSE],
        [key |-> <<2>>, type |-> [kind |-> "collection", of |-> Child], static |-> TRUE],
        [key |-> <<3>>, type |-> [kind |-> "pointer", of |-> Child], static |-> FALSE],
        [key |-> <<4>>, type |-> [kind |-> "bool"], static |-> TRUE],
        [key |-> <<5>>, type |-> [kind |-> "string"], static |-> FALSE] >>]
MCIntegers == {-128, -40, -1, 0, 39, 40, 127}
Children == { <<i>> : i \in MCIntegers }
MCSamples ==
  { <<Parent, <<u, c, q, b, s>>>> :
      u \in {0, 39, 200}, c \in {<<>>} \cup { <<x>> : x \in Children } \cup { <<<<1>>, <<0>>>> },
      q \in {<<>>, <<<<0>>>>, <<<<127>>>>}, b \in BOOLEAN, s \in {<<>>, <<34>>} }
  \cup { <<[kind |-> "collection", of |-> Int8], s>> :
           s \in UNION { [1..n -> MCIntegers] : n \in 0..2 } }

=============================================================================
