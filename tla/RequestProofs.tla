--------------------------- MODULE RequestProofs ---------------------------
(***************************************************************************)
(* A handler sees its request and nothing else, however the packets cut    *)
(* what the client sent: IntactInv is inductive together with PairingInv.  *)
(* So is ClosersInv, and nothing follows the response to a client that     *)
(* asked to close.                                                         *)
(***************************************************************************)
EXTENDS Http11ServerConnectionProofs, Induction

USE DEF clientVars, parseVars, queueVars, replyVars, metricVars, receiveUnchanged,
        callbackUnchanged, enqueueUnchanged, receiverUnchanged, handlerUnchanged

-----------------------------------------------------------------------------
(* Messages of the wire, position by position *)

LEMMA WireTypes ==
    ASSUME NEW w \in Wires
    PROVE  /\ w \in Seq(Token) /\ Len(w) \in Nat /\ DOMAIN w = 1 .. Len(w)
           /\ \A i \in DOMAIN w : i \in Nat /\ i > 0 /\ i <= Len(w) /\ w[i].data \in Data
           /\ WellFormed(w)
  <1>1. w \in Seq(Token) /\ WellFormed(w)
    BY WiresAssumption
  <1>2. \A i \in DOMAIN w : w[i] \in Token
    BY <1>1
  <1> QED
    BY <1>1, <1>2 DEF Token

(* What the wire does not allow, token by token *)
LEMMA WireOrder ==
    ASSUME NEW w \in Wires, NEW i \in DOMAIN w
    PROVE  /\ w[i].on = "body" => w[i].data # ""
           /\ w[i].on = "message_begin" /\ i # 1 => w[i - 1].on = "message_complete"
           /\ i > 1 /\ w[i - 1].on = "message_complete" /\ w[i].on # "bad"
                => w[i].on = "message_begin"
           /\ i = 1 /\ w[i].on # "bad" => w[i].on = "message_begin"
           /\ i > 1 => w[i - 1].on # "bad"
  <1>1. WellFormed(w) /\ DOMAIN w = 1 .. Len(w) /\ Len(w) \in Nat
    BY WireTypes
  <1>2. i > 1 => i - 1 \in DOMAIN w /\ i - 1 # Len(w)
    BY <1>1
  <1> QED
    BY <1>1, <1>2 DEF WellFormed

LEMMA MessagesCount ==
    ASSUME NEW w \in Wires
    PROVE  /\ \A n : Begins(w, n) \subseteq DOMAIN w /\ IsFiniteSet(Begins(w, n))
           /\ \A n : MessageOf(w, n) \in Nat
           /\ MessageOf(w, 0) = 0
           /\ \A i, j \in Nat : i <= j => MessageOf(w, i) <= MessageOf(w, j)
  <1>1. IsFiniteSet(DOMAIN w)
    BY WireTypes, FS_Interval
  <1>2. \A n : Begins(w, n) \in SUBSET DOMAIN w
    BY DEF Begins
  <1>3. \A n : IsFiniteSet(Begins(w, n))
    BY <1>1, <1>2, FS_Subset
  <1>4. \A n : MessageOf(w, n) \in Nat
    BY <1>3, FS_CardinalityType DEF MessageOf
  <1>5. MessageOf(w, 0) = 0
    <2>1. Begins(w, 0) = {}
      BY WireTypes DEF Begins
    <2> QED
      BY <2>1, FS_EmptySet DEF MessageOf
  <1>6. ASSUME NEW i \in Nat, NEW j \in Nat, i <= j PROVE MessageOf(w, i) <= MessageOf(w, j)
    <2>1. Begins(w, i) \in SUBSET Begins(w, j)
      BY <1>6, WireTypes DEF Begins
    <2> QED
      BY <1>3, <2>1, FS_Subset DEF MessageOf
  <1> QED
    BY <1>2, <1>3, <1>4, <1>5, <1>6

LEMMA MessageStep ==
    ASSUME NEW w \in Wires, NEW n \in Nat, n < Len(w)
    PROVE  /\ n + 1 \in DOMAIN w
           /\ MessageOf(w, n + 1) = IF w[n + 1].on = "message_begin" THEN MessageOf(w, n) + 1
                                                                     ELSE MessageOf(w, n)
  <1>1. n + 1 \in DOMAIN w
    BY WireTypes
  <1>2. CASE w[n + 1].on = "message_begin"
    <2>1. Begins(w, n + 1) = Begins(w, n) \cup {n + 1} /\ n + 1 \notin Begins(w, n)
      BY <1>1, <1>2, WireTypes DEF Begins
    <2>2. IsFiniteSet(Begins(w, n))
      BY MessagesCount
    <2>3. Cardinality(Begins(w, n) \cup {n + 1}) = Cardinality(Begins(w, n)) + 1
      BY <2>1, <2>2, FS_AddElement
    <2> QED
      BY <1>1, <1>2, <2>1, <2>3 DEF MessageOf
  <1>3. CASE w[n + 1].on # "message_begin"
    <2>1. Begins(w, n + 1) = Begins(w, n)
      BY <1>1, <1>3, WireTypes DEF Begins
    <2> QED
      BY <1>1, <1>3, <2>1 DEF MessageOf
  <1> QED
    BY <1>2, <1>3

(* The set is one position larger, or the same. *)
Grows(new, old, position, condition) ==
    new = IF condition THEN old \cup {position} ELSE old

LEMMA PositionsTypes ==
    ASSUME NEW w \in Wires, NEW k, NEW callback, NEW n
    PROVE  /\ Positions(w, k, callback, n) \subseteq DOMAIN w
           /\ IsFiniteSet(Positions(w, k, callback, n))
           /\ \A i \in Positions(w, k, callback, n) :
                i \in Nat /\ i <= n /\ i <= Len(w) /\ MessageOf(w, i) = k /\ w[i].on = callback
           /\ HeadPositions(w, k, callback, n) \subseteq Positions(w, k, callback, n)
           /\ HeaderStarts(w, k, n) \subseteq DOMAIN w /\ IsFiniteSet(HeaderStarts(w, k, n))
           /\ Cardinality(HeaderStarts(w, k, n)) \in Nat
  <1>1. IsFiniteSet(DOMAIN w)
    BY WireTypes, FS_Interval
  <1>2. /\ Positions(w, k, callback, n) \in SUBSET DOMAIN w
        /\ HeadPositions(w, k, callback, n) \subseteq Positions(w, k, callback, n)
        /\ \A i \in Positions(w, k, callback, n) :
             i \in Nat /\ i <= n /\ i <= Len(w) /\ MessageOf(w, i) = k /\ w[i].on = callback
    BY WireTypes DEF Positions, HeadPositions
  <1>3. HeaderStarts(w, k, n) \in SUBSET DOMAIN w
    BY DEF HeaderStarts, HeadPositions, Positions
  <1> QED
    BY <1>1, <1>2, <1>3, FS_Subset, FS_CardinalityType

(* Before its first position there is none. *)
LEMMA PositionsNone ==
    ASSUME NEW w \in Wires, NEW n \in Nat, NEW k, MessageOf(w, n) < k, k \in Nat
    PROVE  /\ \A callback : Positions(w, k, callback, n) = {} /\ HeadPositions(w, k, callback, n) = {}
           /\ HeaderStarts(w, k, n) = {}
           /\ \A h, callback : HeaderPositions(w, k, h, callback, n) = {}
  <1>1. \A callback : Positions(w, k, callback, n) = {}
    <2>1. ASSUME NEW i \in DOMAIN w, i <= n PROVE MessageOf(w, i) # k
      BY <2>1, WireTypes, MessagesCount
    <2> QED
      BY <2>1 DEF Positions
  <1>2. \A callback : HeadPositions(w, k, callback, n) = {}
    BY <1>1 DEF HeadPositions
  <1> QED
    BY <1>1, <1>2 DEF HeaderStarts, HeaderPositions

(* One more token: the sets it is in grow, and the others stay. *)
OneMore(w, k, n) ==
    /\ \A callback :
         Grows(Positions(w, k, callback, n + 1), Positions(w, k, callback, n), n + 1,
               MessageOf(w, n + 1) = k /\ w[n + 1].on = callback)
    /\ \A callback :
         Grows(HeadPositions(w, k, callback, n + 1), HeadPositions(w, k, callback, n), n + 1,
               /\ MessageOf(w, n + 1) = k /\ w[n + 1].on = callback
               /\ Positions(w, k, "headers_complete", n + 1) = {})
    /\ Grows(HeaderStarts(w, k, n + 1), HeaderStarts(w, k, n), n + 1,
             /\ MessageOf(w, n + 1) = k /\ w[n + 1].on = "header_field"
             /\ Positions(w, k, "headers_complete", n + 1) = {}
             /\ w[n].on # "header_field")
    /\ \A h, callback :
         Grows(HeaderPositions(w, k, h, callback, n + 1), HeaderPositions(w, k, h, callback, n),
               n + 1,
               /\ MessageOf(w, n + 1) = k /\ w[n + 1].on = callback
               /\ Positions(w, k, "headers_complete", n + 1) = {}
               /\ Cardinality(HeaderStarts(w, k, n + 1)) = h)

LEMMA PositionsStep ==
    ASSUME NEW w \in Wires, NEW n \in Nat, n < Len(w), NEW k
    PROVE  OneMore(w, k, n)
  <1>1. n + 1 \in DOMAIN w /\ \A i \in DOMAIN w : i <= n + 1 <=> i <= n \/ i = n + 1
    BY WireTypes
  <1>2. \A callback : Grows(Positions(w, k, callback, n + 1), Positions(w, k, callback, n), n + 1,
                            MessageOf(w, n + 1) = k /\ w[n + 1].on = callback)
    BY <1>1 DEF Positions, Grows
  <1>3. \A callback :
          Grows(HeadPositions(w, k, callback, n + 1), HeadPositions(w, k, callback, n), n + 1,
                /\ MessageOf(w, n + 1) = k /\ w[n + 1].on = callback
                /\ Positions(w, k, "headers_complete", n + 1) = {})
    <2> TAKE callback
    <2>1. CASE MessageOf(w, n + 1) = k /\ w[n + 1].on = callback
      <3>1. Positions(w, k, callback, n + 1) = Positions(w, k, callback, n) \cup {n + 1}
        BY <1>2, <2>1 DEF Grows
      <3> QED
        BY <2>1, <3>1 DEF HeadPositions, Grows
    <2>2. CASE ~(MessageOf(w, n + 1) = k /\ w[n + 1].on = callback)
      <3>1. Positions(w, k, callback, n + 1) = Positions(w, k, callback, n)
        BY <1>2, <2>2 DEF Grows
      <3> QED
        BY <2>2, <3>1 DEF HeadPositions, Grows
    <2> QED
      BY <2>1, <2>2
  <1>4. Grows(HeaderStarts(w, k, n + 1), HeaderStarts(w, k, n), n + 1,
              /\ MessageOf(w, n + 1) = k /\ w[n + 1].on = "header_field"
              /\ Positions(w, k, "headers_complete", n + 1) = {}
              /\ w[n].on # "header_field")
    <2>1. (n + 1) - 1 = n
      OBVIOUS
    <2>2. Grows(HeadPositions(w, k, "header_field", n + 1), HeadPositions(w, k, "header_field", n), n + 1,
                /\ MessageOf(w, n + 1) = k /\ w[n + 1].on = "header_field"
                /\ Positions(w, k, "headers_complete", n + 1) = {})
      BY <1>3
    <2>3. CASE /\ MessageOf(w, n + 1) = k /\ w[n + 1].on = "header_field"
               /\ Positions(w, k, "headers_complete", n + 1) = {}
      <3>1. HeadPositions(w, k, "header_field", n + 1)
              = HeadPositions(w, k, "header_field", n) \cup {n + 1}
        BY <2>2, <2>3 DEF Grows
      <3> QED
        BY <2>1, <2>3, <3>1 DEF HeaderStarts, Grows
    <2>4. CASE ~(/\ MessageOf(w, n + 1) = k /\ w[n + 1].on = "header_field"
                 /\ Positions(w, k, "headers_complete", n + 1) = {})
      <3>1. HeadPositions(w, k, "header_field", n + 1) = HeadPositions(w, k, "header_field", n)
        BY <2>2, <2>4 DEF Grows
      <3> QED
        BY <2>4, <3>1 DEF HeaderStarts, Grows
    <2> QED
      BY <2>3, <2>4
  <1>5. \A h, callback :
          Grows(HeaderPositions(w, k, h, callback, n + 1), HeaderPositions(w, k, h, callback, n), n + 1,
                /\ MessageOf(w, n + 1) = k /\ w[n + 1].on = callback
                /\ Positions(w, k, "headers_complete", n + 1) = {}
                /\ Cardinality(HeaderStarts(w, k, n + 1)) = h)
    <2> TAKE h, callback
    <2>1. CASE /\ MessageOf(w, n + 1) = k /\ w[n + 1].on = callback
               /\ Positions(w, k, "headers_complete", n + 1) = {}
      <3>1. HeadPositions(w, k, callback, n + 1) = HeadPositions(w, k, callback, n) \cup {n + 1}
        BY <1>3, <2>1 DEF Grows
      <3> QED
        BY <2>1, <3>1 DEF HeaderPositions, Grows
    <2>2. CASE ~(/\ MessageOf(w, n + 1) = k /\ w[n + 1].on = callback
                 /\ Positions(w, k, "headers_complete", n + 1) = {})
      <3>1. HeadPositions(w, k, callback, n + 1) = HeadPositions(w, k, callback, n)
        BY <1>3, <2>2 DEF Grows
      <3> QED
        BY <2>2, <3>1 DEF HeaderPositions, Grows
    <2> QED
      BY <2>1, <2>2
  <1> QED
    BY <1>2, <1>3, <1>4, <1>5 DEF OneMore

-----------------------------------------------------------------------------
(* Pieces collected in order *)

LEMMA PiecesNone == ASSUME NEW w PROVE PiecesAt(w, <<>>, {})
  <1>1. [i \in DOMAIN <<>> |-> 0] \in [DOMAIN <<>> -> {}]
    OBVIOUS
  <1> QED
    BY <1>1 DEF PiecesAt

(* One more piece, from behind all the others *)
LEMMA PiecesAppend ==
    ASSUME NEW w, NEW pieces \in Pieces, NEW S \in SUBSET Nat, PiecesAt(w, pieces, S),
           NEW n \in Nat, \A p \in S : p < n, w[n].data \in Data
    PROVE  PiecesAt(w, Append(pieces, w[n].data), S \cup {n})
  <1>1. PICK place \in [DOMAIN pieces -> S] :
             /\ \A i, j \in DOMAIN pieces : i < j => place[i] < place[j]
             /\ \A i \in DOMAIN pieces : pieces[i] = w[place[i]].data
             /\ \A p \in S : \E i \in DOMAIN pieces : place[i] = p
    BY DEF PiecesAt
  <1>2. PICK more : more = Append(pieces, w[n].data)
    OBVIOUS
  <1>3. /\ Len(pieces) \in Nat /\ DOMAIN pieces = 1 .. Len(pieces)
        /\ DOMAIN more = DOMAIN pieces \cup {Len(pieces) + 1}
        /\ \A i \in DOMAIN pieces : more[i] = pieces[i] /\ i \in Nat /\ i <= Len(pieces)
        /\ more[Len(pieces) + 1] = w[n].data
    BY <1>2 DEF Pieces
  <1>4. PICK longer : longer = [i \in DOMAIN more |-> IF i \in DOMAIN pieces THEN place[i] ELSE n]
    OBVIOUS
  <1>5. longer \in [DOMAIN more -> S \cup {n}]
    BY <1>4
  <1>6. /\ \A i \in DOMAIN pieces : longer[i] = place[i] /\ place[i] \in S
        /\ longer[Len(pieces) + 1] = n
    BY <1>3, <1>4
  <1>7. ASSUME NEW i \in DOMAIN more, NEW j \in DOMAIN more, i < j PROVE longer[i] < longer[j]
    <2>1. i \in DOMAIN pieces
      BY <1>3, <1>7
    <2>2. CASE j \in DOMAIN pieces
      BY <1>1, <1>6, <1>7, <2>1, <2>2
    <2>3. CASE j = Len(pieces) + 1
      BY <1>6, <2>1, <2>3
    <2> QED
      BY <1>3, <2>2, <2>3
  <1>8. \A i \in DOMAIN more : more[i] = w[longer[i]].data
    BY <1>1, <1>3, <1>6
  <1>9. \A p \in S \cup {n} : \E i \in DOMAIN more : longer[i] = p
    <2>1. ASSUME NEW p \in S PROVE \E i \in DOMAIN more : longer[i] = p
      <3>1. PICK i \in DOMAIN pieces : place[i] = p
        BY <1>1
      <3>2. i \in DOMAIN more /\ longer[i] = p
        BY <1>3, <1>6, <3>1
      <3> QED
        BY <3>2
    <2>2. \E i \in DOMAIN more : longer[i] = n
      <3>1. Len(pieces) + 1 \in DOMAIN more
        BY <1>3
      <3> QED
        BY <1>6, <3>1
    <2> QED
      BY <2>1, <2>2
  <1>10. PiecesAt(w, more, S \cup {n})
    BY <1>5, <1>7, <1>8, <1>9 DEF PiecesAt
  <1> QED
    BY <1>2, <1>10

(* Two ways to go through the same positions in order agree as far as the  *)
(* first one goes.                                                         *)
LEMMA PlacesAgree ==
    ASSUME NEW S \in SUBSET Nat, NEW m \in Nat, NEW n \in Nat,
           NEW one \in [1 .. m -> S], NEW two \in [1 .. n -> S],
           \A i, j \in 1 .. m : i < j => one[i] < one[j],
           \A i, j \in 1 .. n : i < j => two[i] < two[j],
           \A p \in S : \E i \in 1 .. m : one[i] = p,
           \A p \in S : \E i \in 1 .. n : two[i] = p
    PROVE  m <= n /\ \A i \in 1 .. m : one[i] = two[i]
  <1>1. PICK Bad : Bad = {i \in 1 .. m : ~(i \in 1 .. n /\ one[i] = two[i])}
    OBVIOUS
  <1>2. ASSUME Bad # {} PROVE FALSE
    <2>1. Bad \in SUBSET Nat
      BY <1>1
    <2>2. PICK k \in Bad : \A y \in Bad : k <= y
      BY <1>2, <2>1, Smallest
    <2>3. k \in 1 .. m /\ ~(k \in 1 .. n /\ one[k] = two[k])
      BY <1>1
    <2>4. \A i \in 1 .. m : i < k => i \in 1 .. n /\ one[i] = two[i]
      BY <1>1, <2>2, <2>3
    <2>5. PICK j \in 1 .. n : two[j] = one[k]
      BY <2>3
    <2>6. ~(j < k)
      <3>1. j < k => j \in 1 .. m /\ one[j] = two[j] /\ one[j] < one[k]
        BY <2>3, <2>4
      <3>2. one[k] \in Nat
        BY <2>3
      <3> QED
        BY <2>5, <3>1, <3>2
    <2>7. k \in 1 .. n /\ k < j /\ two[k] < one[k]
      BY <2>3, <2>5, <2>6
    <2>8. PICK i \in 1 .. m : one[i] = two[k]
      BY <2>7
    <2>9. i < k
      <3>1. k < i => one[k] < one[i]
        BY <2>3
      <3>2. one[k] \in Nat /\ one[i] \in Nat
        BY <2>3
      <3> QED
        BY <2>3, <2>7, <2>8, <3>1, <3>2
    <2>10. two[i] < two[k] /\ two[i] = two[k] /\ two[k] \in Nat
      BY <2>4, <2>7, <2>8, <2>9
    <2> QED
      BY <2>10
  <1>3. \A i \in 1 .. m : i \in 1 .. n /\ one[i] = two[i]
    BY <1>1, <1>2
  <1> QED
    BY <1>3

(* The data at given positions are the same pieces in the same order,      *)
(* however they are enumerated.                                            *)
LEMMA PiecesUnique ==
    ASSUME NEW w, NEW S \in SUBSET Nat, NEW one \in Pieces, NEW two \in Pieces,
           PiecesAt(w, one, S), PiecesAt(w, two, S)
    PROVE  one = two
  <1>1. /\ DOMAIN one = 1 .. Len(one) /\ Len(one) \in Nat
        /\ DOMAIN two = 1 .. Len(two) /\ Len(two) \in Nat
    BY DEF Pieces
  <1>2. PICK f \in [DOMAIN one -> S] :
             /\ \A i, j \in DOMAIN one : i < j => f[i] < f[j]
             /\ \A i \in DOMAIN one : one[i] = w[f[i]].data
             /\ \A p \in S : \E i \in DOMAIN one : f[i] = p
    BY Zenon DEF PiecesAt
  <1>3. PICK g \in [DOMAIN two -> S] :
             /\ \A i, j \in DOMAIN two : i < j => g[i] < g[j]
             /\ \A i \in DOMAIN two : two[i] = w[g[i]].data
             /\ \A p \in S : \E i \in DOMAIN two : g[i] = p
    BY Zenon DEF PiecesAt
  <1> DEFINE m == Len(one)
             n == Len(two)
  <1>a. /\ f \in [1 .. m -> S] /\ m \in Nat
        /\ \A i, j \in 1 .. m : i < j => f[i] < f[j]
        /\ \A p \in S : \E i \in 1 .. m : f[i] = p
    BY <1>1, <1>2
  <1>b. /\ g \in [1 .. n -> S] /\ n \in Nat
        /\ \A i, j \in 1 .. n : i < j => g[i] < g[j]
        /\ \A p \in S : \E i \in 1 .. n : g[i] = p
    BY <1>1, <1>3
  <1> HIDE DEF m, n
  <1>4. m <= n /\ \A i \in 1 .. m : f[i] = g[i]
    BY <1>a, <1>b, PlacesAgree, SMTT(60)
  <1>5. n <= m
    BY <1>a, <1>b, PlacesAgree, SMTT(60)
  <1>6. m = n
    BY <1>a, <1>b, <1>4, <1>5
  <1>7. \A i \in 1 .. m : one[i] = two[i]
    BY <1>1, <1>2, <1>3, <1>4, <1>6 DEF m, n
  <1>8. one \in Seq(Data) /\ two \in Seq(Data)
    BY DEF Pieces
  <1> QED
    BY <1>6, <1>7, <1>8, SeqEqual DEF m, n

(* What was collected at the positions spells a text when they do.         *)
LEMMA SpeltPieces ==
    ASSUME NEW w, NEW S \in SUBSET Nat, NEW pieces \in Pieces, PiecesAt(w, pieces, S),
           NEW texts \in SUBSET Pieces
    PROVE  Spelt(w, texts, S) <=> pieces \in texts
  BY PiecesUnique DEF Spelt

-----------------------------------------------------------------------------
(* The head of a message, callback by callback *)

(* A token of message k among those of its head *)
InHeadOf(w, k, n) ==
    /\ n \in Nat /\ n < Len(w) /\ MessageOf(w, n + 1) = k
    /\ Positions(w, k, "headers_complete", n + 1) = {}

(* The data at the next position, behind those of a set before it *)
LEMMA NextPiece ==
    ASSUME NEW w \in Wires, NEW n \in Nat, n < Len(w), NEW pieces \in Pieces,
           NEW S, \A p \in S : p \in Nat /\ p <= n, PiecesAt(w, pieces, S)
    PROVE  PiecesAt(w, Append(pieces, w[n + 1].data), S \cup {n + 1})
  <1>1. n + 1 \in Nat /\ w[n + 1].data \in Data
    BY WireTypes
  <1>2. S \in SUBSET Nat /\ \A p \in S : p < n + 1
    OBVIOUS
  <1> QED
    BY <1>1, <1>2, PiecesAppend

LEMMA FirstPiece ==
    ASSUME NEW w \in Wires, NEW n \in Nat, n < Len(w)
    PROVE  PiecesAt(w, <<w[n + 1].data>>, {n + 1})
  <1>1. <<>> \in Pieces /\ {} \cup {n + 1} = {n + 1}
        /\ Append(<<>>, w[n + 1].data) = <<w[n + 1].data>>
    BY DEF Pieces
  <1>2. PiecesAt(w, Append(<<>>, w[n + 1].data), {} \cup {n + 1})
    BY <1>1, PiecesNone, NextPiece
  <1> QED
    BY <1>1, <1>2

LEMMA HeaderPositionsTypes ==
    ASSUME NEW w \in Wires, NEW k, NEW h, NEW callback, NEW n
    PROVE  /\ \A p \in HeadPositions(w, k, callback, n) : p \in Nat /\ p <= n
           /\ \A p \in HeaderPositions(w, k, h, callback, n) : p \in Nat /\ p <= n
  BY PositionsTypes DEF HeaderPositions

(* The headers that a message has shown are numbered up to their number. *)
LEMMA HeaderNumbers ==
    ASSUME NEW w \in Wires, NEW k, NEW n \in Nat, NEW h \in Nat,
           h > Cardinality(HeaderStarts(w, k, n))
    PROVE  \A callback : HeaderPositions(w, k, h, callback, n) = {}
  <1>1. ASSUME NEW p \in Nat, p <= n
        PROVE  Cardinality(HeaderStarts(w, k, p)) # h
    <2>1. HeaderStarts(w, k, p) \in SUBSET HeaderStarts(w, k, n)
      <3>1. HeadPositions(w, k, "header_field", p) \subseteq HeadPositions(w, k, "header_field", n)
        BY <1>1, WireTypes DEF HeadPositions, Positions
      <3> QED
        BY <3>1 DEF HeaderStarts
    <2>2. Cardinality(HeaderStarts(w, k, p)) <= Cardinality(HeaderStarts(w, k, n))
      BY <2>1, PositionsTypes, FS_Subset
    <2>3. Cardinality(HeaderStarts(w, k, p)) \in Nat /\ Cardinality(HeaderStarts(w, k, n)) \in Nat
      BY PositionsTypes
    <2> QED
      BY <2>2, <2>3
  <1> QED
    BY <1>1, HeaderPositionsTypes DEF HeaderPositions

(* The first token shows nothing of the head. *)
LEMMA SentBegin ==
    ASSUME NEW w \in Wires, NEW n \in Nat, n < Len(w), w[n + 1].on = "message_begin",
           NEW k, k = MessageOf(w, n) + 1
    PROVE  /\ MessageOf(w, n + 1) = k /\ RequestSent(w, NoRequest, k, n + 1)
           /\ Positions(w, k, "headers_complete", n + 1) = {}
           /\ Positions(w, k, "body", n + 1) = {} /\ Positions(w, k, "body", n) = {}
  <1>1. MessageOf(w, n + 1) = k /\ MessageOf(w, n) \in Nat
    BY MessageStep, MessagesCount
  <1>2. /\ \A callback : Positions(w, k, callback, n) = {} /\ HeadPositions(w, k, callback, n) = {}
        /\ HeaderStarts(w, k, n) = {}
    <2>1. MessageOf(w, n) < k /\ k \in Nat
      BY <1>1
    <2> QED
      BY <2>1, PositionsNone
  <1>s. OneMore(w, k, n)
    BY PositionsStep
  <1>3. \A callback : callback # "message_begin" =>
          Positions(w, k, callback, n + 1) = {} /\ HeadPositions(w, k, callback, n + 1) = {}
    <2> TAKE callback
    <2> HAVE callback # "message_begin"
    <2>1. Grows(Positions(w, k, callback, n + 1), {}, n + 1,
                MessageOf(w, n + 1) = k /\ w[n + 1].on = callback)
      BY <1>2, <1>s DEF OneMore
    <2>2. HeadPositions(w, k, callback, n + 1) \subseteq Positions(w, k, callback, n + 1)
      BY PositionsTypes
    <2> QED
      BY <2>1, <2>2 DEF Grows
  <1>4. RequestSent(w, NoRequest, k, n + 1)
    <2>1. HeadPositions(w, k, "url", n + 1) = {} /\ HeadPositions(w, k, "header_field", n + 1) = {}
      BY <1>3
    <2>2. HeaderStarts(w, k, n + 1) = {}
      BY <2>1 DEF HeaderStarts
    <2>3. NoRequest.url = <<>> /\ Len(NoRequest.headers) = 0 /\ DOMAIN NoRequest.headers = {}
      BY DEF NoRequest
    <2> QED
      BY <2>1, <2>2, <2>3, PiecesNone, FS_EmptySet DEF RequestSent
  <1> QED
    BY <1>1, <1>2, <1>3, <1>4

LEMMA SentUrl ==
    ASSUME NEW w \in Wires, NEW k, NEW n, InHeadOf(w, k, n), w[n + 1].on = "url",
           NEW url \in Pieces, NEW headers, RequestSent(w, [url |-> url, headers |-> headers], k, n)
    PROVE  RequestSent(w, [url |-> Append(url, w[n + 1].data), headers |-> headers], k, n + 1)
  <1>0. n \in Nat /\ n < Len(w) /\ MessageOf(w, n + 1) = k
        /\ Positions(w, k, "headers_complete", n + 1) = {}
    BY DEF InHeadOf
  <1>s. OneMore(w, k, n)
    BY <1>0, PositionsStep
  <1>1. HeadPositions(w, k, "url", n + 1) = HeadPositions(w, k, "url", n) \cup {n + 1}
    BY <1>0, <1>s DEF Grows, OneMore
  <1>2. HeaderStarts(w, k, n + 1) = HeaderStarts(w, k, n)
    BY <1>0, <1>s DEF Grows, OneMore
  <1>3. \A h, callback : callback # "url" =>
          HeaderPositions(w, k, h, callback, n + 1) = HeaderPositions(w, k, h, callback, n)
    BY <1>0, <1>s DEF Grows, OneMore
  <1>4. PiecesAt(w, url, HeadPositions(w, k, "url", n))
    BY DEF RequestSent
  <1>5. PiecesAt(w, Append(url, w[n + 1].data), HeadPositions(w, k, "url", n) \cup {n + 1})
    BY <1>0, <1>4, NextPiece, HeaderPositionsTypes
  <1>6. \A h \in DOMAIN headers : HeaderSent(w, headers[h], k, h, n + 1)
    BY <1>3 DEF RequestSent, HeaderSent
  <1> QED
    BY <1>1, <1>2, <1>5, <1>6 DEF RequestSent

(* A field after a value, or after the url, starts a header. *)
LEMMA SentHeader ==
    ASSUME NEW w \in Wires, NEW k, NEW n, InHeadOf(w, k, n), w[n + 1].on = "header_field",
           w[n].on # "header_field", NEW request \in Request, RequestSent(w, request, k, n)
    PROVE  RequestSent(w, [url |-> request.url,
                        headers |-> Append(request.headers,
                          [field |-> <<w[n + 1].data>>, value |-> <<>>])], k, n + 1)
  <1>0. n \in Nat /\ n < Len(w) /\ MessageOf(w, n + 1) = k
        /\ Positions(w, k, "headers_complete", n + 1) = {}
    BY DEF InHeadOf
  <1>s. OneMore(w, k, n)
    BY <1>0, PositionsStep
  <1>1. HeadPositions(w, k, "url", n + 1) = HeadPositions(w, k, "url", n)
    BY <1>0, <1>s DEF Grows, OneMore
  <1>2. HeaderStarts(w, k, n + 1) = HeaderStarts(w, k, n) \cup {n + 1}
    BY <1>0, <1>s DEF Grows, OneMore
  <1>3. PICK H : H = Cardinality(HeaderStarts(w, k, n))
    OBVIOUS
  <1>4. H \in Nat /\ Cardinality(HeaderStarts(w, k, n + 1)) = H + 1
    <2>1. IsFiniteSet(HeaderStarts(w, k, n)) /\ H \in Nat
      BY <1>3, PositionsTypes
    <2>2. n + 1 \notin HeaderStarts(w, k, n)
      <3>1. \A p \in HeadPositions(w, k, "header_field", n) : p \in Nat /\ p <= n
        BY HeaderPositionsTypes
      <3> QED
        BY <1>0, <3>1 DEF HeaderStarts
    <2> QED
      BY <1>2, <1>3, <2>1, <2>2, FS_AddElement
  <1>5. PICK headers : headers = Append(request.headers,
                                   [field |-> <<w[n + 1].data>>, value |-> <<>>])
    OBVIOUS
  <1>6. /\ Len(request.headers) = H /\ Len(headers) = H + 1
        /\ DOMAIN headers = 1 .. H + 1 /\ DOMAIN request.headers = 1 .. H
        /\ \A h \in 1 .. H : headers[h] = request.headers[h]
        /\ headers[H + 1] = [field |-> <<w[n + 1].data>>, value |-> <<>>]
    BY <1>3, <1>4, <1>5 DEF RequestSent, Request
  <1>7. ASSUME NEW h \in 1 .. H PROVE HeaderSent(w, headers[h], k, h, n + 1)
    <2>1. h # H + 1
      BY <1>4
    <2>2. \A callback : HeaderPositions(w, k, h, callback, n + 1) = HeaderPositions(w, k, h, callback, n)
      BY <1>0, <1>4, <2>1, <1>s DEF Grows, OneMore
    <2> QED
      BY <1>6, <2>2 DEF RequestSent, HeaderSent
  <1>8. HeaderSent(w, headers[H + 1], k, H + 1, n + 1)
    <2>1. \A callback : HeaderPositions(w, k, H + 1, callback, n) = {}
      <3>1. H + 1 \in Nat /\ H + 1 > Cardinality(HeaderStarts(w, k, n))
        BY <1>3, <1>4
      <3> QED
        BY <1>0, <3>1, HeaderNumbers
    <2>2. \A callback :
            Grows(HeaderPositions(w, k, H + 1, callback, n + 1), {}, n + 1,
                  /\ MessageOf(w, n + 1) = k /\ w[n + 1].on = callback
                  /\ Positions(w, k, "headers_complete", n + 1) = {}
                  /\ Cardinality(HeaderStarts(w, k, n + 1)) = H + 1)
      <3> TAKE callback
      <3>1. HeaderPositions(w, k, H + 1, callback, n) = {}
        BY <2>1
      <3> QED
        BY <1>0, <3>1, <1>s DEF OneMore
    <2>3. HeaderPositions(w, k, H + 1, "header_field", n + 1) = {} \cup {n + 1}
      BY <1>0, <1>4, <2>2 DEF Grows
    <2>4. HeaderPositions(w, k, H + 1, "header_value", n + 1) = {}
      BY <2>2 DEF Grows
    <2>5. PiecesAt(w, <<w[n + 1].data>>, {n + 1}) /\ {} \cup {n + 1} = {n + 1}
      BY <1>0, FirstPiece
    <2>6. headers[H + 1].field = <<w[n + 1].data>> /\ headers[H + 1].value = <<>>
      BY <1>6
    <2> QED
      BY <2>3, <2>4, <2>5, <2>6, PiecesNone DEF HeaderSent
  <1>9. \A h \in DOMAIN headers : HeaderSent(w, headers[h], k, h, n + 1)
    BY <1>4, <1>6, <1>7, <1>8
  <1> QED
    BY <1>1, <1>4, <1>5, <1>6, <1>9 DEF RequestSent

(* A field after a field, or a value, continues the last header. *)
LEMMA SentHeaderPiece ==
    ASSUME NEW w \in Wires, NEW k, NEW n, InHeadOf(w, k, n),
           w[n + 1].on \in {"header_field", "header_value"},
           w[n + 1].on = "header_field" => w[n].on = "header_field",
           NEW request \in Request, NEW field \in Pieces, NEW value \in Pieces,
           RequestSent(w, [url |-> request.url,
                        headers |-> Append(request.headers,
                                           [field |-> field, value |-> value])], k, n),
           NEW longerField, NEW longerValue,
           longerField = IF w[n + 1].on = "header_field" THEN Append(field, w[n + 1].data)
                                                            ELSE field,
           longerValue = IF w[n + 1].on = "header_value" THEN Append(value, w[n + 1].data)
                                                            ELSE value
    PROVE  RequestSent(w, [url |-> request.url,
                        headers |-> Append(request.headers,
                          [field |-> longerField, value |-> longerValue])], k, n + 1)
  <1>0. n \in Nat /\ n < Len(w) /\ MessageOf(w, n + 1) = k
        /\ Positions(w, k, "headers_complete", n + 1) = {}
    BY DEF InHeadOf
  <1>s. OneMore(w, k, n)
    BY <1>0, PositionsStep
  <1>1. HeadPositions(w, k, "url", n + 1) = HeadPositions(w, k, "url", n)
    BY <1>0, <1>s DEF Grows, OneMore
  <1>2. HeaderStarts(w, k, n + 1) = HeaderStarts(w, k, n)
    BY <1>0, <1>s DEF Grows, OneMore
  <1>3. PICK old : old = Append(request.headers, [field |-> field, value |-> value])
    OBVIOUS
  <1>4. PICK new : new = Append(request.headers, [field |-> longerField, value |-> longerValue])
    OBVIOUS
  <1>5. PICK H : H = Len(request.headers) + 1
    OBVIOUS
  <1>6. /\ H \in Nat /\ Len(old) = H /\ Len(new) = H /\ DOMAIN old = 1 .. H /\ DOMAIN new = 1 .. H
        /\ \A h \in 1 .. H : h # H => new[h] = old[h]
        /\ old[H] = [field |-> field, value |-> value]
        /\ new[H] = [field |-> longerField, value |-> longerValue]
    BY <1>3, <1>4, <1>5 DEF Request
  <1>7. /\ Cardinality(HeaderStarts(w, k, n + 1)) = H
        /\ PiecesAt(w, request.url, HeadPositions(w, k, "url", n + 1))
        /\ \A h \in 1 .. H : HeaderSent(w, old[h], k, h, n)
    BY <1>1, <1>2, <1>3, <1>6 DEF RequestSent
  <1>8. \A h, callback :
          Grows(HeaderPositions(w, k, h, callback, n + 1), HeaderPositions(w, k, h, callback, n), n + 1,
                w[n + 1].on = callback /\ h = H)
    <2> TAKE h, callback
    <2>1. Grows(HeaderPositions(w, k, h, callback, n + 1), HeaderPositions(w, k, h, callback, n), n + 1,
                /\ MessageOf(w, n + 1) = k /\ w[n + 1].on = callback
                /\ Positions(w, k, "headers_complete", n + 1) = {}
                /\ Cardinality(HeaderStarts(w, k, n + 1)) = h)
      BY <1>0, <1>s DEF OneMore
    <2> QED
      BY <1>0, <1>7, <2>1 DEF Grows
  <1>9. ASSUME NEW h \in 1 .. H PROVE HeaderSent(w, new[h], k, h, n + 1)
    <2>1. CASE h # H
      <3>1. \A callback : HeaderPositions(w, k, h, callback, n + 1) = HeaderPositions(w, k, h, callback, n)
        BY <1>8, <2>1 DEF Grows
      <3> QED
        BY <1>6, <1>7, <2>1, <3>1 DEF HeaderSent
    <2>2. CASE h = H
      <3>1. /\ PiecesAt(w, field, HeaderPositions(w, k, H, "header_field", n))
            /\ PiecesAt(w, value, HeaderPositions(w, k, H, "header_value", n))
        BY <1>6, <1>7, <2>2 DEF HeaderSent
      <3>2. PiecesAt(w, longerField, HeaderPositions(w, k, H, "header_field", n + 1))
        <4>1. CASE w[n + 1].on = "header_field"
          <5>1. HeaderPositions(w, k, H, "header_field", n + 1)
                  = HeaderPositions(w, k, H, "header_field", n) \cup {n + 1}
            BY <1>8, <4>1 DEF Grows
          <5>2. PiecesAt(w, Append(field, w[n + 1].data),
                         HeaderPositions(w, k, H, "header_field", n) \cup {n + 1})
            BY <1>0, <3>1, NextPiece, HeaderPositionsTypes
          <5> QED
            BY <4>1, <5>1, <5>2
        <4>2. CASE w[n + 1].on # "header_field"
          <5>1. HeaderPositions(w, k, H, "header_field", n + 1) = HeaderPositions(w, k, H, "header_field", n)
            BY <1>8, <4>2 DEF Grows
          <5> QED
            BY <3>1, <4>2, <5>1
        <4> QED
          BY <4>1, <4>2
      <3>3. PiecesAt(w, longerValue, HeaderPositions(w, k, H, "header_value", n + 1))
        <4>1. CASE w[n + 1].on = "header_value"
          <5>1. HeaderPositions(w, k, H, "header_value", n + 1)
                  = HeaderPositions(w, k, H, "header_value", n) \cup {n + 1}
            BY <1>8, <4>1 DEF Grows
          <5>2. PiecesAt(w, Append(value, w[n + 1].data),
                         HeaderPositions(w, k, H, "header_value", n) \cup {n + 1})
            BY <1>0, <3>1, NextPiece, HeaderPositionsTypes
          <5> QED
            BY <4>1, <5>1, <5>2
        <4>2. CASE w[n + 1].on # "header_value"
          <5>1. HeaderPositions(w, k, H, "header_value", n + 1) = HeaderPositions(w, k, H, "header_value", n)
            BY <1>8, <4>2 DEF Grows
          <5> QED
            BY <3>1, <4>2, <5>1
        <4> QED
          BY <4>1, <4>2
      <3>4. new[H].field = longerField /\ new[H].value = longerValue
        BY <1>6
      <3>5. HeaderSent(w, new[H], k, H, n + 1)
        BY <3>2, <3>3, <3>4 DEF HeaderSent
      <3> QED
        BY <2>2, <3>5
    <2> QED
      BY <2>1, <2>2
  <1>10. \A h \in DOMAIN new : HeaderSent(w, new[h], k, h, n + 1)
    BY <1>6, <1>9
  <1> QED
    BY <1>4, <1>6, <1>7, <1>10 DEF RequestSent

(* Once its headers are complete, the head of a message is all of it. *)
LEMMA SentHead ==
    ASSUME NEW w \in Wires, NEW n \in Nat, n < Len(w),
           w[n + 1].on = "headers_complete", NEW k, MessageOf(w, n + 1) = k,
           Positions(w, k, "headers_complete", n) = {}, NEW request, RequestSent(w, request, k, n)
    PROVE  /\ RequestSent(w, request, k, Len(w))
           /\ Positions(w, k, "headers_complete", n + 1) # {}
  <1>1. n + 1 \in DOMAIN w /\ Len(w) \in Nat
    BY MessageStep, WireTypes
  <1>2. \A p \in Nat : p > n => n + 1 \in Positions(w, k, "headers_complete", p)
    BY <1>1 DEF Positions
  <1>3. \A callback : HeadPositions(w, k, callback, Len(w)) = HeadPositions(w, k, callback, n)
    <2> TAKE callback
    <2>1. ASSUME NEW p \in HeadPositions(w, k, callback, Len(w)) PROVE p \in HeadPositions(w, k, callback, n)
      <3>1. p \in Nat /\ p \in DOMAIN w /\ Positions(w, k, "headers_complete", p) = {}
            /\ p \in Positions(w, k, callback, Len(w))
        BY PositionsTypes DEF HeadPositions
      <3>2. p <= n
        BY <1>2, <3>1
      <3> QED
        BY <3>1, <3>2 DEF HeadPositions, Positions
    <2>2. ASSUME NEW p \in HeadPositions(w, k, callback, n) PROVE p \in HeadPositions(w, k, callback, Len(w))
      BY <1>1, WireTypes DEF HeadPositions, Positions
    <2> QED
      BY <2>1, <2>2
  <1>4. HeaderStarts(w, k, Len(w)) = HeaderStarts(w, k, n)
    BY <1>3 DEF HeaderStarts
  <1>5. \A h, callback :
          HeaderPositions(w, k, h, callback, Len(w)) = HeaderPositions(w, k, h, callback, n)
    BY <1>3 DEF HeaderPositions
  <1>6. RequestSent(w, request, k, Len(w))
    BY <1>3, <1>4, <1>5 DEF RequestSent, HeaderSent
  <1>7. n + 1 \in Positions(w, k, "headers_complete", n + 1)
    BY <1>2
  <1> QED
    BY <1>6, <1>7

(* Nothing of a message follows its end. *)
LEMMA SentAll ==
    ASSUME NEW w \in Wires, NEW n \in DOMAIN w, w[n].on = "message_complete",
           NEW k, MessageOf(w, n) = k
    PROVE  Positions(w, k, "body", Len(w)) = Positions(w, k, "body", n)
  <1>1. Len(w) \in Nat /\ n \in Nat /\ n <= Len(w) /\ DOMAIN w = 1 .. Len(w)
    BY WireTypes
  <1>2. ASSUME NEW p \in Positions(w, k, "body", Len(w)), p > n PROVE FALSE
    <2>1. p \in DOMAIN w /\ w[p].on = "body" /\ MessageOf(w, p) = k /\ p \in Nat
      BY PositionsTypes
    <2>2. n + 1 \in DOMAIN w /\ n + 1 <= p /\ n < Len(w)
      BY <1>1, <1>2, <2>1
    <2>3. p = n + 1 => w[n + 1].on # "bad"
      BY <2>1
    <2>4. p # n + 1 => w[n + 1].on # "bad"
      <3> SUFFICES ASSUME p # n + 1 PROVE w[n + 1].on # "bad"
        OBVIOUS
      <3>1. PICK i : i = n + 2
        OBVIOUS
      <3>2. i \in DOMAIN w /\ i > 1 /\ i - 1 = n + 1
        BY <1>1, <2>1, <2>2, <3>1
      <3>3. w[i - 1].on # "bad"
        BY <3>2, WireOrder
      <3> QED
        BY <3>2, <3>3
    <2>5. w[n + 1].on = "message_begin"
      <3>1. PICK i : i = n + 1
        OBVIOUS
      <3>2. i \in DOMAIN w /\ i > 1 /\ i - 1 = n /\ w[i].on # "bad"
        BY <1>1, <2>2, <2>3, <2>4, <3>1
      <3>3. w[i - 1].on = "message_complete"
        BY <3>2
      <3>4. WellFormed(w)
        BY WireTypes
      <3>5. w[i].on = "message_begin"
        BY <3>2, <3>3, <3>4 DEF WellFormed
      <3> QED
        BY <3>1, <3>5
    <2>6. MessageOf(w, n + 1) = k + 1 /\ k \in Nat
      BY <1>1, <2>2, <2>5, MessageStep, MessagesCount
    <2>7. MessageOf(w, n + 1) <= MessageOf(w, p)
      BY <1>1, <2>1, <2>2, MessagesCount
    <2> QED
      BY <2>1, <2>6, <2>7
  <1>3. ASSUME NEW p \in Positions(w, k, "body", Len(w)) PROVE p \in Positions(w, k, "body", n)
    <2>1. p \in Nat
      BY PositionsTypes
    <2>2. p <= n
      BY <1>1, <1>2, <2>1
    <2> QED
      BY <2>2 DEF Positions
  <1>4. Positions(w, k, "body", n) \subseteq Positions(w, k, "body", Len(w))
    BY <1>1, WireTypes DEF Positions
  <1> QED
    BY <1>3, <1>4

-----------------------------------------------------------------------------
(* The parts of the invariant that a step leaves alone *)

LEMMA SentNeverChanges == ASSUME [Next]_vars PROVE sent' = sent
  BY DEF Next, vars, Start, Stop, TimerTick, Close, PeerCloses, ReadResolves, ReceiveStep,
         ReceiveFails, ReceiveEnds, ReceivePacket, ParserRejects, on_message_begin, on_url,
         on_header_field, on_header_value, on_headers_complete, on_body, on_message_complete,
         Accept, Refuse, RefuseData, ParseReturns, EnqueueBodyBuffer, PushBody,
         EnqueueAndContinue, PushRequest, ReplyStep, PopRequest, PopAborted, HandlerStep,
         HandlerReads, ReadResumes, TakeBody, ReadAborted, Reply500, HandlerWrites,
         HandlerThrows, HandlerReturns, WriteStep, WriteResolves, Write500Resolves,
         FlushResolves, ErrorResponseResolves, Closed

LEMMA RequestsKept ==
    ASSUME RequestsSent, sent' = sent, requestQueue' \in {requestQueue, <<>>},
           recv' = "pushRequest" => recv = "pushRequest" /\ pushing' = pushing,
           Handling' => /\ Handling /\ tx'.requestId = tx.requestId
                        /\ context'.request = context.request
    PROVE  RequestsSent'
  BY DEF RequestsSent

LEMMA DeliveredKept ==
    ASSUME sent' = sent, NEW c, DeliveredInv(c),
           Handling' => /\ Handling /\ tx'.requestId = tx.requestId /\ delivered' = delivered
                        /\ tx'.requestBodyConsumed = tx.requestBodyConsumed
    PROVE  DeliveredInv(c)'
  BY DEF DeliveredInv

(* Nothing more is to be said once the queues are aborted. *)
LEMMA IntactAborted ==
    ASSUME IntactInv, sent' = sent, aborted', RequestsSent',
           Handling' => /\ Handling /\ tx'.requestId = tx.requestId /\ delivered' = delivered
                        /\ tx'.requestBodyConsumed = tx.requestBodyConsumed
    PROVE  IntactInv'
  <1>1. PICK c \in 0 .. Len(sent) : DeliveredInv(c)
    BY DEF IntactInv
  <1>2. DeliveredInv(c)'
    BY <1>1, DeliveredKept
  <1>3. c \in 0 .. Len(sent')
    BY <1>1
  <1> QED
    BY <1>2, <1>3 DEF IntactInv

(* A step of the receive loop, or of its input, leaves the handler alone. *)
LEMMA IntactReceiving ==
    ASSUME IntactInv, sent' = sent, ~aborted, ~aborted', UNCHANGED replyVars, RequestsSent',
           LoopInv', \A c \in 0 .. Len(sent) : ReceivedInv(c) => ReceivedInv(c)'
    PROVE  IntactInv'
  <1>1. PICK c \in 0 .. Len(sent) : DeliveredInv(c) /\ ReceivedInv(c)
    BY DEF IntactInv
  <1>2. DeliveredInv(c)' /\ ReceivedInv(c)'
    BY <1>1, DeliveredKept DEF Handling
  <1>3. c \in 0 .. Len(sent')
    BY <1>1
  <1> QED
    BY <1>2, <1>3 DEF IntactInv

(* The chunks on their way *)
LEMMA FlowTypes ==
    ASSUME TypeOK, PairingInv, ~aborted
    PROVE  /\ Pushed \in 0 .. Len(rx.bodyBuffers)
           /\ Len(requestBodyQueue) \in Nat /\ Len(rx.bodyBuffers) \in Nat
           /\ DOMAIN requestBodyQueue = 1 .. Len(requestBodyQueue)
           /\ DOMAIN rx.bodyBuffers = 1 .. Len(rx.bodyBuffers)
           /\ Len(Flow) = Len(requestBodyQueue) + Len(rx.bodyBuffers) - Pushed
           /\ Len(Flow) \in Nat /\ DOMAIN Flow = 1 .. Len(Flow)
           /\ \A j \in DOMAIN Flow :
                Flow[j] = IF j <= Len(requestBodyQueue) THEN requestBodyQueue[j]
                          ELSE [buffer |-> rx.bodyBuffers[Pushed + j - Len(requestBodyQueue)],
                                id |-> rx.requestId,
                                isEnd |-> IsEnd(Pushed + j - Len(requestBodyQueue))]
           /\ \A j \in DOMAIN Flow : Flow[j].id \in Nat
           /\ rx.requestId \in Nat
  <1>1. /\ requestBodyQueue \in Seq(BodyEntry) /\ rx.bodyBuffers \in Pieces
        /\ rx.bodyBufferEnqueueIndex \in Nat /\ rx.requestId \in Nat
    BY DEF TypeOK, QueueTypes, ReceiveTypes, ReceiveData
  <1>2. /\ Len(requestBodyQueue) \in Nat /\ Len(rx.bodyBuffers) \in Nat
        /\ DOMAIN requestBodyQueue = 1 .. Len(requestBodyQueue)
        /\ DOMAIN rx.bodyBuffers = 1 .. Len(rx.bodyBuffers)
        /\ \A j \in DOMAIN requestBodyQueue : requestBodyQueue[j] \in BodyEntry
    BY <1>1 DEF Pieces
  <1>3. Pushed \in 0 .. Len(rx.bodyBuffers)
    <2>1. CASE recv \in {"body", "pushBody"}
      <3>1. rx.bodyBufferEnqueueIndex \in 1 .. Len(rx.bodyBuffers)
        BY <2>1 DEF PairingInv, ControlInv
      <3> QED
        BY <1>1, <1>2, <3>1 DEF Pushed
    <2>2. CASE recv \notin {"body", "pushBody"}
      <3>1. rx.bodyBufferEnqueueIndex = 0
        BY <2>2 DEF TypeOK, QueueTypes, PairingInv, ControlInv
      <3> QED
        BY <1>1, <1>2, <2>2, <3>1 DEF Pushed
    <2> QED
      BY <2>1, <2>2
  <1>4. PICK N : N = Len(requestBodyQueue) + Len(rx.bodyBuffers) - Pushed
    OBVIOUS
  <1>5. N \in Nat
    BY <1>2, <1>3, <1>4
  <1>6. DOMAIN Flow = 1 .. N
    BY <1>4 DEF Flow
  <1>7. Len(Flow) = N
    BY <1>5, <1>6
  <1>8. \A j \in DOMAIN Flow :
          Flow[j] = IF j <= Len(requestBodyQueue) THEN requestBodyQueue[j]
                    ELSE [buffer |-> rx.bodyBuffers[Pushed + j - Len(requestBodyQueue)],
                          id |-> rx.requestId,
                          isEnd |-> IsEnd(Pushed + j - Len(requestBodyQueue))]
    BY <1>4, <1>6 DEF Flow
  <1>9. ASSUME NEW j \in DOMAIN Flow PROVE Flow[j].id \in Nat
    <2>1. CASE j <= Len(requestBodyQueue)
      <3>1. Flow[j] = requestBodyQueue[j] /\ j \in DOMAIN requestBodyQueue
        BY <1>2, <1>5, <1>6, <1>8, <2>1
      <3> QED
        BY <1>2, <3>1 DEF BodyEntry
    <2>2. CASE ~(j <= Len(requestBodyQueue))
      BY <1>1, <1>8, <2>2
    <2> QED
      BY <2>1, <2>2
  <1> QED
    BY <1>1, <1>2, <1>3, <1>4, <1>5, <1>6, <1>7, <1>8, <1>9

(* The requests whose chunks have no other chunk before them *)
Continued(id) ==
    /\ Len(Flow) > 0 => id = Flow[1].id
    /\ Len(Flow) = 0 => id = rx.requestId /\ ~BodyPushed

LEMMA FlowKept ==
    ASSUME TypeOK, PairingInv, ~aborted, sent' = sent, Flow' = Flow,
           rx'.requestId = rx.requestId, BodyPushed => BodyPushed',
           NEW n, NEW cut, NEW c, NEW d, FlowInv(n, cut, c),
           \A id : Continued(id) => DoneOf(Done(d)', id) = DoneOf(Done(c), id)
    PROVE  FlowInv(n, cut, d)'
  <1>1. Len(Flow) \in Nat /\ DOMAIN Flow = 1 .. Len(Flow)
    BY FlowTypes
  <1>2. ASSUME NEW j \in DOMAIN Flow PROVE ChunkSound(sent, Flow, cut, Done(d)', j)
    <2>1. ChunkStart(Flow, cut, Done(d)', Flow[j].id, j) = ChunkStart(Flow, cut, Done(c), Flow[j].id, j)
      <3>1. CASE j = 1
        <4>1. Continued(Flow[1].id)
          BY <1>1, <3>1 DEF Continued
        <4> QED
          BY <3>1, <4>1 DEF ChunkStart
      <3>2. CASE j # 1
        BY <3>2 DEF ChunkStart
      <3> QED
        BY <3>1, <3>2
    <2>2. ChunkSound(sent, Flow, cut, Done(c), j)
      BY DEF FlowInv
    <2> QED
      BY <2>1, <2>2 DEF ChunkSound
  <1>3. ASSUME ~BodyPushed'
        PROVE  ChunkStart(Flow, cut, Done(d)', rx.requestId, Len(Flow) + 1)
                 = ChunkStart(Flow, cut, Done(c), rx.requestId, Len(Flow) + 1)
    <2>1. CASE Len(Flow) = 0
      <3>1. Continued(rx.requestId) /\ Len(Flow) + 1 = 1
        BY <1>3, <2>1 DEF Continued
      <3> QED
        BY <3>1 DEF ChunkStart
    <2>2. CASE Len(Flow) # 0
      <3>1. Len(Flow) + 1 # 1
        BY <1>1, <2>2
      <3> QED
        BY <3>1 DEF ChunkStart
    <2> QED
      BY <2>1, <2>2
  <1> QED
    BY <1>2, <1>3 DEF FlowInv

(* What the receive loop holds *)
loopVars == <<sent, wire, arrived, recv, state, parser, lastBuffer, parsed, nextRequestBuffer,
              newRequest, rx, pushing>>

LEMMA LoopKept ==
    ASSUME UNCHANGED loopVars
    PROVE  /\ LoopInv => LoopInv'
           /\ \A n : AcceptedUpTo(n) => AcceptedUpTo(n)'
           /\ \A n : CollectedInv(n) => CollectedInv(n)'
           /\ BodyPushed' <=> BodyPushed
           /\ requestBodyQueue' = requestBodyQueue => Flow' = Flow
  <1>1. Unparsed' = Unparsed
    BY DEF loopVars, Unparsed
  <1>2. Place' = Place
    BY <1>1 DEF loopVars, Place
  <1>3. WireInv => WireInv'
    BY <1>1 DEF loopVars, WireInv
  <1>4. PhaseInv => PhaseInv'
    BY DEF loopVars, PhaseInv, BeforeMessage, InHead
  <1>5. LoopInv => LoopInv'
    BY <1>3, <1>4 DEF loopVars, LoopInv
  <1>6. \A n : AcceptedUpTo(n) => AcceptedUpTo(n)'
    BY <1>2 DEF loopVars, AcceptedUpTo, Stuck
  <1>7. Collected' = Collected /\ LastCallback' = LastCallback
    BY DEF loopVars, Collected, LastCallback
  <1>8. \A n : CollectedInv(n) => CollectedInv(n)'
    BY <1>7 DEF loopVars, CollectedInv, BeforeMessage, InHead, AfterHead
  <1>9. BodyPushed' <=> BodyPushed
    BY DEF loopVars, BodyPushed
  <1>10. requestBodyQueue' = requestBodyQueue => Flow' = Flow
    BY DEF loopVars, Flow, Pushed, IsEnd
  <1> QED
    BY <1>5, <1>6, <1>8, <1>9, <1>10

(* The rest of a body that was consumed is not on its way. *)
LEMMA NothingToDeliver ==
    ASSUME TypeOK, PairingInv, ~aborted, Handling, tx.requestBodyConsumed
    PROVE  \A id : Continued(id) => id # tx.requestId
  <1>1. ASSUME rx.requestId = tx.requestId
        PROVE  BodyPushed /\ Len(rx.bodyBuffers) - Pushed = 0
    <2>1. Len(requestQueue) = 0 /\ NextPush = rx.requestId + 1
      BY <1>1, HandledIsReceived, FlowTypes
    <2>2. rx.requestEnqueued /\ recv # "pushRequest" /\ requestQueue = <<>>
      <3>1. requestQueue = <<>>
        BY <2>1 DEF TypeOK, QueueTypes
      <3> QED
        BY <2>1, <3>1, FlowTypes DEF NextPush
    <2>3. BodyPushed
      BY <2>2 DEF PairingInv, BodyEndInv
    <2>4. CASE recv = "enqueueBody"
      <3>1. rx.bodyBuffers = <<>> /\ rx.bodyBufferEnqueueIndex = 0
        BY <2>4 DEF PairingInv, ControlInv
      <3> QED
        BY <2>3, <2>4, <3>1 DEF Pushed
    <2>5. CASE recv = "body" /\ rx.bodyBufferEnqueueIndex = Len(rx.bodyBuffers)
      BY <2>3, <2>5, FlowTypes DEF Pushed
    <2> QED
      BY <2>2, <2>3, <2>4, <2>5 DEF BodyPushed
  <1>2. ASSUME NEW id, Continued(id), id = tx.requestId PROVE FALSE
    <2>1. CASE Len(requestBodyQueue) > 0
      <3>1. 1 \in DOMAIN Flow /\ 1 \in DOMAIN requestBodyQueue /\ Flow[1] = requestBodyQueue[1]
        BY <2>1, FlowTypes
      <3>2. requestBodyQueue[1].id > tx.requestId
        BY <3>1 DEF PairingInv, BodyOrderInv
      <3>3. id = requestBodyQueue[1].id /\ id \in Nat
        BY <1>2, <3>1, FlowTypes DEF Continued
      <3> QED
        BY <1>2, <3>2, <3>3
    <2>2. CASE Len(requestBodyQueue) = 0
      <3>1. CASE Len(Flow) > 0
        <4>1. 1 \in DOMAIN Flow /\ Flow[1].id = rx.requestId
          BY <2>2, <3>1, FlowTypes
        <4>2. rx.requestId = tx.requestId
          BY <1>2, <3>1, <4>1 DEF Continued
        <4> QED
          BY <1>1, <2>2, <3>1, <4>2, FlowTypes
      <3>2. CASE Len(Flow) = 0
        BY <1>1, <1>2, <3>2 DEF Continued
      <3> QED
        BY <3>1, <3>2, FlowTypes
    <2> QED
      BY <2>1, <2>2, FlowTypes
  <1> QED
    BY <1>2

-----------------------------------------------------------------------------
(* Steps of the reply loop *)

(* A step that reads no chunk and pops no request *)
StaysWithRequest ==
    /\ UNCHANGED <<sent, recv, pushing, delivered>> /\ requestQueue' \in {requestQueue, <<>>}
    /\ Handling' => /\ Handling /\ tx'.requestId = tx.requestId
                    /\ tx'.requestBodyConsumed = tx.requestBodyConsumed
                    /\ context'.request = context.request
    /\ aborted' \/ (UNCHANGED loopVars /\ UNCHANGED <<aborted, requestBodyQueue>>)
    /\ ~aborted' /\ Handling /\ ~Handling' => tx.requestBodyConsumed

LEMMA IntactHandling == ASSUME TypeOK, PairingInv, IntactInv, StaysWithRequest PROVE IntactInv'
  <1>1. RequestsSent'
    BY RequestsKept DEF StaysWithRequest, IntactInv
  <1>2. CASE aborted'
    BY <1>1, <1>2, IntactAborted DEF StaysWithRequest
  <1>3. CASE ~aborted'
    <2>1. UNCHANGED loopVars /\ UNCHANGED <<aborted, requestBodyQueue>> /\ ~aborted
      BY <1>3 DEF StaysWithRequest
    <2>2. PICK c \in 0 .. Len(sent) : DeliveredInv(c) /\ ReceivedInv(c)
      BY <2>1 DEF IntactInv
    <2>3. DeliveredInv(c)' /\ sent' = sent
      BY <2>2, DeliveredKept DEF StaysWithRequest
    <2>4. PICK n \in 0 .. Len(sent), cut \in [DOMAIN Flow -> 0 .. Len(sent)] :
            AcceptedUpTo(n) /\ CollectedInv(n) /\ FlowInv(n, cut, c)
      BY <2>2 DEF ReceivedInv
    <2>5. /\ LoopInv' /\ AcceptedUpTo(n)' /\ CollectedInv(n)' /\ Flow' = Flow
          /\ BodyPushed' <=> BodyPushed
      BY <2>1, <2>4, LoopKept DEF IntactInv
    <2>6. \A id : Continued(id) => DoneOf(Done(c)', id) = DoneOf(Done(c), id)
      <3>1. CASE Handling'
        BY <3>1 DEF StaysWithRequest, Done, DoneOf
      <3>2. CASE ~Handling' /\ ~Handling
        BY <3>2 DEF Done, DoneOf
      <3>3. CASE ~Handling' /\ Handling
        <4>1. \A id : Continued(id) => id # tx.requestId
          BY <1>3, <2>1, <3>3, NothingToDeliver DEF StaysWithRequest
        <4> QED
          BY <3>3, <4>1 DEF Done, DoneOf
      <3> QED
        BY <3>1, <3>2, <3>3
    <2>7. rx' = rx
      BY <2>1 DEF loopVars
    <2>8. FlowInv(n, cut, c)'
      BY <2>1, <2>3, <2>4, <2>5, <2>6, <2>7, FlowKept
    <2>9. ReceivedInv(c)'
      BY <2>3, <2>4, <2>5, <2>8 DEF ReceivedInv
    <2>10. \E d \in 0 .. Len(sent') : DeliveredInv(d)' /\ ReceivedInv(d)'
      BY <2>2, <2>3, <2>9
    <2>11. sent' \in Wires
      BY <2>3 DEF IntactInv
    <2> QED
      BY <1>1, <2>5, <2>10, <2>11 DEF IntactInv
  <1> QED
    BY <1>2, <1>3

(* The next request is one the receive loop has put in the queue. *)
LEMMA IntactPop == ASSUME TypeOK, PairingInv, IntactInv, PopRequest PROVE IntactInv'
  <1>1. /\ requestQueue # <<>> /\ requestQueue' = Tail(requestQueue) /\ ~aborted /\ reply = "pop"
        /\ reply' = "handle" /\ delivered' = <<>> /\ context'.request = Head(requestQueue).request
        /\ tx'.requestId = Head(requestQueue).id
        /\ tx'.requestBodyConsumed = ~Head(requestQueue).hasBody
        /\ UNCHANGED <<sent, recv, pushing, aborted, requestBodyQueue>> /\ UNCHANGED loopVars
    BY DEF PopRequest, FreshReplyData, loopVars
  <1>2. ~Handling /\ Handling'
    BY <1>1 DEF Handling
  <1>3. EntrySent(sent, Head(requestQueue))
        /\ \A i \in DOMAIN Tail(requestQueue) : EntrySent(sent, Tail(requestQueue)[i])
    <2>1. requestQueue \in Seq(RequestEntry)
      BY DEF TypeOK, QueueTypes
    <2>2. Head(requestQueue) = requestQueue[1] /\ 1 \in DOMAIN requestQueue
      BY <1>1, <2>1
    <2>3. \A i \in DOMAIN Tail(requestQueue) :
            Tail(requestQueue)[i] = requestQueue[i + 1] /\ i + 1 \in DOMAIN requestQueue
      BY <1>1, <2>1
    <2>4. \A i \in DOMAIN requestQueue : EntrySent(sent, requestQueue[i])
      BY DEF IntactInv, RequestsSent
    <2> QED
      BY <2>2, <2>3, <2>4
  <1>4. RequestsSent'
    BY <1>1, <1>3 DEF IntactInv, RequestsSent, EntrySent
  <1>5. sent \in Wires
    BY DEF IntactInv
  <1>6. PICK c \in 0 .. Len(sent) : ReceivedInv(c)
    BY <1>1 DEF IntactInv
  <1>7. PICK n \in 0 .. Len(sent), cut \in [DOMAIN Flow -> 0 .. Len(sent)] :
          AcceptedUpTo(n) /\ CollectedInv(n) /\ FlowInv(n, cut, c)
    BY <1>6 DEF ReceivedInv
  <1>8. /\ LoopInv' /\ AcceptedUpTo(n)' /\ CollectedInv(n)' /\ Flow' = Flow
        /\ BodyPushed' <=> BodyPushed
    BY <1>1, <1>7, LoopKept DEF IntactInv
  <1>9. \A id : DoneOf(Done(0)', id) = DoneOf(Done(c), id)
    BY <1>2 DEF Done, DoneOf
  <1>10. rx' = rx
    BY <1>1 DEF loopVars
  <1>11. FlowInv(n, cut, 0)'
    BY <1>1, <1>7, <1>8, <1>9, <1>10, FlowKept
  <1>12. ReceivedInv(0)'
    BY <1>1, <1>7, <1>8, <1>11 DEF ReceivedInv
  <1>13. DeliveredInv(0)'
    <2>1. Positions(sent, Head(requestQueue).id + 1, "body", 0) = {}
      BY <1>5, WireTypes DEF Positions
    <2>2. PiecesAt(sent, <<>>, {})
      BY PiecesNone
    <2>3. ~Head(requestQueue).hasBody =>
            Positions(sent, Head(requestQueue).id + 1, "body", Len(sent)) = {}
      BY <1>3 DEF EntrySent
    <2> QED
      BY <1>1, <2>1, <2>2, <2>3 DEF DeliveredInv
  <1>14. 0 \in 0 .. Len(sent') /\ sent' \in Wires
    BY <1>1, <1>5, WireTypes
  <1> QED
    BY <1>4, <1>8, <1>12, <1>13, <1>14 DEF IntactInv

(* The chunk a handler reads continues what it was delivered. *)
LEMMA IntactTakeBody ==
    ASSUME TypeOK, PairingInv, IntactInv, reply \in {"handle", "read"},
           ~tx.requestBodyConsumed, TakeBody
    PROVE  IntactInv'
  <1>1. /\ requestBodyQueue # <<>> /\ requestBodyQueue' = Tail(requestBodyQueue)
        /\ UNCHANGED <<sent, requestQueue, recv, pushing, aborted>> /\ UNCHANGED loopVars
    BY DEF TakeBody, loopVars
  <1>2. PICK entry : entry = Head(requestBodyQueue)
    OBVIOUS
  <1>3. entry.id = tx.requestId
    BY <1>1, <1>2, PairingImpliesBelongs DEF BodyBelongsToRequest
  <1>4. /\ requestBodyQueue \in Seq(BodyEntry) /\ tx \in ReplyData /\ delivered \in Pieces
        /\ context \in Context
    BY DEF TypeOK, QueueTypes, ReplyTypes, HistoryTypes
  <1>5. /\ Handling /\ Handling' /\ ~aborted /\ tx'.requestId = tx.requestId /\ context' = context
        /\ (tx'.requestBodyConsumed <=> entry.isEnd)
        /\ delivered' = IF entry.buffer = "" THEN delivered ELSE Append(delivered, entry.buffer)
    <2>1. ~aborted
      BY <1>1 DEF PairingInv, ControlInv
    <2>2. /\ tx' = [tx EXCEPT !.requestBodyConsumed = @ \/ entry.isEnd] /\ reply' = "handle"
          /\ delivered' = IF entry.buffer = "" THEN delivered ELSE Append(delivered, entry.buffer)
          /\ context' = context
      BY <1>2, <1>3 DEF TakeBody
    <2> QED
      BY <1>4, <2>1, <2>2 DEF Handling, ReplyData
  <1>6. RequestsSent'
    BY <1>1, <1>5, RequestsKept DEF IntactInv
  <1>7. sent \in Wires
    BY DEF IntactInv
  <1>8. PICK c \in 0 .. Len(sent) : DeliveredInv(c) /\ ReceivedInv(c)
    BY <1>5 DEF IntactInv
  <1>9. PICK n \in 0 .. Len(sent), cut \in [DOMAIN Flow -> 0 .. Len(sent)] :
          AcceptedUpTo(n) /\ CollectedInv(n) /\ FlowInv(n, cut, c)
    BY <1>8 DEF ReceivedInv
  <1>10. /\ LoopInv' /\ AcceptedUpTo(n)' /\ CollectedInv(n)' /\ (BodyPushed' <=> BodyPushed)
    <2>1. LoopInv
      BY <1>5 DEF IntactInv
    <2> QED
      BY <1>1, <1>9, <2>1, LoopKept
  <1>11. PICK q : q = Len(requestBodyQueue)
    OBVIOUS
  <1>12. PICK flow : flow = Flow
    OBVIOUS
  <1>13. /\ q \in Nat /\ q > 0 /\ Len(requestBodyQueue') = q - 1
         /\ \A j \in 1 .. q - 1 : requestBodyQueue'[j] = requestBodyQueue[j + 1]
         /\ requestBodyQueue[1] = entry
    BY <1>1, <1>2, <1>4, <1>11
  <1>14. PICK L : L = Len(flow)
    OBVIOUS
  <1>15. /\ L \in Nat /\ L > 0 /\ DOMAIN flow = 1 .. L /\ L = q + Len(rx.bodyBuffers) - Pushed
         /\ flow[1] = entry
         /\ Len(rx.bodyBuffers) \in Nat /\ Pushed \in Nat
    <2>1. /\ L \in Nat /\ DOMAIN flow = 1 .. L /\ L = q + Len(rx.bodyBuffers) - Pushed
          /\ Len(rx.bodyBuffers) \in Nat /\ Pushed \in 0 .. Len(rx.bodyBuffers)
          /\ \A j \in DOMAIN flow : j <= q => flow[j] = requestBodyQueue[j]
      BY <1>5, <1>11, <1>12, <1>14, FlowTypes
    <2>2. L > 0 /\ 1 <= q /\ 1 \in DOMAIN flow
      BY <1>13, <2>1
    <2>3. flow[1] = requestBodyQueue[1]
      BY <2>1, <2>2
    <2> QED
      BY <1>13, <2>1, <2>2, <2>3
  <1>16. /\ DOMAIN Flow' = 1 .. L - 1 /\ Len(Flow)' = L - 1
         /\ \A j \in 1 .. L - 1 : Flow'[j] = flow[j + 1]
    <2>1. rx' = rx /\ Pushed' = Pushed /\ \A i : IsEnd(i)' = IsEnd(i)
      BY <1>1 DEF loopVars, Pushed, IsEnd
    <2>2. L - 1 = (q - 1) + Len(rx.bodyBuffers) - Pushed
      BY <1>13, <1>15
    <2>3. Flow' = [j \in 1 .. L - 1 |->
                     IF j <= q - 1 THEN requestBodyQueue'[j]
                     ELSE [buffer |-> rx.bodyBuffers[Pushed + j - (q - 1)], id |-> rx.requestId,
                           isEnd |-> IsEnd(Pushed + j - (q - 1))]]
      BY <1>13, <2>1, <2>2 DEF Flow
    <2>4. DOMAIN Flow' = 1 .. L - 1
      BY <2>3
    <2>5. Len(Flow)' = L - 1
      BY <1>15, <2>4
    <2>6. ASSUME NEW j \in 1 .. L - 1 PROVE Flow'[j] = flow[j + 1]
      <3>1. j + 1 \in DOMAIN flow
        BY <1>15
      <3>2. flow[j + 1] = IF j + 1 <= q THEN requestBodyQueue[j + 1]
                          ELSE [buffer |-> rx.bodyBuffers[Pushed + (j + 1) - q],
                                id |-> rx.requestId, isEnd |-> IsEnd(Pushed + (j + 1) - q)]
        BY <1>5, <1>11, <1>12, <3>1, FlowTypes
      <3>3. CASE j + 1 <= q
        <4>1. j <= q - 1 /\ j \in 1 .. q - 1
          BY <1>13, <3>3
        <4> QED
          BY <1>13, <2>3, <3>2, <3>3, <4>1
      <3>4. CASE ~(j + 1 <= q)
        <4>0. PICK p \in Nat : p = Pushed
          BY <1>15
        <4>1. p = Pushed
          BY <4>0
        <4>2. ~(j <= q - 1) /\ p + (j + 1) - q = p + j - (q - 1)
          <5>1. j \in Nat /\ q \in Nat /\ ~(j + 1 <= q)
            BY <1>13, <1>15, <3>4
          <5> QED
            BY <5>1
        <4> QED
          BY <2>3, <3>2, <3>4, <4>1, <4>2
      <3> QED
        BY <3>3, <3>4
    <2> QED
      BY <2>4, <2>5, <2>6
  <1>17. PICK next : next = [j \in 1 .. L - 1 |-> cut[j + 1]]
    OBVIOUS
  <1>18. PICK d : d = cut[1]
    OBVIOUS
  <1>19. d \in 0 .. Len(sent) /\ next \in [DOMAIN Flow' -> 0 .. Len(sent)]
    <2>1. \A j \in 1 .. L : cut[j] \in 0 .. Len(sent)
      BY <1>9, <1>12, <1>15
    <2>2. 1 \in 1 .. L /\ \A j \in 1 .. L - 1 : j + 1 \in 1 .. L
      BY <1>15
    <2> QED
      BY <1>16, <1>17, <1>18, <2>1, <2>2
  <1>20. ASSUME NEW id, NEW j \in 1 .. L
         PROVE  ChunkStart(Flow', next, Done(d)', id, j) = ChunkStart(flow, cut, Done(c), id, j + 1)
    <2>1. CASE j = 1
      <3>1. Done(d)'.id = tx.requestId /\ Done(d)'.upTo = d
        BY <1>5 DEF Done
      <3>2. ChunkStart(Flow', next, Done(d)', id, j) = IF id = tx.requestId THEN d ELSE 0
        BY <2>1, <3>1 DEF ChunkStart, DoneOf
      <3>3. ChunkStart(flow, cut, Done(c), id, j + 1) = IF flow[1].id = id THEN cut[1] ELSE 0
        BY <2>1 DEF ChunkStart
      <3> QED
        BY <1>3, <1>15, <1>18, <3>2, <3>3
    <2>2. CASE j # 1
      <3>1. j - 1 \in 1 .. L - 1 /\ (j - 1) + 1 = j /\ j + 1 # 1 /\ (j + 1) - 1 = j
        BY <1>15, <2>2
      <3>2. Flow'[j - 1] = flow[j] /\ next[j - 1] = cut[j]
        BY <1>16, <1>17, <3>1
      <3> QED
        BY <2>2, <3>1, <3>2 DEF ChunkStart
    <2> QED
      BY <2>1, <2>2
  <1>21. ASSUME NEW j \in 1 .. L - 1 PROVE ChunkSound(sent, Flow', next, Done(d)', j)
    <2>1. j + 1 \in DOMAIN flow /\ j \in 1 .. L
      BY <1>15
    <2>2. ChunkSound(sent, flow, cut, Done(c), j + 1)
      BY <1>9, <1>12, <2>1 DEF FlowInv
    <2>3. Flow'[j] = flow[j + 1] /\ next[j] = cut[j + 1]
      BY <1>16, <1>17
    <2>4. ChunkStart(Flow', next, Done(d)', flow[j + 1].id, j)
            = ChunkStart(flow, cut, Done(c), flow[j + 1].id, j + 1)
      BY <1>20, <2>1
    <2> QED
      BY <2>2, <2>3, <2>4 DEF ChunkSound
  <1>22. ChunkStart(Flow', next, Done(d)', rx.requestId, (L - 1) + 1)
           = ChunkStart(flow, cut, Done(c), rx.requestId, L + 1)
    <2>1. (L - 1) + 1 = L /\ L \in 1 .. L
      BY <1>15
    <2> QED
      BY <1>20, <2>1
  <1>23. FlowInv(n, next, d)'
    <2>1. rx' = rx
      BY <1>1 DEF loopVars
    <2>2. ~BodyPushed =>
            Positions(sent, rx.requestId + 1, "body",
                      ChunkStart(flow, cut, Done(c), rx.requestId, L + 1))
              = Positions(sent, rx.requestId + 1, "body", n)
      BY <1>9, <1>12, <1>14 DEF FlowInv
    <2> QED
      BY <1>1, <1>10, <1>16, <1>21, <1>22, <2>1, <2>2 DEF FlowInv
  <1>24. DeliveredInv(d)'
    <2>1. 1 \in DOMAIN flow
      BY <1>15
    <2>2. ChunkSound(sent, flow, cut, Done(c), 1)
      BY <1>9, <1>12, <2>1 DEF FlowInv
    <2>3. PICK k : k = tx.requestId + 1
      OBVIOUS
    <2>4. /\ Extends(sent, k, c, d, entry.buffer)
          /\ entry.isEnd => Positions(sent, k, "body", d) = Positions(sent, k, "body", Len(sent))
      <3>1. ChunkStart(flow, cut, Done(c), tx.requestId, 1) = c
        BY <1>5 DEF ChunkStart, Done, DoneOf
      <3> QED
        BY <1>3, <1>15, <1>18, <2>2, <2>3, <3>1 DEF ChunkSound
    <2>5. PiecesAt(sent, delivered, Positions(sent, k, "body", c))
      BY <1>5, <1>8, <2>3 DEF DeliveredInv
    <2>6. PiecesAt(sent, delivered', Positions(sent, k, "body", d))
      <3>1. CASE entry.buffer = ""
        BY <1>5, <2>4, <2>5, <3>1 DEF Extends
      <3>2. CASE entry.buffer # ""
        <4>1. /\ d \in Nat /\ d > c /\ c \in Nat /\ sent[d].data = entry.buffer
              /\ Positions(sent, k, "body", d) = Positions(sent, k, "body", c) \cup {d}
          <5>1. d \in Nat /\ c \in Nat
            BY <1>7, <1>8, <1>19, WireTypes
          <5>2. /\ d > c /\ sent[d].data = entry.buffer
                /\ Positions(sent, k, "body", d) = Positions(sent, k, "body", c) \cup {d}
            BY <2>4, <3>2 DEF Extends
          <5> QED
            BY <5>1, <5>2
        <4>2. \A p \in Positions(sent, k, "body", c) : p \in Nat /\ p <= c
          BY <1>7, PositionsTypes
        <4>3. entry.buffer \in Data
          <5>1. entry \in BodyEntry
            BY <1>1, <1>2, <1>4
          <5> QED
            BY <5>1 DEF BodyEntry
        <4>4. PICK S \in SUBSET Nat : S = Positions(sent, k, "body", c)
          BY <4>2
        <4>5. \A p \in S : p < d
          BY <4>1, <4>2, <4>4
        <4>6. PiecesAt(sent, Append(delivered, sent[d].data), S \cup {d})
          BY <1>4, <2>5, <4>1, <4>3, <4>4, <4>5, PiecesAppend
        <4> QED
          BY <1>5, <3>2, <4>1, <4>4, <4>6
      <3> QED
        BY <3>1, <3>2
    <2> QED
      BY <1>1, <1>5, <2>3, <2>4, <2>6 DEF DeliveredInv
  <1>25. ReceivedInv(d)'
    BY <1>1, <1>9, <1>10, <1>19, <1>23 DEF ReceivedInv
  <1>26. d \in 0 .. Len(sent') /\ sent' \in Wires
    BY <1>1, <1>7, <1>19
  <1> QED
    BY <1>6, <1>10, <1>24, <1>25, <1>26 DEF IntactInv

LEMMA Reply500Stays ==
    ASSUME TypeOK, Handling, Reply500, ~aborted => UNCHANGED <<loopVars, aborted, requestBodyQueue>>,
           aborted' = aborted, UNCHANGED <<sent, recv, pushing, delivered>>,
           requestQueue' \in {requestQueue, <<>>}
    PROVE  StaysWithRequest
  <1>1. context'.request = context.request
    <2>1. context \in Context
      BY DEF TypeOK, ReplyTypes
    <2> QED
      BY <2>1 DEF Reply500, Context
  <1>2. Handling'
    BY Reply500Keeps DEF Handling
  <1> QED
    BY <1>1, <1>2, Reply500Keeps DEF StaysWithRequest

LEMMA IntactHandler ==
    ASSUME TypeOK, PairingInv, IntactInv,
           HandlerReads \/ ReadResumes \/ HandlerWrites \/ HandlerThrows
    PROVE  IntactInv'
  <1>1. CASE HandlerReads
    <2>1. reply = "handle" /\ ~tx.requestBodyConsumed /\ Handling
      BY <1>1 DEF HandlerReads, Handling
    <2>2. CASE TakeBody
      BY <2>1, <2>2, IntactTakeBody
    <2>3. CASE ReadAborted
      <3>1. aborted /\ aborted' = aborted /\ Reply500 /\ requestQueue' = requestQueue
            /\ UNCHANGED <<sent, recv, pushing, delivered>>
        BY <2>3 DEF ReadAborted
      <3>2. StaysWithRequest
        BY <2>1, <3>1, Reply500Stays
      <3> QED
        BY <3>2, IntactHandling
    <2>4. CASE ~TakeBody /\ ~ReadAborted
      <3>1. StaysWithRequest
        BY <1>1, <2>1, <2>4 DEF HandlerReads, Handling, StaysWithRequest, loopVars
      <3> QED
        BY <3>1, IntactHandling
    <2> QED
      BY <2>2, <2>3, <2>4
  <1>2. CASE ReadResumes
    <2>1. reply = "read" /\ ~tx.requestBodyConsumed /\ Handling
      BY <1>2 DEF ReadResumes, Handling, PairingInv, ControlInv
    <2>2. CASE TakeBody
      BY <2>1, <2>2, IntactTakeBody
    <2>3. CASE ReadAborted
      <3>1. aborted /\ aborted' = aborted /\ Reply500 /\ requestQueue' = requestQueue
            /\ UNCHANGED <<sent, recv, pushing, delivered>>
        BY <2>3 DEF ReadAborted
      <3>2. StaysWithRequest
        BY <2>1, <3>1, Reply500Stays
      <3> QED
        BY <3>2, IntactHandling
    <2> QED
      BY <1>2, <2>2, <2>3 DEF ReadResumes
  <1>3. CASE HandlerWrites
    <2>1. tx'.requestId = tx.requestId /\ tx'.requestBodyConsumed = tx.requestBodyConsumed
      <3>1. tx \in ReplyData
        BY DEF TypeOK, ReplyTypes
      <3> QED
        BY <1>3, <3>1 DEF HandlerWrites, WriteBody, WriteNothing, AppendResponseHeaders, ReplyData
    <2>2. StaysWithRequest
      BY <1>3, <2>1 DEF HandlerWrites, Handling, StaysWithRequest, loopVars
    <2> QED
      BY <2>2, IntactHandling
  <1>4. CASE HandlerThrows
    <2>1. StaysWithRequest
      BY <1>4, Reply500Stays DEF HandlerThrows, Handling, loopVars
    <2> QED
      BY <2>1, IntactHandling
  <1> QED
    BY <1>1, <1>2, <1>3, <1>4

(* The reply loop goes on, or shuts down: the data of the request it has   *)
(* handled stay as they are.                                               *)
LEMMA EnterStays ==
    ASSUME Handling, NEW closing \in BOOLEAN, NEW written, EnterReplyLoop(closing, written),
           UNCHANGED <<sent, recv, pushing, delivered>>,
           \/ Shutdown
           \/ tx.requestBodyConsumed /\ UNCHANGED loopVars /\ UNCHANGED queueVars
    PROVE  StaysWithRequest
  <1>1. ~Handling'
    BY DEF EnterReplyLoop, Handling
  <1> QED
    BY <1>1 DEF StaysWithRequest, Shutdown

LEMMA IntactWrites ==
    ASSUME TypeOK, PairingInv, IntactInv,
           WriteResolves \/ Write500Resolves \/ FlushResolves \/ ErrorResponseResolves \/ PopAborted
    PROVE  IntactInv'
  <1>1. CASE WriteResolves
    <2>1. CASE Reply500
      <3>1. /\ Handling /\ aborted' = aborted /\ requestQueue' = requestQueue
            /\ UNCHANGED <<sent, recv, pushing, delivered>>
            /\ UNCHANGED <<loopVars, requestBodyQueue>>
        BY <1>1 DEF WriteResolves, Handling, loopVars
      <3>2. StaysWithRequest
        BY <2>1, <3>1, Reply500Stays
      <3> QED
        BY <3>2, IntactHandling
    <2>2. CASE ~Reply500
      <3>1. StaysWithRequest
        BY <1>1, <2>2 DEF WriteResolves, Handling, StaysWithRequest, loopVars
      <3> QED
        BY <3>1, IntactHandling
    <2> QED
      BY <2>1, <2>2
  <1>2. CASE Write500Resolves
    <2>1. CASE reply' = "caught" /\ UNCHANGED <<state, queueVars>>
      <3>1. StaysWithRequest
        BY <1>2, <2>1 DEF Write500Resolves, Handling, StaysWithRequest, loopVars
      <3> QED
        BY <3>1, IntactHandling
    <2>2. CASE ReplyFails(out)
      <3>1. StaysWithRequest
        BY <1>2, <2>2, EnterStays DEF Write500Resolves, Handling, ReplyFails
      <3> QED
        BY <3>1, IntactHandling
    <2> QED
      BY <1>2, <2>1, <2>2 DEF Write500Resolves
  <1>3. CASE FlushResolves
    <2>1. Handling /\ reply = "flush" /\ UNCHANGED <<sent, recv, pushing, delivered>>
      BY <1>3 DEF FlushResolves, Handling
    <2>2. CASE /\ tx.keepConnection /\ EnterReplyLoop(state = "Closing", out)
               /\ UNCHANGED <<state, queueVars>>
      <3>1. tx.requestBodyConsumed
        BY <2>1, <2>2 DEF PairingInv, ControlInv
      <3>2. UNCHANGED loopVars
        BY <1>3, <2>2 DEF FlushResolves, loopVars
      <3>3. StaysWithRequest
        BY <2>1, <2>2, <3>1, <3>2, EnterStays
      <3> QED
        BY <3>3, IntactHandling
    <2>3. CASE Shutdown /\ EnterReplyLoop(TRUE, out)
      <3>1. StaysWithRequest
        BY <2>1, <2>3, EnterStays
      <3> QED
        BY <3>1, IntactHandling
    <2>4. CASE ReplyFails(out)
      <3>1. StaysWithRequest
        BY <2>1, <2>4, EnterStays DEF ReplyFails
      <3> QED
        BY <3>1, IntactHandling
    <2> QED
      BY <1>3, <2>2, <2>3, <2>4 DEF FlushResolves
  <1>4. CASE ErrorResponseResolves
    <2>1. StaysWithRequest
      BY <1>4 DEF ErrorResponseResolves, StaysWithRequest, Handling, loopVars
    <2> QED
      BY <2>1, IntactHandling
  <1>5. CASE PopAborted
    <2>1. StaysWithRequest
      BY <1>5 DEF PopAborted, EnterReplyLoop, StaysWithRequest, Handling, loopVars
    <2> QED
      BY <2>1, IntactHandling
  <1> QED
    BY <1>1, <1>2, <1>3, <1>4, <1>5

LEMMA IntactReturns == ASSUME TypeOK, PairingInv, IntactInv, HandlerReturns PROVE IntactInv'
  <1>1. Handling /\ UNCHANGED <<sent, recv, pushing, delivered, context>>
    BY DEF HandlerReturns, Handling
  <1>2. PICK data : data = AppendResponseHeaders(context.response)
    OBVIOUS
  <1>3. PICK kept : kept = (data.keepConnection /\ KeepaliveByContentLength(data))
    OBVIOUS
  <1>4. PICK written : written = out \o Headers(context.response)
    OBVIOUS
  <1>5. /\ data.requestId = tx.requestId /\ data.requestBodyConsumed = tx.requestBodyConsumed
        /\ data \in ReplyData
    <2>1. tx \in ReplyData /\ context.response \in Response
      BY DEF TypeOK, ReplyTypes, Context
    <2>2. data \in ReplyData
      BY <1>2, <2>1, TypeResponseHeaders
    <2> QED
      BY <1>2, <2>1, <2>2 DEF AppendResponseHeaders, ReplyData
  <1>6. kept => tx.requestBodyConsumed
    BY <1>3, <1>5 DEF KeepaliveByContentLength
  <1>7. /\ tx' = [data EXCEPT !.keepConnection = kept]
        /\ \/ reply' = "flush" /\ UNCHANGED <<state, queueVars>>
           \/ kept /\ EnterReplyLoop(state = "Closing", written) /\ UNCHANGED <<state, queueVars>>
           \/ Shutdown /\ EnterReplyLoop(TRUE, written)
           \/ ReplyFails(written)
    BY <1>2, <1>3, <1>4 DEF HandlerReturns
  <1>8. tx'.requestId = tx.requestId /\ tx'.requestBodyConsumed = tx.requestBodyConsumed
    BY <1>5, <1>7 DEF ReplyData
  <1>9. state' = state => UNCHANGED loopVars
    BY DEF HandlerReturns, loopVars
  <1>10. CASE reply' = "flush" /\ UNCHANGED <<state, queueVars>>
    <2>1. StaysWithRequest
      BY <1>1, <1>8, <1>9, <1>10 DEF Handling, StaysWithRequest
    <2> QED
      BY <2>1, IntactHandling
  <1>11. CASE kept /\ EnterReplyLoop(state = "Closing", written) /\ UNCHANGED <<state, queueVars>>
    <2>1. StaysWithRequest
      BY <1>1, <1>6, <1>9, <1>11, EnterStays
    <2> QED
      BY <2>1, IntactHandling
  <1>12. CASE Shutdown /\ EnterReplyLoop(TRUE, written)
    <2>1. StaysWithRequest
      BY <1>1, <1>12, EnterStays
    <2> QED
      BY <2>1, IntactHandling
  <1>13. CASE ReplyFails(written)
    <2>1. StaysWithRequest
      BY <1>1, <1>13, EnterStays DEF ReplyFails
    <2> QED
      BY <2>1, IntactHandling
  <1> QED
    BY <1>7, <1>10, <1>11, <1>12, <1>13

-----------------------------------------------------------------------------
(* The first state, and what happens from outside *)

LEMMA IntactInit == Init => IntactInv
  <1> SUFFICES ASSUME Init PROVE IntactInv
    OBVIOUS
  <1>1. /\ sent \in Wires /\ wire = sent /\ arrived = NoArrival /\ state = "Initial"
        /\ parser = InitialParser /\ recv = "none" /\ nextRequestBuffer = <<>>
        /\ newRequest = NoRequest /\ rx = FreshReceiveData(0) /\ requestQueue = <<>>
        /\ requestBodyQueue = <<>> /\ reply = "none"
    BY DEF Init
  <1>2. Len(sent) \in Nat /\ DOMAIN sent = 1 .. Len(sent)
    BY <1>1, WireTypes
  <1>3. Unparsed = <<>> /\ Place = 0
    <2>1. Unparsed = <<>> /\ Len(<<>>) = 0
      BY <1>1 DEF Unparsed, NoArrival
    <2>2. PICK L \in Nat : L = Len(sent)
      BY <1>2
    <2>3. Len(wire) = L /\ Len(Unparsed) = 0 /\ Len(sent) = L /\ recv # "parse"
      BY <1>1, <2>1, <2>2
    <2>4. L - L - 0 + 0 = 0
      OBVIOUS
    <2> QED
      BY <2>1, <2>3, <2>4 DEF Place
  <1>4. LoopInv
    BY <1>1, <1>2, <1>3
    DEF LoopInv, WireInv, PhaseInv, BeforeMessage, InHead, InitialParser, NoArrival
  <1>5. AcceptedUpTo(0)
    BY <1>1, <1>3 DEF AcceptedUpTo
  <1>6. CollectedInv(0)
    BY <1>1, MessagesCount DEF CollectedInv, BeforeMessage, InHead, AfterHead, FreshReceiveData
  <1>7. Len(Flow) = 0 /\ DOMAIN Flow = {}
    BY <1>1 DEF Flow, Pushed, FreshReceiveData
  <1>8. PICK cut : cut = [j \in {} |-> 0]
    OBVIOUS
  <1>9. cut \in [DOMAIN Flow -> 0 .. Len(sent)]
    BY <1>7, <1>8
  <1>10. ~Handling
    BY <1>1 DEF Handling
  <1>11. FlowInv(0, cut, 0)
    BY <1>7, <1>10 DEF FlowInv, ChunkStart, DoneOf, Done
  <1>12. 0 \in 0 .. Len(sent)
    BY <1>2
  <1>13. ReceivedInv(0)
    BY <1>5, <1>6, <1>9, <1>11, <1>12 DEF ReceivedInv
  <1>14. RequestsSent /\ DeliveredInv(0)
    BY <1>1, <1>10 DEF RequestsSent, DeliveredInv
  <1> QED
    BY <1>1, <1>4, <1>12, <1>13, <1>14 DEF IntactInv

(* The receive loop moves on, from what it had up to n to what it has up   *)
(* to m, and pushes nothing.                                               *)
LEMMA ReceivedMoves ==
    ASSUME TypeOK, PairingInv, ~aborted, sent' = sent, Flow' = Flow,
           rx'.requestId = rx.requestId, BodyPushed => BodyPushed',
           NEW c, Done(c)' = Done(c), NEW n, NEW cut \in [DOMAIN Flow -> 0 .. Len(sent)],
           FlowInv(n, cut, c), NEW m \in 0 .. Len(sent), AcceptedUpTo(m)', CollectedInv(m)',
           ~BodyPushed' => Positions(sent, rx.requestId + 1, "body", m)
                             = Positions(sent, rx.requestId + 1, "body", n)
    PROVE  ReceivedInv(c)'
  <1>1. FlowInv(n, cut, c)'
    BY FlowKept
  <1>2. FlowInv(m, cut, c)'
    BY <1>1 DEF FlowInv
  <1>3. cut \in [DOMAIN Flow' -> 0 .. Len(sent')] /\ m \in 0 .. Len(sent')
    OBVIOUS
  <1> QED
    BY <1>2, <1>3 DEF ReceivedInv

(* ... and keeps its place *)
LEMMA ReceivedStays ==
    ASSUME TypeOK, PairingInv, ~aborted, sent' = sent, Flow' = Flow,
           rx'.requestId = rx.requestId, BodyPushed => BodyPushed',
           NEW c, Done(c)' = Done(c), ReceivedInv(c),
           \A n \in 0 .. Len(sent) :
             AcceptedUpTo(n) /\ CollectedInv(n) => AcceptedUpTo(n)' /\ CollectedInv(n)'
    PROVE  ReceivedInv(c)'
  <1>1. PICK n \in 0 .. Len(sent), cut \in [DOMAIN Flow -> 0 .. Len(sent)] :
          AcceptedUpTo(n) /\ CollectedInv(n) /\ FlowInv(n, cut, c)
    BY DEF ReceivedInv
  <1>2. AcceptedUpTo(n)' /\ CollectedInv(n)'
    BY <1>1
  <1> QED
    BY <1>1, <1>2, ReceivedMoves

LEMMA IntactStart == ASSUME TypeOK, PairingInv, IntactInv, Start PROVE IntactInv'
  <1>1. /\ state = "Initial" /\ state' = "Started" /\ recv = "none" /\ recv' = "read"
        /\ ~Handling /\ ~Handling' /\ ~aborted /\ ~aborted' /\ rx.bodyBuffers = <<>>
        /\ UNCHANGED <<sent, wire, arrived, lastBuffer, parsed, nextRequestBuffer, parser,
                       newRequest, rx, requestQueue, requestBodyQueue, pushing, context, tx,
                       delivered>>
    BY DEF Start, Handling, PairingInv, ControlInv
  <1>2. RequestsSent'
    BY <1>1, RequestsKept DEF IntactInv
  <1>3. PICK c \in 0 .. Len(sent) : DeliveredInv(c) /\ ReceivedInv(c)
    BY <1>1 DEF IntactInv
  <1>4. Unparsed' = Unparsed /\ Place' = Place
    BY <1>1 DEF Unparsed, Place
  <1>5. LoopInv'
    BY <1>1, <1>4 DEF IntactInv, LoopInv, WireInv, PhaseInv, BeforeMessage, InHead
  <1>6. \A n : AcceptedUpTo(n) /\ CollectedInv(n) => AcceptedUpTo(n)' /\ CollectedInv(n)'
    BY <1>1, <1>4
    DEF AcceptedUpTo, Stuck, CollectedInv, BeforeMessage, InHead, AfterHead
  <1>7. Flow' = Flow /\ ~BodyPushed
    BY <1>1 DEF Flow, Pushed, IsEnd, BodyPushed
  <1>8. Done(c)' = Done(c)
    BY <1>1 DEF Done
  <1>9. ReceivedInv(c)'
    BY <1>1, <1>3, <1>6, <1>7, <1>8, ReceivedStays
  <1>10. DeliveredInv(c)'
    BY <1>1 DEF DeliveredInv
  <1>11. c \in 0 .. Len(sent') /\ sent' \in Wires
    BY <1>1, <1>3 DEF IntactInv
  <1> QED
    BY <1>2, <1>5, <1>9, <1>10, <1>11 DEF IntactInv

LEMMA IntactOutside ==
    ASSUME TypeOK, PairingInv, IntactInv, Stop \/ TimerTick \/ Close \/ PeerCloses
    PROVE  IntactInv'
  <1>1. StaysWithRequest
    <2>1. CASE Stop
      BY <2>1 DEF Stop, Shutdown, StaysWithRequest, Handling
    <2>2. CASE TimerTick
      <3>1. CASE Shutdown
        BY <2>2, <3>1 DEF TimerTick, Shutdown, StaysWithRequest, Handling
      <3>2. CASE UNCHANGED <<queueVars, state>>
        BY <2>2, <3>2 DEF TimerTick, StaysWithRequest, Handling, loopVars
      <3> QED
        BY <2>2, <3>1, <3>2 DEF TimerTick
    <2>3. CASE Close
      <3>1. aborted'
        BY <2>3 DEF Close, PairingInv, ControlInv
      <3> QED
        BY <2>3, <3>1 DEF Close, StaysWithRequest, Handling
    <2>4. CASE PeerCloses
      BY <2>4 DEF PeerCloses, StaysWithRequest, Handling, loopVars
    <2> QED
      BY <2>1, <2>2, <2>3, <2>4
  <1> QED
    BY <1>1, IntactHandling

(* A sequence in two *)
LEMMA SplitAt ==
    ASSUME NEW S, NEW s \in Seq(S), NEW m \in 1 .. Len(s)
    PROVE  /\ Len(s) \in Nat /\ DOMAIN s = 1 .. Len(s) /\ m \in Nat /\ m <= Len(s)
           /\ Len(SubSeq(s, 1, m)) = m /\ DOMAIN SubSeq(s, 1, m) = 1 .. m
           /\ \A i \in 1 .. m : SubSeq(s, 1, m)[i] = s[i]
           /\ Len(SubSeq(s, m + 1, Len(s))) = Len(s) - m
           /\ DOMAIN SubSeq(s, m + 1, Len(s)) = 1 .. Len(s) - m
           /\ \A i \in 1 .. Len(s) - m : SubSeq(s, m + 1, Len(s))[i] = s[m + i]
  <1>1. Len(s) \in Nat /\ DOMAIN s = 1 .. Len(s) /\ m \in Nat /\ m <= Len(s)
    OBVIOUS
  <1>2. /\ Len(SubSeq(s, 1, m)) = m /\ DOMAIN SubSeq(s, 1, m) = 1 .. m
        /\ \A i \in 1 .. m : SubSeq(s, 1, m)[i] = s[i]
    <2>1. \A i \in 1 .. m : SubSeq(s, 1, m)[i] = s[1 + i - 1]
      BY <1>1
    <2> QED
      BY <1>1, <2>1
  <1>3. PICK b : b = m + 1
    OBVIOUS
  <1>4. /\ Len(SubSeq(s, b, Len(s))) = Len(s) - m
        /\ DOMAIN SubSeq(s, b, Len(s)) = 1 .. Len(s) - m
    <2>1. b \in Int /\ Len(s) \in Int /\ \A i \in b .. Len(s) : s[i] \in S
      BY <1>1, <1>3
    <2>2. /\ Len(SubSeq(s, b, Len(s))) = IF b <= Len(s) THEN Len(s) - b + 1 ELSE 0
          /\ SubSeq(s, b, Len(s)) \in Seq(S)
      BY <2>1, SubSeqProperties
    <2>3. PICK n \in Nat : n = Len(s)
      BY <1>1
    <2>4. (IF b <= n THEN n - b + 1 ELSE 0) = n - m
      <3>1. m \in Nat /\ m <= n
        BY <1>1, <2>3
      <3> QED
        BY <1>3, <3>1
    <2>5. Len(SubSeq(s, b, Len(s))) = Len(s) - m
      BY <2>2, <2>3, <2>4
    <2> QED
      BY <2>2, <2>5
  <1>5. \A i \in 1 .. Len(s) - m : SubSeq(s, b, Len(s))[i] = s[m + i]
    <2>1. \A i \in 1 .. Len(s) - m : SubSeq(s, b, Len(s))[i] = s[b + i - 1] /\ b + i - 1 = m + i
      BY <1>1, <1>3
    <2> QED
      BY <2>1
  <1> QED
    BY <1>1, <1>2, <1>3, <1>4, <1>5

(* What a read takes from the wire is what the client sent next. *)
LEMMA IntactReads == ASSUME TypeOK, PairingInv, IntactInv, ReadResolves PROVE IntactInv'
  <1>1. /\ recv = "read" /\ arrived.kind = "none"
        /\ UNCHANGED <<sent, state, recv, parser, lastBuffer, parsed, nextRequestBuffer,
                       newRequest, rx, requestQueue, requestBodyQueue, aborted, pushing>>
        /\ UNCHANGED replyVars
    BY DEF ReadResolves
  <1>2. RequestsSent'
    BY <1>1, RequestsKept DEF IntactInv, Handling
  <1>3. CASE aborted
    BY <1>1, <1>2, <1>3, IntactAborted DEF Handling
  <1>4. CASE ~aborted
    <2>1. LoopInv
      BY <1>4 DEF IntactInv
    <2>2. /\ wire \in Seq(Token) /\ sent \in Seq(Token) /\ arrived.data = <<>> /\ Unparsed = <<>>
          /\ Unparsed' = arrived'.data
      BY <1>1, <2>1 DEF LoopInv, WireInv, Unparsed, TypeOK, ClientTypes
    <2>3. WireInv' /\ Place' = Place
      <3>1. CASE arrived'.data = <<>> /\ wire' = wire
        BY <1>1, <2>1, <2>2, <3>1 DEF LoopInv, WireInv, Place
      <3>2. CASE arrived'.data # <<>> \/ wire' # wire
        <4>1. PICK m \in 1 .. Len(wire) :
                /\ arrived' = [kind |-> "data", data |-> SubSeq(wire, 1, m)]
                /\ wire' = SubSeq(wire, m + 1, Len(wire))
          BY <3>2 DEF ReadResolves
        <4>2. PICK L \in Nat, W \in Nat : L = Len(sent) /\ W = Len(wire)
          BY <2>2
        <4>3. /\ Len(Unparsed') = m /\ DOMAIN Unparsed' = 1 .. m /\ Len(wire') = W - m
              /\ DOMAIN wire' = 1 .. W - m /\ m \in Nat /\ m <= W /\ DOMAIN wire = 1 .. W
              /\ \A i \in 1 .. m : Unparsed'[i] = wire[i]
              /\ \A i \in 1 .. W - m : wire'[i] = wire[m + i]
          <5>1. \A i \in 1 .. m : SubSeq(wire, 1, m)[i] = wire[i]
            BY <2>2, SplitAt
          <5>2. Unparsed' = SubSeq(wire, 1, m)
            BY <2>2, <4>1
          <5> QED
            BY <2>2, <4>1, <4>2, <5>1, <5>2, SplitAt
        <4>4. W <= L /\ \A i \in 1 .. W : wire[i] = sent[L - W + i]
          <5>1. WireInv /\ Len(Unparsed) = 0
            BY <2>1, <2>2 DEF LoopInv
          <5>2. /\ 0 + W <= L
                /\ \A i \in 1 .. W : wire[i] = sent[L - W + i]
            BY <4>2, <4>3, <5>1 DEF WireInv
          <5> QED
            BY <5>2
        <4>5. /\ Len(sent') - Len(wire') - Len(Unparsed') = L - W
              /\ Len(Unparsed') + Len(wire') = W /\ Len(sent') - Len(wire') = L - W + m
          <5>1. L - (W - m) - m = L - W /\ m + (W - m) = W /\ L - (W - m) = L - W + m
            BY <4>2, <4>3
          <5> QED
            BY <1>1, <4>2, <4>3, <5>1
        <4>6. \A i \in DOMAIN Unparsed' :
                Unparsed'[i] = sent'[Len(sent') - Len(wire') - Len(Unparsed') + i]
          <5> SUFFICES ASSUME NEW i \in DOMAIN Unparsed'
                       PROVE  Unparsed'[i] = sent'[Len(sent') - Len(wire') - Len(Unparsed') + i]
            OBVIOUS
          <5>1. i \in 1 .. W /\ Unparsed'[i] = wire[i]
            BY <4>2, <4>3
          <5> QED
            BY <1>1, <4>4, <4>5, <5>1
        <4>7. \A i \in DOMAIN wire' : wire'[i] = sent'[Len(sent') - Len(wire') + i]
          <5> SUFFICES ASSUME NEW i \in DOMAIN wire'
                       PROVE  wire'[i] = sent'[Len(sent') - Len(wire') + i]
            OBVIOUS
          <5>1. m + i \in 1 .. W /\ wire'[i] = wire[m + i] /\ i \in Nat
            <6>1. i \in 1 .. W - m
              BY <4>3
            <6>2. m + i \in 1 .. W /\ i \in Nat
              BY <4>2, <4>3, <6>1
            <6> QED
              BY <4>3, <6>1, <6>2
          <5>2. wire[m + i] = sent[L - W + (m + i)]
            <6>1. PICK j : j = m + i
              OBVIOUS
            <6>2. wire[j] = sent[L - W + j]
              BY <4>4, <5>1, <6>1
            <6> QED
              BY <6>1, <6>2
          <5>3. L - W + (m + i) = L - W + m + i
            BY <4>2, <4>3, <5>1
          <5> QED
            BY <1>1, <4>5, <5>1, <5>2, <5>3
        <4>9. Place' = Place
          <5>1. Place = L - W - 0 + 0 /\ Place' = L - W + 0
            BY <1>1, <2>2, <4>2, <4>5 DEF Place
          <5> QED
            BY <5>1
        <4>10. Len(Unparsed') + Len(wire') <= Len(sent') /\ arrived'.kind = "data"
          BY <1>1, <4>1, <4>2, <4>4, <4>5
        <4>8. nextRequestBuffer' = <<>> /\ recv' = "read"
          BY <1>1, <2>1 DEF LoopInv, WireInv
        <4> QED
          BY <1>1, <4>6, <4>7, <4>8, <4>9, <4>10 DEF WireInv
      <3> QED
        BY <3>1, <3>2
    <2>4. LoopInv'
      BY <1>1, <2>1, <2>3 DEF LoopInv, PhaseInv, BeforeMessage, InHead
    <2>5. \A n : AcceptedUpTo(n) /\ CollectedInv(n) => AcceptedUpTo(n)' /\ CollectedInv(n)'
      <3>1. \A n : AcceptedUpTo(n) => AcceptedUpTo(n)'
        BY <1>1, <2>3 DEF AcceptedUpTo, Stuck
      <3>2. Collected' = Collected /\ LastCallback' = LastCallback
        BY <1>1 DEF Collected, LastCallback
      <3>3. \A n : CollectedInv(n) => CollectedInv(n)'
        BY <1>1, <3>2 DEF CollectedInv, BeforeMessage, InHead, AfterHead
      <3> QED
        BY <3>1, <3>3
    <2>6. Flow' = Flow /\ BodyPushed' = BodyPushed
      BY <1>1 DEF Flow, Pushed, IsEnd, BodyPushed
    <2>7. \A c : Done(c)' = Done(c)
      BY <1>1 DEF Done, Handling
    <2>8. \A c \in 0 .. Len(sent) : ReceivedInv(c) => ReceivedInv(c)'
      BY <1>1, <1>4, <2>5, <2>6, <2>7, ReceivedStays
    <2> QED
      BY <1>1, <1>2, <1>4, <2>4, <2>8, IntactReceiving
  <1> QED
    BY <1>3, <1>4

-----------------------------------------------------------------------------
(* The receive loop reads and parses *)

LEMMA ReceiveAborted ==
    ASSUME TypeOK, PairingInv, IntactInv, ReceiveStep, aborted' PROVE IntactInv'
  <1>1. /\ sent' = sent /\ UNCHANGED replyVars
        /\ requestQueue' \in {requestQueue, <<>>} /\ recv' # "pushRequest"
    <2>1. CASE ReceiveFails \/ ReceiveEnds \/ ReceivePacket
      BY <2>1 DEF ReceiveFails, ReceiveEnds, ReceivePacket, Shutdown
    <2>2. CASE \/ ParserRejects \/ on_message_begin \/ on_url \/ on_header_field
               \/ on_header_value \/ on_headers_complete \/ on_body \/ on_message_complete
      BY <2>2 DEF ParserRejects, on_message_begin, on_url, on_header_field, on_header_value,
                  on_headers_complete, on_body, on_message_complete, Fires, Parsing, Accept,
                  Refuse, RefuseData
    <2>3. CASE ParseReturns
      BY <2>3 DEF ParseReturns, Shutdown
    <2>4. CASE EnqueueBodyBuffer \/ PushBody
      BY <2>4 DEF EnqueueBodyBuffer, PushBody
    <2>5. CASE EnqueueAndContinue
      <3>1. aborted' = aborted
        BY <2>5 DEF EnqueueAndContinue
      <3>2. state \in {"Closing", "Closed"}
        BY <3>1 DEF PairingInv, ControlInv
      <3> QED
        BY <2>5, <3>2 DEF EnqueueAndContinue, EnqueueRequest, ContinueReceiving
    <2>6. CASE PushRequest
      <3>1. aborted' = aborted
        BY <2>6 DEF PushRequest
      <3> QED
        BY <2>6, <3>1 DEF PushRequest
    <2> QED
      BY <2>1, <2>2, <2>3, <2>4, <2>5, <2>6 DEF ReceiveStep
  <1>2. RequestsSent'
    BY <1>1, RequestsKept DEF IntactInv, Handling
  <1> QED
    BY <1>1, <1>2, IntactAborted DEF Handling

(* The place on the wire, and the token that is parsed next *)
LEMMA PlaceTypes ==
    ASSUME TypeOK, LoopInv, sent \in Wires
    PROVE  /\ Place \in 0 .. Len(sent) /\ Len(sent) \in Nat
           /\ recv = "parse" /\ parsed < Len(lastBuffer) =>
                Place < Len(sent) /\ token = sent[Place + 1]
  <1>1. Unparsed \in Seq(Token) /\ wire \in Seq(Token) /\ parsed \in Nat
    BY DEF TypeOK, ClientTypes, ReceiveTypes, Arrival, Unparsed
  <1>2. PICK L \in Nat, W \in Nat, U \in Nat :
             L = Len(sent) /\ W = Len(wire) /\ U = Len(Unparsed)
    BY <1>1, WireTypes
  <1>3. /\ U + W <= L
        /\ \A i \in DOMAIN Unparsed : Unparsed[i] = sent[L - W - U + i]
        /\ recv = "parse" => parsed <= U /\ Unparsed = lastBuffer
    BY <1>2 DEF LoopInv, WireInv, Unparsed
  <1>4. CASE recv = "parse"
    <2>1. Place = L - W - U + parsed
      BY <1>2, <1>4 DEF Place
    <2>2. Place \in 0 .. L
      BY <1>1, <1>2, <1>3, <1>4, <2>1
    <2>3. ASSUME parsed < U PROVE Place < L /\ token = sent[Place + 1]
      <3>1. parsed + 1 \in DOMAIN Unparsed
        BY <1>1, <1>2, <2>3
      <3>2. Unparsed[parsed + 1] = sent[L - W - U + (parsed + 1)]
        BY <1>3, <3>1
      <3>3. L - W - U + (parsed + 1) = Place + 1 /\ Place < L
        BY <1>1, <1>2, <1>3, <2>1, <2>3
      <3> QED
        BY <1>3, <1>4, <3>2, <3>3 DEF token
    <2> QED
      BY <1>2, <1>3, <1>4, <2>2, <2>3
  <1>5. CASE recv # "parse"
    <2>1. Place = L - W - U + 0
      BY <1>2, <1>5 DEF Place
    <2>2. Place \in 0 .. L
      BY <1>2, <1>3, <2>1
    <2> QED
      BY <1>2, <1>5, <2>2
  <1> QED
    BY <1>4, <1>5

(* What is collected, and the chunks on their way, depend on this alone.   *)
LEMMA CollectedSame ==
    ASSUME UNCHANGED <<sent, state, newRequest>>, rx'.requestId = rx.requestId,
           rx'.url = rx.url, rx'.headerField = rx.headerField,
           rx'.headerValue = rx.headerValue, rx'.requestEnqueued = rx.requestEnqueued
    PROVE  \A n : CollectedInv(n) => CollectedInv(n)'
  <1>1. Collected' = Collected /\ LastCallback' = LastCallback
    BY DEF Collected, LastCallback
  <1> QED
    BY <1>1 DEF CollectedInv, BeforeMessage, InHead, AfterHead

LEMMA FlowSame ==
    ASSUME UNCHANGED <<state, requestBodyQueue>>, rx'.requestId = rx.requestId,
           rx'.bodyBuffers = rx.bodyBuffers, Pushed' = Pushed
    PROVE  Flow' = Flow
  BY DEF Flow, IsEnd

LEMMA IntactPacket ==
    ASSUME TypeOK, PairingInv, IntactInv, ~aborted, ~aborted', ReceivePacket
    PROVE  IntactInv'
  <1>1. /\ recv = "read" /\ recv' = "parse" /\ lastBuffer' = arrived.data /\ parsed' = 0
        /\ arrived' = NoArrival
        /\ UNCHANGED <<sent, wire, state, parser, nextRequestBuffer, newRequest,
                       requestQueue, requestBodyQueue, pushing>>
        /\ UNCHANGED replyVars
    BY DEF ReceivePacket, Shutdown
  <1>2. /\ rx'.requestId = rx.requestId /\ rx'.url = rx.url /\ rx'.headerField = rx.headerField
        /\ rx'.headerValue = rx.headerValue /\ rx'.requestEnqueued = rx.requestEnqueued
        /\ rx'.bodyBuffers = rx.bodyBuffers
        /\ rx'.bodyBufferEnqueueIndex = rx.bodyBufferEnqueueIndex
    <2>1. rx \in ReceiveData
      BY DEF TypeOK, ReceiveTypes
    <2> QED
      BY <2>1 DEF ReceivePacket, ReceiveData
  <1>3. RequestsSent'
    BY <1>1, RequestsKept DEF IntactInv, Handling
  <1>4. LoopInv /\ arrived.data \in Seq(Token) /\ wire \in Seq(Token) /\ sent \in Wires
    BY DEF IntactInv, TypeOK, ClientTypes, Arrival
  <1>5. Unparsed' = Unparsed /\ Unparsed = arrived.data
    BY <1>1 DEF Unparsed
  <1>6. Place' = Place
    <2>1. PICK L \in Nat, W \in Nat, U \in Nat :
             L = Len(sent) /\ W = Len(wire) /\ U = Len(Unparsed)
      BY <1>4, <1>5, WireTypes
    <2>2. Place = L - W - U + 0 /\ Place' = L - W - U + 0
      BY <1>1, <1>5, <2>1 DEF Place
    <2> QED
      BY <2>2
  <1>7. LoopInv'
    <2>1. WireInv'
      <3>1. 0 <= Len(arrived.data) /\ NoArrival.data = <<>>
        BY <1>4 DEF NoArrival
      <3>2. WireInv
        BY <1>4 DEF LoopInv
      <3> QED
        BY <1>1, <1>5, <3>1, <3>2 DEF WireInv
    <2> QED
      BY <1>1, <1>4, <2>1 DEF LoopInv, PhaseInv, BeforeMessage, InHead
  <1>8. state # "ReceiveRequestMessageComplete"
    BY <1>1 DEF PairingInv, ControlInv
  <1>9. \A n : AcceptedUpTo(n) => AcceptedUpTo(n)'
    BY <1>1, <1>6, <1>8 DEF AcceptedUpTo, Stuck
  <1>10. Flow' = Flow /\ BodyPushed' = BodyPushed
    <2>1. Pushed' = Pushed
      BY <1>1, <1>2 DEF Pushed
    <2> QED
      BY <1>1, <1>2, <1>8, <2>1, FlowSame DEF BodyPushed
  <1>11. \A c : Done(c)' = Done(c)
    BY <1>1 DEF Done, Handling
  <1>12. \A n : CollectedInv(n) => CollectedInv(n)'
    BY <1>1, <1>2, CollectedSame
  <1>13. \A c \in 0 .. Len(sent) : ReceivedInv(c) => ReceivedInv(c)'
    BY <1>1, <1>2, <1>9, <1>10, <1>11, <1>12, ReceivedStays
  <1> QED
    BY <1>1, <1>3, <1>7, <1>13, IntactReceiving

(* A callback that is refused ends the parse. *)
LEMMA IntactRefused ==
    ASSUME TypeOK, PairingInv, IntactInv, ~aborted, Parsing, NEW errno \in Errnos, errno # "OK",
           NEW size \in {parsed, parsed + 1}, Refuse(errno, size),
           IF errno = "CB_message_begin"
             THEN size = parsed + 1 /\ token.on = "message_begin" /\ parser.phase = "start"
                  /\ state # "Started"
             ELSE parser.phase = "message" \/ size = parsed
    PROVE  IntactInv'
  <1>1. /\ recv = "parse" /\ recv' = "parse" /\ parser.errno = "OK" /\ parsed < Len(lastBuffer)
        /\ parser'.errno = errno /\ parser'.phase = parser.phase /\ parsed' = size /\ ~aborted'
        /\ UNCHANGED <<sent, wire, arrived, lastBuffer, state, nextRequestBuffer, newRequest, rx,
                       requestQueue, requestBodyQueue, pushing>>
        /\ UNCHANGED replyVars
    <2>1. parser \in Parser
      BY DEF TypeOK, ReceiveTypes
    <2> QED
      BY <2>1 DEF Refuse, Parsing, Parser
  <1>2. RequestsSent'
    BY <1>1, RequestsKept DEF IntactInv, Handling
  <1>3. LoopInv /\ sent \in Wires
    BY DEF IntactInv
  <1>4. /\ Place \in Nat /\ Place < Len(sent) /\ token = sent[Place + 1]
        /\ parsed \in Nat /\ Len(lastBuffer) \in Nat /\ size \in Nat /\ size <= Len(lastBuffer)
    <2>1. parsed \in Nat /\ Len(lastBuffer) \in Nat
      BY DEF TypeOK, ReceiveTypes
    <2> QED
      BY <1>1, <1>3, <2>1, PlaceTypes
  <1>5. Unparsed' = Unparsed /\ (size = parsed + 1 => Place' = Place + 1)
    <2>1. Unparsed' = Unparsed /\ Unparsed = lastBuffer
      BY <1>1 DEF Unparsed
    <2>2. PICK L \in Nat, W \in Nat, U \in Nat :
               L = Len(sent) /\ W = Len(wire) /\ U = Len(Unparsed)
      BY <1>3, <1>4, <2>1, WireTypes DEF TypeOK, ClientTypes
    <2>3. Place = L - W - U + parsed /\ Place' = L - W - U + size
      BY <1>1, <2>1, <2>2 DEF Place
    <2> QED
      BY <1>4, <2>1, <2>3
  <1>6. LoopInv'
    BY <1>1, <1>3, <1>4, <1>5 DEF LoopInv, WireInv, PhaseInv, BeforeMessage, InHead
  <1>7. state # "ReceiveRequestMessageComplete" \/ errno = "CB_message_begin"
           \/ (size = parsed /\ parsed < Len(lastBuffer))
    BY <1>1, <1>3 DEF LoopInv, PhaseInv
  <1>8. \A n : AcceptedUpTo(n) => AcceptedUpTo(n)'
    <2>1. CASE errno # "CB_message_begin"
      <3>1. Stuck'
        BY <1>1, <1>7, <2>1 DEF Stuck
      <3> QED
        BY <3>1 DEF AcceptedUpTo
    <2>2. CASE errno = "CB_message_begin"
      <3>1. state = "ReceiveRequestMessageComplete"
        <4>1. state \notin {"Initial", "Closing", "Closed"}
          BY <1>1 DEF PairingInv, ControlInv
        <4>2. state \in States
          BY DEF TypeOK, ReceiveTypes
        <4> QED
          BY <1>3, <2>2, <4>1, <4>2 DEF LoopInv, PhaseInv, InHead, States
      <3>2. ASSUME NEW n, AcceptedUpTo(n) PROVE n = Place
        BY <1>1, <3>1, <3>2 DEF AcceptedUpTo, Stuck
      <3>3. Place = Place' - 1 /\ sent'[Place'].on = "message_begin"
        BY <1>1, <1>4, <1>5, <2>2
      <3> QED
        BY <1>1, <2>2, <3>1, <3>2, <3>3 DEF AcceptedUpTo
    <2> QED
      BY <2>1, <2>2
  <1>9. \A n : CollectedInv(n) => CollectedInv(n)'
    BY <1>1, CollectedSame
  <1>10. Flow' = Flow /\ BodyPushed' = BodyPushed
    <2>1. Pushed' = Pushed
      BY <1>1 DEF Pushed
    <2> QED
      BY <1>1, <2>1, FlowSame DEF BodyPushed
  <1>11. \A c : Done(c)' = Done(c)
    BY <1>1 DEF Done, Handling
  <1>12. \A c \in 0 .. Len(sent) : ReceivedInv(c) => ReceivedInv(c)'
    BY <1>1, <1>8, <1>9, <1>10, <1>11, ReceivedStays
  <1> QED
    BY <1>1, <1>2, <1>6, <1>12, IntactReceiving

(* The callback is fired by the token after the last one accepted. *)
LEMMA TokenAccepted ==
    ASSUME TypeOK, IntactInv, ~aborted, NEW callback, callback # "bad", Fires(callback),
           NEW next, Accept(next), parser'.errno = parser.errno,
           NEW n \in 0 .. Len(sent), AcceptedUpTo(n)
    PROVE  /\ n \in Nat /\ n < Len(sent) /\ n + 1 \in 0 .. Len(sent) /\ n + 1 \in DOMAIN sent
           /\ token = sent[n + 1] /\ sent[n + 1].on = callback /\ sent[n + 1].data \in Data
           /\ AcceptedUpTo(n + 1)'
  <1>1. /\ recv = "parse" /\ recv' = "parse" /\ parser.errno = "OK" /\ parser'.errno = "OK"
        /\ parsed < Len(lastBuffer) /\ parsed' = parsed + 1 /\ token.on = callback
        /\ parser.phase = IF callback = "message_begin" THEN "start" ELSE "message"
        /\ UNCHANGED <<sent, wire, lastBuffer>>
    BY DEF Fires, Parsing, Accept
  <1>2. LoopInv /\ sent \in Wires
    BY DEF IntactInv
  <1>3. Place \in Nat /\ Place < Len(sent) /\ token = sent[Place + 1] /\ Len(sent) \in Nat
    BY <1>1, <1>2, PlaceTypes
  <1>4. n = Place
    <2>1. SUFFICES ASSUME n = Place - 1, sent[Place].on = "message_begin", state = "Started" \/ state = "ReceiveRequestMessageComplete"
                   PROVE  FALSE
      BY <1>1 DEF AcceptedUpTo, Stuck
    <2>2. callback = "message_begin"
      BY <1>1, <1>2, <2>1 DEF LoopInv, PhaseInv, BeforeMessage
    <2>3. PICK i : i = Place + 1
      OBVIOUS
    <2>4. i \in DOMAIN sent /\ i - 1 = Place /\ i # 1 /\ sent[i].on = "message_begin"
      <3>1. Place > 0
        BY <1>3, <2>1
      <3> QED
        BY <1>1, <1>2, <1>3, <2>2, <2>3, <3>1, WireTypes
    <2>5. sent[i - 1].on = "message_complete"
      BY <1>2, <2>4, WireOrder
    <2> QED
      BY <2>1, <2>4, <2>5
  <1>5. Place' = Place + 1
    <2>1. Unparsed = lastBuffer /\ Unparsed' = lastBuffer
      BY <1>1 DEF Unparsed
    <2>2. PICK L \in Nat, W \in Nat, U \in Nat :
               L = Len(sent) /\ W = Len(wire) /\ U = Len(lastBuffer)
      BY <1>3 DEF TypeOK, ClientTypes, ReceiveTypes
    <2>3. Place = L - W - U + parsed /\ Place' = L - W - U + (parsed + 1)
      BY <1>1, <2>1, <2>2 DEF Place
    <2>4. parsed \in Nat
      BY DEF TypeOK, ReceiveTypes
    <2> QED
      BY <2>2, <2>3, <2>4
  <1>6. AcceptedUpTo(n + 1)'
    BY <1>1, <1>4, <1>5 DEF AcceptedUpTo
  <1>7. n + 1 \in DOMAIN sent /\ n \in Nat /\ sent[n + 1].data \in Data
    BY <1>2, <1>3, <1>4, WireTypes
  <1> QED
    BY <1>1, <1>3, <1>4, <1>6, <1>7

(* What a callback that is accepted leaves alone *)
LEMMA AcceptKeeps ==
    ASSUME TypeOK, IntactInv, ~aborted, Parsing, NEW next, Accept(next), PhaseInv'
    PROVE  /\ RequestsSent' /\ LoopInv' /\ ~aborted' /\ sent' = sent /\ UNCHANGED replyVars
           /\ \A c : Done(c)' = Done(c)
           /\ recv = "parse" /\ recv' = "parse" /\ ~BodyPushed /\ ~BodyPushed'
           /\ requestBodyQueue' = requestBodyQueue
  <1>1. /\ recv = "parse" /\ recv' = "parse" /\ parsed < Len(lastBuffer) /\ parsed' = parsed + 1
        /\ ~aborted' /\ UNCHANGED <<sent, wire, arrived, lastBuffer, nextRequestBuffer,
                                    requestQueue, requestBodyQueue, pushing>>
        /\ UNCHANGED replyVars
    BY DEF Parsing, Accept
  <1>2. RequestsSent'
    BY <1>1, RequestsKept DEF IntactInv, Handling
  <1>3. WireInv'
    <2>1. WireInv
      BY DEF IntactInv, LoopInv
    <2>2. Unparsed' = Unparsed
      BY <1>1 DEF Unparsed
    <2>3. parsed + 1 <= Len(lastBuffer)
      <3>1. parsed \in Nat /\ Len(lastBuffer) \in Nat
        BY DEF TypeOK, ReceiveTypes
      <3> QED
        BY <1>1, <3>1
    <2> QED
      BY <1>1, <2>1, <2>2, <2>3 DEF WireInv
  <1>4. LoopInv'
    BY <1>1, <1>3 DEF LoopInv
  <1>5. \A c : Done(c)' = Done(c)
    BY <1>1 DEF Done, Handling
  <1> QED
    BY <1>1, <1>2, <1>4, <1>5 DEF BodyPushed

(* The callbacks of a head *)
LEMMA IntactHead ==
    ASSUME TypeOK, PairingInv, IntactInv, ~aborted, NEW callback,
           callback \notin {"bad", "body"}, Fires(callback), NEW next, Accept(next),
           parser'.errno = parser.errno, PhaseInv',
           rx'.requestId = rx.requestId, Flow' = Flow,
           \A n \in Nat : /\ n < Len(sent) /\ n + 1 \in DOMAIN sent /\ token = sent[n + 1]
                          /\ sent[n + 1].on = callback /\ sent[n + 1].data \in Data
                          /\ CollectedInv(n)
                          => CollectedInv(n + 1)'
    PROVE  IntactInv'
  <1>1. /\ RequestsSent' /\ LoopInv' /\ ~aborted' /\ sent' = sent /\ UNCHANGED replyVars
        /\ \A c : Done(c)' = Done(c)
        /\ ~BodyPushed /\ ~BodyPushed'
    BY AcceptKeeps DEF Fires
  <1>2. ASSUME NEW c \in 0 .. Len(sent), ReceivedInv(c) PROVE ReceivedInv(c)'
    <2>1. PICK n \in 0 .. Len(sent), cut \in [DOMAIN Flow -> 0 .. Len(sent)] :
            AcceptedUpTo(n) /\ CollectedInv(n) /\ FlowInv(n, cut, c)
      BY <1>2 DEF ReceivedInv
    <2>2. /\ n \in Nat /\ n < Len(sent) /\ n + 1 \in 0 .. Len(sent) /\ n + 1 \in DOMAIN sent
          /\ token = sent[n + 1] /\ sent[n + 1].on = callback /\ sent[n + 1].data \in Data
          /\ AcceptedUpTo(n + 1)'
      BY <2>1, TokenAccepted
    <2>3. CollectedInv(n + 1)'
      BY <2>1, <2>2
    <2>4. Positions(sent, rx.requestId + 1, "body", n + 1) = Positions(sent, rx.requestId + 1, "body", n)
      <3>1. OneMore(sent, rx.requestId + 1, n)
        BY <2>2, PositionsStep DEF IntactInv
      <3> QED
        BY <2>2, <3>1 DEF OneMore, Grows
    <2>5. PICK m \in 0 .. Len(sent) : m = n + 1
      BY <2>2
    <2> QED
      BY <1>1, <2>1, <2>2, <2>3, <2>4, <2>5, ReceivedMoves
  <1> QED
    BY <1>1, <1>2, IntactReceiving

(* The chunks on their way stay while the head is parsed. *)
LEMMA FlowInHead ==
    ASSUME TypeOK, PairingInv, recv = "parse", recv' = "parse",
           requestBodyQueue' = requestBodyQueue,
           rx'.requestId = rx.requestId, rx'.bodyBuffers = rx.bodyBuffers,
           rx'.bodyBufferEnqueueIndex = rx.bodyBufferEnqueueIndex,
           rx.bodyBuffers = <<>> \/ (state' # "ReceiveRequestMessageComplete"
                                    /\ state # "ReceiveRequestMessageComplete")
    PROVE  Flow' = Flow
  <1>1. Pushed' = Pushed /\ Pushed = 0
    BY DEF Pushed, PairingInv, ControlInv
  <1>2. CASE rx.bodyBuffers = <<>>
    <2>1. Len(requestBodyQueue) \in Nat
      BY DEF TypeOK, QueueTypes
    <2>2. Len(requestBodyQueue) + Len(rx.bodyBuffers) - Pushed = Len(requestBodyQueue)
      <3>1. Len(rx.bodyBuffers) = 0
        BY <1>2
      <3> QED
        BY <1>1, <2>1, <3>1
    <2>3. Flow = [j \in 1 .. Len(requestBodyQueue) |-> requestBodyQueue[j]]
      BY <2>1, <2>2 DEF Flow
    <2>4. Flow' = [j \in 1 .. Len(requestBodyQueue) |-> requestBodyQueue[j]]
      BY <1>1, <2>1, <2>2 DEF Flow
    <2> QED
      BY <2>3, <2>4
  <1>3. CASE state' # "ReceiveRequestMessageComplete" /\ state # "ReceiveRequestMessageComplete"
    BY <1>1, <1>3 DEF Flow, IsEnd
  <1> QED
    BY <1>2, <1>3

LEMMA IntactBegin ==
    ASSUME TypeOK, PairingInv, IntactInv, ~aborted, on_message_begin PROVE IntactInv'
  <1>1. CASE state = "Started" /\ Accept("ReceiveRequestMessageBegin")
    <2>1. /\ recv = "parse" /\ recv' = "parse" /\ state' = "ReceiveRequestMessageBegin"
          /\ UNCHANGED <<sent, rx, newRequest, requestBodyQueue>>
          /\ parser' = [parser EXCEPT !.phase = "message", !.close = FALSE]
      BY <1>1 DEF on_message_begin, Fires, Parsing, Accept
    <2>2. parser'.errno = parser.errno /\ parser'.phase = "message"
      <3>1. parser \in Parser
        BY DEF TypeOK, ReceiveTypes
      <3> QED
        BY <2>1, <3>1 DEF Parser
    <2>3. PhaseInv'
      BY <2>1, <2>2 DEF PhaseInv, BeforeMessage
    <2>4. Flow' = Flow
      BY <1>1, <2>1, FlowInHead
    <2>5. ASSUME NEW n \in Nat, n < Len(sent), n + 1 \in DOMAIN sent,
                 sent[n + 1].on = "message_begin", CollectedInv(n)
          PROVE  CollectedInv(n + 1)'
      <3>1. /\ MessageOf(sent, n) = rx.requestId /\ newRequest = NoRequest
        BY <1>1, <2>5 DEF CollectedInv, BeforeMessage
      <3>2. PICK k : k = rx.requestId + 1
        OBVIOUS
      <3>3. /\ MessageOf(sent, n + 1) = k /\ RequestSent(sent, NoRequest, k, n + 1)
            /\ Positions(sent, k, "headers_complete", n + 1) = {}
        BY <2>5, <3>1, <3>2, SentBegin DEF IntactInv
      <3>4. Collected' = NoRequest /\ LastCallback' = "message_begin"
        BY <2>1 DEF Collected, LastCallback
      <3> QED
        BY <2>1, <2>5, <3>1, <3>2, <3>3, <3>4 DEF CollectedInv, BeforeMessage, InHead, AfterHead
    <2>6. Fires("message_begin")
      BY DEF on_message_begin
    <2> QED
      BY <1>1, <2>1, <2>2, <2>3, <2>4, <2>5, <2>6, IntactHead
  <1>2. CASE state # "Started" /\ Refuse("CB_message_begin", parsed + 1)
    <2>1. Parsing /\ token.on = "message_begin" /\ parser.phase = "start"
      BY DEF on_message_begin, Fires
    <2>2. "CB_message_begin" \in Errnos
      BY DEF Errnos
    <2> QED
      BY <1>2, <2>1, <2>2, IntactRefused
  <1> QED
    BY <1>1, <1>2 DEF on_message_begin

(* A callback of the message that is refused *)
LEMMA IntactRefusedData ==
    ASSUME TypeOK, PairingInv, IntactInv, ~aborted, NEW callback, callback # "message_begin",
           Fires(callback), NEW errno \in Errnos \ {"OK", "CB_message_begin"},
           RefuseData(errno) \/ Refuse(errno, parsed) \/ Refuse(errno, parsed + 1)
    PROVE  IntactInv'
  <1>1. Parsing /\ parser.phase = "message"
    BY DEF Fires
  <1>2. PICK size \in {parsed, parsed + 1} : Refuse(errno, size)
    BY DEF RefuseData
  <1> QED
    BY <1>1, <1>2, IntactRefused

(* The next token of a head that is not complete *)
LEMMA HeadGoesOn ==
    ASSUME IntactInv, NEW n \in Nat, n < Len(sent), n + 1 \in DOMAIN sent,
           sent[n + 1].on \notin {"message_begin", "headers_complete"},
           CollectedInv(n), InHead
    PROVE  /\ InHeadOf(sent, rx.requestId + 1, n)
           /\ RequestSent(sent, Collected, rx.requestId + 1, n) /\ sent \in Wires
           /\ sent[n].on = LastCallback /\ n > 0
  <1>1. /\ MessageOf(sent, n) = rx.requestId + 1 /\ n > 0 /\ sent[n].on = LastCallback
        /\ Positions(sent, rx.requestId + 1, "headers_complete", n) = {}
        /\ RequestSent(sent, Collected, rx.requestId + 1, n) /\ sent \in Wires
    BY DEF CollectedInv, InHead, BeforeMessage, IntactInv
  <1>2. MessageOf(sent, n + 1) = rx.requestId + 1
    BY <1>1, MessageStep
  <1>3. OneMore(sent, rx.requestId + 1, n)
    BY <1>1, PositionsStep
  <1>4. Positions(sent, rx.requestId + 1, "headers_complete", n + 1) = {}
    BY <1>1, <1>3 DEF OneMore, Grows
  <1> QED
    BY <1>1, <1>2, <1>4 DEF InHeadOf

LEMMA HeadCollected ==
    ASSUME NEW n \in Nat, InHeadOf(sent, rx.requestId + 1, n), InHead', sent' = sent,
           rx'.requestId = rx.requestId, sent[n + 1].on = LastCallback',
           RequestSent(sent, Collected', rx.requestId + 1, n + 1),
           state' \in {"ReceiveRequestMessageBegin", "ReceiveRequestUrl"} => newRequest' = NoRequest
    PROVE  CollectedInv(n + 1)'
  BY DEF CollectedInv, InHead, AfterHead, BeforeMessage, InHeadOf

LEMMA IntactUrl == ASSUME TypeOK, PairingInv, IntactInv, ~aborted, on_url PROVE IntactInv'
  <1>0. Fires("url") /\ rx \in ReceiveData
    BY DEF on_url, TypeOK, ReceiveTypes
  <1>1. CASE state \in {"ReceiveRequestMessageBegin", "ReceiveRequestUrl"}
    <2>1. /\ recv = "parse" /\ recv' = "parse" /\ state' = "ReceiveRequestUrl"
          /\ Accept("ReceiveRequestUrl")
          /\ UNCHANGED <<sent, newRequest, requestBodyQueue, parser>>
          /\ rx' = [rx EXCEPT !.url = IF state = "ReceiveRequestUrl" THEN Append(rx.url, token.data)
                                                                     ELSE <<token.data>>]
      BY <1>1 DEF on_url, Fires, Parsing, Accept
    <2>2. /\ rx'.requestId = rx.requestId /\ rx'.bodyBuffers = rx.bodyBuffers
          /\ rx'.bodyBufferEnqueueIndex = rx.bodyBufferEnqueueIndex
          /\ rx'.url = IF state = "ReceiveRequestUrl" THEN Append(rx.url, token.data)
                                                       ELSE <<token.data>>
      BY <1>0, <2>1 DEF ReceiveData
    <2>3. PhaseInv'
      BY <1>0, <1>1, <2>1 DEF PhaseInv, BeforeMessage, Fires
    <2>4. Flow' = Flow
      BY <1>1, <2>1, <2>2, FlowInHead
    <2>5. ASSUME NEW n \in Nat, n < Len(sent), n + 1 \in DOMAIN sent, token = sent[n + 1],
                 sent[n + 1].on = "url", CollectedInv(n)
          PROVE  CollectedInv(n + 1)'
      <3>1. PICK url \in Pieces : url = IF state = "ReceiveRequestUrl" THEN rx.url ELSE <<>>
        <4>1. rx.url \in Pieces /\ <<>> \in Pieces
          BY <1>0 DEF ReceiveData, Pieces
        <4> QED
          BY <4>1
      <3>2. newRequest = NoRequest /\ Collected = [url |-> url, headers |-> <<>>] /\ InHead
        BY <1>1, <2>5, <3>1 DEF CollectedInv, Collected, NoRequest, InHead
      <3>3. PICK k : k = rx.requestId + 1
        OBVIOUS
      <3>4. InHeadOf(sent, k, n) /\ RequestSent(sent, Collected, k, n) /\ sent \in Wires
        BY <2>5, <3>2, <3>3, HeadGoesOn
      <3>5. RequestSent(sent, [url |-> Append(url, sent[n + 1].data), headers |-> <<>>], k, n + 1)
        BY <2>5, <3>1, <3>2, <3>4, SentUrl
      <3>6. Append(url, sent[n + 1].data) = rx'.url
        <4>1. Append(<<>>, sent[n + 1].data) = <<sent[n + 1].data>>
          OBVIOUS
        <4> QED
          BY <2>2, <2>5, <3>1, <4>1
      <3>7. Collected' = [url |-> rx'.url, headers |-> <<>>] /\ LastCallback' = "url" /\ InHead'
        BY <2>1 DEF Collected, LastCallback, InHead
      <3>8. RequestSent(sent, Collected', k, n + 1)
        BY <3>5, <3>6, <3>7
      <3>9. newRequest' = NoRequest /\ sent[n + 1].on = LastCallback'
        BY <2>1, <2>5, <3>2, <3>7
      <3> QED
        BY <2>1, <2>2, <2>5, <3>3, <3>4, <3>7, <3>8, <3>9, HeadCollected
    <2> QED
      BY <1>0, <2>1, <2>2, <2>3, <2>4, <2>5, IntactHead
  <1>2. CASE RefuseData("CB_url")
    <2>1. "CB_url" \in Errnos \ {"OK", "CB_message_begin"}
      BY DEF Errnos
    <2> QED
      BY <1>0, <1>2, <2>1, IntactRefusedData
  <1> QED
    BY <1>1, <1>2 DEF on_url

LEMMA HeaderTypes ==
    ASSUME TypeOK
    PROVE  /\ rx \in ReceiveData /\ rx.url \in Pieces /\ rx.headerField \in Pieces
           /\ rx.headerValue \in Pieces /\ <<>> \in Pieces /\ newRequest \in Request
           /\ newRequest.headers \in Seq([field : Pieces, value : Pieces])
           /\ WithHeader.headers = Append(newRequest.headers,
                [field |-> rx.headerField, value |-> rx.headerValue])
           /\ Collected \in Request
  <1>1. /\ rx \in ReceiveData /\ rx.url \in Pieces /\ rx.headerField \in Pieces
        /\ rx.headerValue \in Pieces /\ <<>> \in Pieces /\ newRequest \in Request
        /\ newRequest.headers \in Seq([field : Pieces, value : Pieces])
    BY DEF TypeOK, ReceiveTypes, ReceiveData, Request, Pieces
  <1>2. WithHeader.headers = Append(newRequest.headers,
                                    [field |-> rx.headerField, value |-> rx.headerValue])
    BY <1>1 DEF WithHeader, Request
  <1>3. \A value \in Pieces :
          Append(newRequest.headers, [field |-> rx.headerField, value |-> value])
            \in Seq([field : Pieces, value : Pieces])
    BY <1>1
  <1>4. NoRequest \in Request /\ <<>> \in Seq([field : Pieces, value : Pieces])
    BY FreshTypes
  <1>5. Collected \in Request
    BY <1>1, <1>3, <1>4 DEF Collected, Request
  <1> QED
    BY <1>1, <1>2, <1>5

LEMMA IntactField ==
    ASSUME TypeOK, PairingInv, IntactInv, ~aborted, on_header_field PROVE IntactInv'
  <1>0. Fires("header_field") /\ rx \in ReceiveData
    BY DEF on_header_field, TypeOK, ReceiveTypes
  <1>1. CASE state \in {"ReceiveRequestHeaderValue", "ReceiveRequestUrl", "ReceiveRequestHeaderField"}
    <2>1. /\ recv = "parse" /\ recv' = "parse" /\ state' = "ReceiveRequestHeaderField"
          /\ Accept("ReceiveRequestHeaderField")
          /\ UNCHANGED <<sent, requestBodyQueue, parser>>
          /\ rx' = [rx EXCEPT !.headerField = IF state = "ReceiveRequestHeaderField"
                                                THEN Append(rx.headerField, token.data)
                                                ELSE <<token.data>>]
          /\ newRequest' = IF state = "ReceiveRequestHeaderValue" THEN WithHeader ELSE newRequest
      BY <1>1 DEF on_header_field, Fires, Parsing, Accept
    <2>2. /\ rx'.requestId = rx.requestId /\ rx'.bodyBuffers = rx.bodyBuffers
          /\ rx'.bodyBufferEnqueueIndex = rx.bodyBufferEnqueueIndex /\ rx'.url = rx.url
          /\ rx'.headerField = IF state = "ReceiveRequestHeaderField"
                                 THEN Append(rx.headerField, token.data) ELSE <<token.data>>
      BY <1>0, <2>1 DEF ReceiveData
    <2>3. PhaseInv'
      BY <1>0, <1>1, <2>1 DEF PhaseInv, BeforeMessage, Fires
    <2>4. Flow' = Flow
      BY <1>1, <2>1, <2>2, FlowInHead
    <2>5. ASSUME NEW n \in Nat, n < Len(sent), n + 1 \in DOMAIN sent, token = sent[n + 1],
                 sent[n + 1].on = "header_field", CollectedInv(n)
          PROVE  CollectedInv(n + 1)'
      <3>1. InHead /\ InHead' /\ LastCallback' = "header_field"
        BY <1>1, <2>1 DEF InHead, LastCallback
      <3>2. PICK k : k = rx.requestId + 1
        OBVIOUS
      <3>3. InHeadOf(sent, k, n) /\ RequestSent(sent, Collected, k, n) /\ sent \in Wires
            /\ sent[n].on = LastCallback
        BY <2>5, <3>1, <3>2, HeadGoesOn
      <3>4. Collected' = [url |-> rx.url,
                          headers |-> Append(newRequest'.headers,
                                             [field |-> rx'.headerField, value |-> <<>>])]
        BY <2>1, <2>2 DEF Collected
      <3>5. CASE state \in {"ReceiveRequestHeaderValue", "ReceiveRequestUrl"}
        <4>1. sent[n].on # "header_field"
          BY <3>3, <3>5 DEF LastCallback
        <4>2. PICK request \in Request : request = Collected
          BY HeaderTypes
        <4>3. request.url = rx.url /\ request.headers = newRequest'.headers
          <5>1. CASE state = "ReceiveRequestHeaderValue"
            BY <2>1, <4>2, <5>1, HeaderTypes DEF Collected
          <5>2. CASE state = "ReceiveRequestUrl"
            <6>1. newRequest.headers = <<>>
              BY <2>5, <5>2 DEF CollectedInv, NoRequest
            <6> QED
              BY <2>1, <4>2, <5>2, <6>1 DEF Collected
          <5> QED
            BY <3>5, <5>1, <5>2
        <4>4. rx'.headerField = <<sent[n + 1].data>>
          BY <2>2, <2>5, <3>5
        <4>5. RequestSent(sent, [url |-> request.url,
                                 headers |-> Append(request.headers,
                                   [field |-> <<sent[n + 1].data>>, value |-> <<>>])], k, n + 1)
          BY <2>5, <3>3, <4>1, <4>2, SentHeader
        <4> QED
          BY <3>4, <4>3, <4>4, <4>5, <2>1, <2>2, <2>5, <3>1, <3>2, <3>3, HeadCollected
      <3>6. CASE state = "ReceiveRequestHeaderField"
        <4>1. sent[n].on = "header_field"
          BY <3>3, <3>6 DEF LastCallback
        <4>2. PICK request \in Request : request = [url |-> rx.url, headers |-> newRequest.headers]
          <5>1. [url |-> rx.url, headers |-> newRequest.headers] \in Request
            BY HeaderTypes DEF Request
          <5> QED
            BY <5>1
        <4>3. request.url = rx.url /\ request.headers = newRequest.headers /\ newRequest' = newRequest
          BY <2>1, <3>6, <4>2
        <4>4. Collected = [url |-> request.url,
                           headers |-> Append(request.headers,
                                              [field |-> rx.headerField, value |-> <<>>])]
          BY <3>6, <4>3 DEF Collected
        <4>5. rx'.headerField = Append(rx.headerField, sent[n + 1].data)
          BY <2>2, <2>5, <3>6
        <4>6. PICK field \in Pieces, value \in Pieces : field = rx.headerField /\ value = <<>>
          BY HeaderTypes
        <4>7. RequestSent(sent, [url |-> request.url,
                                 headers |-> Append(request.headers,
                                   [field |-> Append(field, sent[n + 1].data), value |-> value])],
                          k, n + 1)
          <5>1. sent[n + 1].on \in {"header_field", "header_value"}
                /\ (sent[n + 1].on = "header_field" => sent[n].on = "header_field")
                /\ sent[n + 1].on # "header_value"
            BY <2>5, <4>1
          <5>2. RequestSent(sent, [url |-> request.url,
                                   headers |-> Append(request.headers,
                                                      [field |-> field, value |-> value])], k, n)
            BY <3>3, <4>4, <4>6
          <5>3. PICK longer : longer = Append(field, sent[n + 1].data)
            OBVIOUS
          <5>4. RequestSent(sent, [url |-> request.url,
                                   headers |-> Append(request.headers,
                                     [field |-> longer, value |-> value])], k, n + 1)
            BY <2>5, <3>3, <4>2, <4>6, <5>1, <5>2, <5>3, SentHeaderPiece
          <5> QED
            BY <5>3, <5>4
        <4>8. RequestSent(sent, Collected', k, n + 1)
          BY <3>4, <4>3, <4>5, <4>6, <4>7
        <4> QED
          BY <4>8, <2>1, <2>2, <2>5, <3>1, <3>2, <3>3, HeadCollected
      <3> QED
        BY <1>1, <3>5, <3>6
    <2> QED
      BY <1>0, <2>1, <2>2, <2>3, <2>4, <2>5, IntactHead
  <1>2. CASE RefuseData("CB_header_field")
    <2>1. "CB_header_field" \in Errnos \ {"OK", "CB_message_begin"}
      BY DEF Errnos
    <2> QED
      BY <1>0, <1>2, <2>1, IntactRefusedData
  <1> QED
    BY <1>1, <1>2 DEF on_header_field

LEMMA IntactValue ==
    ASSUME TypeOK, PairingInv, IntactInv, ~aborted, on_header_value PROVE IntactInv'
  <1>0. Fires("header_value") /\ rx \in ReceiveData /\ parser \in Parser
    BY DEF on_header_value, TypeOK, ReceiveTypes
  <1>1. CASE state \in {"ReceiveRequestHeaderField", "ReceiveRequestHeaderValue"}
    <2>1. /\ recv = "parse" /\ recv' = "parse" /\ state' = "ReceiveRequestHeaderValue"
          /\ Accept("ReceiveRequestHeaderValue")
          /\ UNCHANGED <<sent, newRequest, requestBodyQueue>>
          /\ rx' = [rx EXCEPT !.headerValue = IF state = "ReceiveRequestHeaderField"
                                               THEN <<token.data>>
                                               ELSE Append(rx.headerValue, token.data)]
          /\ parser' = [parser EXCEPT !.close =
                           @ \/ (rx.headerField \in ConnectionNames /\ token.data = "close")]
      BY <1>1 DEF on_header_value, Fires, Parsing, Accept
    <2>2. /\ rx'.requestId = rx.requestId /\ rx'.bodyBuffers = rx.bodyBuffers
          /\ rx'.bodyBufferEnqueueIndex = rx.bodyBufferEnqueueIndex /\ rx'.url = rx.url
          /\ rx'.headerField = rx.headerField
          /\ rx'.headerValue = IF state = "ReceiveRequestHeaderField" THEN <<token.data>>
                                                       ELSE Append(rx.headerValue, token.data)
      BY <1>0, <2>1 DEF ReceiveData
    <2>3. parser'.errno = parser.errno /\ parser'.phase = parser.phase
      BY <1>0, <2>1 DEF Parser
    <2>4. PhaseInv'
      BY <1>0, <1>1, <2>1, <2>3 DEF PhaseInv, BeforeMessage, Fires
    <2>5. Flow' = Flow
      BY <1>1, <2>1, <2>2, FlowInHead
    <2>6. ASSUME NEW n \in Nat, n < Len(sent), n + 1 \in DOMAIN sent, token = sent[n + 1],
                 sent[n + 1].on = "header_value", CollectedInv(n)
          PROVE  CollectedInv(n + 1)'
      <3>1. InHead /\ InHead' /\ LastCallback' = "header_value"
        BY <1>1, <2>1 DEF InHead, LastCallback
      <3>2. PICK k : k = rx.requestId + 1
        OBVIOUS
      <3>3. InHeadOf(sent, k, n) /\ RequestSent(sent, Collected, k, n) /\ sent \in Wires
        BY <2>6, <3>1, <3>2, HeadGoesOn
      <3>4. Collected' = [url |-> rx.url,
                          headers |-> Append(newRequest.headers,
                                        [field |-> rx.headerField, value |-> rx'.headerValue])]
        BY <2>1, <2>2 DEF Collected
      <3>5. PICK request \in Request : request = [url |-> rx.url, headers |-> newRequest.headers]
        <4>1. [url |-> rx.url, headers |-> newRequest.headers] \in Request
          BY HeaderTypes DEF Request
        <4> QED
          BY <4>1
      <3>6. PICK field \in Pieces, value \in Pieces :
              field = rx.headerField
              /\ value = IF state = "ReceiveRequestHeaderField" THEN <<>> ELSE rx.headerValue
        BY HeaderTypes
      <3>7. request.url = rx.url /\ request.headers = newRequest.headers
        BY <3>5
      <3>8. Collected = [url |-> request.url,
                         headers |-> Append(request.headers, [field |-> field, value |-> value])]
        BY <1>1, <3>6, <3>7 DEF Collected
      <3>9. PICK longer : longer = Append(value, sent[n + 1].data)
        OBVIOUS
      <3>10. RequestSent(sent, [url |-> request.url,
                                headers |-> Append(request.headers,
                                  [field |-> field, value |-> longer])], k, n + 1)
        <4>1. sent[n + 1].on \in {"header_field", "header_value"}
              /\ sent[n + 1].on # "header_field"
          BY <2>6
        <4>2. RequestSent(sent, [url |-> request.url,
                                 headers |-> Append(request.headers,
                                                    [field |-> field, value |-> value])], k, n)
          BY <3>3, <3>8
        <4> QED
          BY <2>6, <3>3, <3>5, <3>6, <3>9, <4>1, <4>2, SentHeaderPiece
      <3>11. rx'.headerValue = longer
        <4>1. Append(<<>>, sent[n + 1].data) = <<sent[n + 1].data>>
          OBVIOUS
        <4> QED
          BY <2>2, <2>6, <3>6, <3>9, <4>1
      <3>12. RequestSent(sent, Collected', k, n + 1)
        BY <3>4, <3>6, <3>7, <3>10, <3>11
      <3> QED
        BY <2>1, <2>2, <2>6, <3>1, <3>2, <3>3, <3>12, HeadCollected
    <2> QED
      BY <1>0, <2>1, <2>2, <2>3, <2>4, <2>5, <2>6, IntactHead
  <1>2. CASE RefuseData("CB_header_value")
    <2>1. "CB_header_value" \in Errnos \ {"OK", "CB_message_begin"}
      BY DEF Errnos
    <2> QED
      BY <1>0, <1>2, <2>1, IntactRefusedData
  <1> QED
    BY <1>1, <1>2 DEF on_header_value

(* The headers are complete, and the request has all of its head. *)
LEMMA IntactHeadersComplete ==
    ASSUME TypeOK, PairingInv, IntactInv, ~aborted, on_headers_complete PROVE IntactInv'
  <1>0. Fires("headers_complete")
    BY DEF on_headers_complete
  <1>1. CASE state \in {"ReceiveRequestHeaderValue", "ReceiveRequestUrl"}
    <2>1. /\ recv = "parse" /\ recv' = "parse" /\ state' = "ReceiveRequestHeadersComplete"
          /\ Accept("ReceiveRequestHeadersComplete")
          /\ UNCHANGED <<sent, rx, requestBodyQueue, parser>>
          /\ newRequest' = [(IF state = "ReceiveRequestHeaderValue" THEN WithHeader ELSE newRequest)
                              EXCEPT !.url = rx.url]
      BY <1>1 DEF on_headers_complete, Fires, Parsing, Accept
    <2>2. PhaseInv'
      BY <1>0, <1>1, <2>1 DEF PhaseInv, BeforeMessage, Fires
    <2>3. Flow' = Flow
      BY <1>1, <2>1, FlowInHead
    <2>4. ASSUME NEW n \in Nat, n < Len(sent), n + 1 \in DOMAIN sent, token = sent[n + 1],
                 sent[n + 1].on = "headers_complete", CollectedInv(n)
          PROVE  CollectedInv(n + 1)'
      <3>1. PICK k : k = rx.requestId + 1
        OBVIOUS
      <3>2. /\ MessageOf(sent, n) = k /\ Positions(sent, k, "headers_complete", n) = {}
            /\ RequestSent(sent, Collected, k, n) /\ sent \in Wires
        BY <1>1, <2>4, <3>1 DEF CollectedInv, InHead, BeforeMessage, IntactInv
      <3>3. MessageOf(sent, n + 1) = k
        BY <2>4, <3>2, MessageStep
      <3>4. newRequest' = Collected
        <4>1. CASE state = "ReceiveRequestHeaderValue"
          <5>1. Collected = [url |-> rx.url, headers |-> WithHeader.headers]
            BY <4>1, HeaderTypes DEF Collected
          <5>2. WithHeader \in Request
            BY TypeWithHeader
          <5> QED
            BY <2>1, <4>1, <5>1, <5>2 DEF Request
        <4>2. CASE state = "ReceiveRequestUrl"
          <5>1. newRequest = [url |-> <<>>, headers |-> <<>>]
            BY <2>4, <4>2 DEF CollectedInv, NoRequest
          <5> QED
            BY <2>1, <4>2, <5>1 DEF Collected
        <4> QED
          BY <1>1, <4>1, <4>2
      <3>5. /\ RequestSent(sent, Collected, k, Len(sent))
            /\ Positions(sent, k, "headers_complete", n + 1) # {}
        BY <2>4, <3>2, <3>3, SentHead
      <3>6. LastCallback' = "headers_complete"
        BY <2>1 DEF LastCallback
      <3>7. n + 1 > 0
        OBVIOUS
      <3> QED
        BY <2>1, <2>4, <3>1, <3>3, <3>4, <3>5, <3>6, <3>7
        DEF CollectedInv, BeforeMessage, InHead, AfterHead
    <2> QED
      BY <1>0, <2>1, <2>2, <2>3, <2>4, IntactHead
  <1>2. CASE Refuse("CB_headers_complete", parsed)
    <2>1. "CB_headers_complete" \in Errnos \ {"OK", "CB_message_begin"}
      BY DEF Errnos
    <2> QED
      BY <1>0, <1>2, <2>1, IntactRefusedData
  <1> QED
    BY <1>1, <1>2 DEF on_headers_complete

LEMMA IntactRejects ==
    ASSUME TypeOK, PairingInv, IntactInv, ~aborted, ParserRejects PROVE IntactInv'
  <1>1. Parsing /\ Refuse("INVALID", parsed) /\ "INVALID" \in Errnos
    BY DEF ParserRejects, Errnos
  <1>2. parsed \in {parsed, parsed + 1}
    OBVIOUS
  <1> QED
    BY <1>1, <1>2, IntactRefused

-----------------------------------------------------------------------------
(* Pieces of a body *)

(* The L chunks of flow are sound where cut says they end; longer has e after
   them, which ends at m, and more says so. *)
ChunkAfter(w, flow, longer, cut, more, done, L, e, m) ==
    /\ \A j \in 1 .. L : longer[j] = flow[j] /\ more[j] = cut[j]
    /\ longer[L + 1] = e /\ more[L + 1] = m
    /\ \A j \in 1 .. L : ChunkSound(w, flow, cut, done, j)
    /\ Extends(w, e.id + 1, ChunkStart(flow, cut, done, e.id, L + 1), m, e.buffer)
    /\ e.isEnd => Positions(w, e.id + 1, "body", m) = Positions(w, e.id + 1, "body", Len(w))

(* One more chunk: the others stay sound, and it ends where it ends. *)
LEMMA ChunkAdded ==
    ASSUME NEW w, NEW L \in Nat, NEW flow, NEW longer, NEW cut, NEW more, NEW done, NEW m, NEW e,
           ChunkAfter(w, flow, longer, cut, more, done, L, e, m)
    PROVE  /\ \A j \in 1 .. L + 1 : ChunkSound(w, longer, more, done, j)
           /\ ChunkStart(longer, more, done, e.id, L + 2) = m
  <1> USE DEF ChunkAfter
  <1>1. \A j \in 1 .. L : more[j] = cut[j]
    OBVIOUS
  <1>2. more[L + 1] = m
    OBVIOUS
  <1>3. ASSUME NEW id, NEW j \in 1 .. L + 1
        PROVE  ChunkStart(longer, more, done, id, j) = ChunkStart(flow, cut, done, id, j)
    <2>1. CASE j = 1
      BY <2>1 DEF ChunkStart
    <2>2. CASE j # 1
      <3>1. j - 1 \in 1 .. L
        BY <2>2
      <3>2. longer[j - 1] = flow[j - 1] /\ more[j - 1] = cut[j - 1]
        BY <1>1, <3>1
      <3> QED
        BY <2>2, <3>2 DEF ChunkStart
    <2> QED
      BY <2>1, <2>2
  <1>4. ASSUME NEW j \in 1 .. L PROVE ChunkSound(w, longer, more, done, j)
    <2>1. longer[j] = flow[j] /\ more[j] = cut[j] /\ j \in 1 .. L + 1
      BY <1>1
    <2>2. ChunkStart(longer, more, done, flow[j].id, j) = ChunkStart(flow, cut, done, flow[j].id, j)
      BY <1>3, <2>1
    <2>3. ChunkSound(w, flow, cut, done, j)
      OBVIOUS
    <2> QED
      BY <2>1, <2>2, <2>3 DEF ChunkSound
  <1>5. ChunkSound(w, longer, more, done, L + 1)
    <2>1. ChunkStart(longer, more, done, e.id, L + 1) = ChunkStart(flow, cut, done, e.id, L + 1)
      BY <1>3
    <2> QED
      BY <1>2, <2>1 DEF ChunkSound
  <1>6. ChunkStart(longer, more, done, e.id, L + 2) = m
    <2>1. L + 2 # 1 /\ (L + 2) - 1 = L + 1
      OBVIOUS
    <2> QED
      BY <1>2, <2>1 DEF ChunkStart
  <1> QED
    BY <1>4, <1>5, <1>6

LEMMA FlowAppended ==
    ASSUME TypeOK, PairingInv, recv = "parse", recv' = "parse",
           requestBodyQueue' = requestBodyQueue, rx'.requestId = rx.requestId,
           rx'.bodyBufferEnqueueIndex = rx.bodyBufferEnqueueIndex,
           NEW d, rx'.bodyBuffers = Append(rx.bodyBuffers, d),
           state # "ReceiveRequestMessageComplete",
           state' # "ReceiveRequestMessageComplete" \/ rx.bodyBuffers = <<>>
    PROVE  /\ Len(Flow') = Len(Flow) + 1 /\ DOMAIN Flow' = 1 .. Len(Flow) + 1
           /\ DOMAIN Flow = 1 .. Len(Flow) /\ Len(Flow) \in Nat
           /\ \A j \in 1 .. Len(Flow) : Flow'[j] = Flow[j]
           /\ Flow'[Len(Flow) + 1].buffer = d /\ Flow'[Len(Flow) + 1].id = rx.requestId
           /\ Flow'[Len(Flow) + 1].isEnd => state' = "ReceiveRequestMessageComplete"
  <1>1. PICK q \in Nat, B \in Nat : q = Len(requestBodyQueue) /\ B = Len(rx.bodyBuffers)
    BY DEF TypeOK, QueueTypes, ReceiveTypes, ReceiveData, Pieces
  <1>2. /\ Len(rx'.bodyBuffers) = B + 1 /\ rx'.bodyBuffers[B + 1] = d
        /\ \A i \in 1 .. B : rx'.bodyBuffers[i] = rx.bodyBuffers[i]
    <2>1. rx.bodyBuffers \in Seq(Data)
      BY DEF TypeOK, ReceiveTypes, ReceiveData, Pieces
    <2> QED
      BY <1>1, <2>1
  <1>3. Pushed = 0 /\ Pushed' = 0
    BY DEF Pushed, PairingInv, ControlInv
  <1>4. PICK L \in Nat : L = q + B
    BY <1>1
  <1>5. Flow = [j \in 1 .. L |->
                 IF j <= q THEN requestBodyQueue[j]
                 ELSE [buffer |-> rx.bodyBuffers[0 + j - q], id |-> rx.requestId,
                       isEnd |-> IsEnd(0 + j - q)]]
    <2>1. q + B - 0 = L
      BY <1>1, <1>4
    <2> QED
      BY <1>1, <1>3, <2>1 DEF Flow
  <1>6. Flow' = [j \in 1 .. L + 1 |->
                 IF j <= q THEN requestBodyQueue[j]
                 ELSE [buffer |-> rx'.bodyBuffers[0 + j - q], id |-> rx.requestId,
                       isEnd |-> IsEnd(0 + j - q)']]
    <2>1. q + (B + 1) - 0 = L + 1
      BY <1>1, <1>4
    <2> QED
      BY <1>1, <1>2, <1>3, <2>1 DEF Flow
  <1>7. DOMAIN Flow = 1 .. L /\ DOMAIN Flow' = 1 .. L + 1 /\ Len(Flow) = L /\ Len(Flow') = L + 1
    BY <1>4, <1>5, <1>6
  <1>8. ASSUME NEW j \in 1 .. L PROVE Flow'[j] = Flow[j]
    <2>1. j \in 1 .. L + 1
      OBVIOUS
    <2>2. CASE j <= q
      BY <1>5, <1>6, <2>1, <2>2
    <2>3. CASE ~(j <= q)
      <3>1. PICK i \in Nat : i = 0 + j - q
        BY <1>1, <2>3
      <3>2. i \in 1 .. B
        BY <1>1, <1>4, <2>3, <3>1
      <3>3. IsEnd(i)' = IsEnd(i)
        <4>1. state' # "ReceiveRequestMessageComplete"
          BY <1>1, <3>2
        <4> QED
          BY <4>1 DEF IsEnd
      <3>4. rx'.bodyBuffers[i] = rx.bodyBuffers[i]
        BY <1>2, <3>2
      <3> QED
        BY <1>5, <1>6, <2>1, <2>3, <3>1, <3>3, <3>4
    <2> QED
      BY <2>2, <2>3
  <1>9. /\ Flow'[L + 1].buffer = d /\ Flow'[L + 1].id = rx.requestId
        /\ Flow'[L + 1].isEnd => state' = "ReceiveRequestMessageComplete"
    <2>1. L + 1 \in 1 .. L + 1 /\ ~(L + 1 <= q) /\ 0 + (L + 1) - q = B + 1
      BY <1>1, <1>4
    <2>2. Flow'[L + 1] = [buffer |-> rx'.bodyBuffers[B + 1], id |-> rx.requestId,
                          isEnd |-> IsEnd(B + 1)']
      BY <1>6, <2>1
    <2>3. IsEnd(B + 1)' => state' = "ReceiveRequestMessageComplete"
      BY DEF IsEnd
    <2>4. PICK b, ended : b = rx'.bodyBuffers[B + 1] /\ ended = IsEnd(B + 1)'
      OBVIOUS
    <2>5. Flow'[L + 1] = [buffer |-> b, id |-> rx.requestId, isEnd |-> ended]
      BY <2>2, <2>4
    <2>6. /\ Flow'[L + 1].buffer = b /\ Flow'[L + 1].id = rx.requestId
          /\ Flow'[L + 1].isEnd = ended
      BY <2>5
    <2> QED
      BY <1>2, <2>3, <2>4, <2>6
  <1> QED
    BY <1>4, <1>7, <1>8, <1>9

LEMMA FlowGrows ==
    ASSUME NEW L \in Nat, NEW longer, NEW done, NEW flow, NEW cut, NEW more, NEW e, NEW m, NEW c,
           longer = Flow', Len(longer) = L + 1, DOMAIN longer = 1 .. L + 1, done = Done(c)',
           sent' = sent, e.id = rx'.requestId,
           ChunkAfter(sent, flow, longer, cut, more, done, L, e, m)
    PROVE  FlowInv(m, more, c)'
  <1>1. /\ \A j \in 1 .. L + 1 : ChunkSound(sent, longer, more, done, j)
        /\ ChunkStart(longer, more, done, e.id, L + 2) = m
    BY ChunkAdded
  <1>2. Len(longer) + 1 = L + 2
    OBVIOUS
  <1> QED
    BY <1>1, <1>2 DEF FlowInv

(* The parser finds the next piece of a body, or its end. *)
LEMMA ReceivedGrows ==
    ASSUME TypeOK, PairingInv, IntactInv, ~aborted, sent' = sent, rx'.requestId = rx.requestId, ~BodyPushed,
           NEW c, Done(c)' = Done(c),
           NEW n \in 0 .. Len(sent), NEW cut \in [DOMAIN Flow -> 0 .. Len(sent)],
           FlowInv(n, cut, c), NEW m \in 0 .. Len(sent), AcceptedUpTo(m)', CollectedInv(m)',
           Len(Flow') = Len(Flow) + 1, DOMAIN Flow' = 1 .. Len(Flow) + 1,
           \A j \in 1 .. Len(Flow) : Flow'[j] = Flow[j],
           NEW e, Flow'[Len(Flow) + 1] = e, e.id = rx.requestId,
           \A start \in 0 .. Len(sent) :
             Positions(sent, rx.requestId + 1, "body", start)
               = Positions(sent, rx.requestId + 1, "body", n)
             => Extends(sent, rx.requestId + 1, start, m, e.buffer),
           e.isEnd => Positions(sent, rx.requestId + 1, "body", m)
                        = Positions(sent, rx.requestId + 1, "body", Len(sent)),
           c \in 0 .. Len(sent)
    PROVE  ReceivedInv(c)'
  <1>1. PICK L \in Nat : L = Len(Flow) /\ DOMAIN Flow = 1 .. L
    BY FlowTypes
  <1>2. PICK more : more = [j \in 1 .. L + 1 |-> IF j = L + 1 THEN m ELSE cut[j]]
    OBVIOUS
  <1>3. more \in [DOMAIN Flow' -> 0 .. Len(sent')]
    <2>1. \A j \in 1 .. L + 1 : j = L + 1 \/ j \in DOMAIN Flow
      BY <1>1
    <2> QED
      BY <1>1, <1>2, <2>1
  <1>4. PICK start : start = ChunkStart(Flow, cut, Done(c), rx.requestId, L + 1)
    OBVIOUS
  <1>5. start \in 0 .. Len(sent)
    <2>0. 0 \in 0 .. Len(sent)
      <3>1. Len(sent) \in Nat
        BY WireTypes DEF IntactInv
      <3> QED
        BY <3>1
    <2>1. CASE L = 0
      BY <1>4, <2>0, <2>1 DEF ChunkStart, Done, DoneOf
    <2>2. CASE L # 0
      <3>1. L + 1 # 1 /\ (L + 1) - 1 = L /\ L \in DOMAIN Flow
        BY <1>1, <2>2
      <3> QED
        BY <1>4, <2>0, <3>1 DEF ChunkStart
    <2> QED
      BY <2>1, <2>2
  <1>6. Positions(sent, rx.requestId + 1, "body", start) = Positions(sent, rx.requestId + 1, "body", n)
    BY <1>1, <1>4 DEF FlowInv
  <1>7. Extends(sent, e.id + 1, start, m, e.buffer)
    BY <1>5, <1>6
  <1>8. \A j \in 1 .. L : ChunkSound(sent, Flow, cut, Done(c), j)
    BY <1>1 DEF FlowInv
  <1>9. PICK flow, longer, done : flow = Flow /\ longer = Flow' /\ done = Done(c)
    OBVIOUS
  <1>10. FlowInv(m, more, c)'
    <2>0. L \in Nat
      BY <1>1, FlowTypes
    <2>1. \A j \in 1 .. L : longer[j] = flow[j]
      BY <1>1, <1>9
    <2>2. longer[L + 1] = e
      BY <1>1, <1>9
    <2>3. Extends(sent, e.id + 1, ChunkStart(flow, cut, done, e.id, L + 1), m, e.buffer)
      BY <1>4, <1>7, <1>9
    <2>4. \A j \in 1 .. L : ChunkSound(sent, flow, cut, done, j)
      BY <1>8, <1>9
    <2>5. e.isEnd => Positions(sent, e.id + 1, "body", m) = Positions(sent, e.id + 1, "body", Len(sent))
      OBVIOUS
    <2>6. (\A j \in 1 .. L : more[j] = cut[j]) /\ more[L + 1] = m
      BY <1>2, <2>0
    <2>7. ChunkAfter(sent, flow, longer, cut, more, done, L, e, m)
      BY <2>1, <2>2, <2>3, <2>4, <2>5, <2>6 DEF ChunkAfter
    <2> QED
      BY <1>1, <1>9, <2>0, <2>7, FlowGrows
  <1>13. m \in 0 .. Len(sent')
    OBVIOUS
  <1> QED
    BY <1>3, <1>10, <1>13 DEF ReceivedInv

(* A piece of a body extends it. *)
LEMMA PieceExtends ==
    ASSUME NEW w \in Wires, NEW n \in Nat, n < Len(w), w[n + 1].on = "body",
           NEW k, MessageOf(w, n + 1) = k,
           NEW start \in 0 .. Len(w), Positions(w, k, "body", start) = Positions(w, k, "body", n)
    PROVE  Extends(w, k, start, n + 1, w[n + 1].data)
  <1>1. PICK m \in Nat : m = n + 1
    OBVIOUS
  <1>2. m \in DOMAIN w /\ m <= Len(w) /\ w[m].data # "" /\ Len(w) \in Nat
    <2>1. m \in DOMAIN w
      BY <1>1, WireTypes
    <2> QED
      BY <1>1, <2>1, WireTypes, WireOrder
  <1>3. m \in Positions(w, k, "body", Len(w))
    BY <1>1, <1>2 DEF Positions
  <1>4. m > start
    <2>0. start \in Nat
      <3>1. PICK W \in Nat : W = Len(w)
        BY <1>2
      <3>2. start \in 0 .. W
        BY <3>1
      <3> QED
        BY <3>2
    <2>1. SUFFICES ASSUME m <= start PROVE FALSE
      BY <2>0
    <2>2. m \in Positions(w, k, "body", start)
      BY <1>1, <1>2, <2>1 DEF Positions
    <2>3. m <= n
      BY <2>2 DEF Positions
    <2> QED
      BY <1>1, <2>3
  <1>5. Positions(w, k, "body", m) = Positions(w, k, "body", start) \cup {m}
    <2>1. OneMore(w, k, n)
      BY PositionsStep
    <2> QED
      BY <1>1, <2>1 DEF OneMore, Grows
  <1> QED
    BY <1>1, <1>2, <1>3, <1>4, <1>5 DEF Extends

(* The next token of a message after its head *)
LEMMA BodyGoesOn ==
    ASSUME IntactInv, NEW n \in Nat, n < Len(sent), n + 1 \in DOMAIN sent,
           sent[n + 1].on # "message_begin", CollectedInv(n), AfterHead, AfterHead',
           sent[n + 1].on = LastCallback', sent' = sent, newRequest' = newRequest,
           rx'.requestId = rx.requestId, rx'.requestEnqueued = rx.requestEnqueued
    PROVE  CollectedInv(n + 1)' /\ MessageOf(sent, n + 1) = rx.requestId + 1
  <1>1. PICK k : k = rx.requestId + 1
    OBVIOUS
  <1>2. /\ MessageOf(sent, n) = k /\ Positions(sent, k, "headers_complete", n) # {}
        /\ ~rx.requestEnqueued => RequestSent(sent, newRequest, k, Len(sent))
        /\ sent \in Wires
    BY <1>1 DEF CollectedInv, AfterHead, BeforeMessage, IntactInv
  <1>3. MessageOf(sent, n + 1) = k
    BY <1>2, MessageStep
  <1>4. OneMore(sent, k, n)
    BY <1>2, PositionsStep
  <1>5. Positions(sent, k, "headers_complete", n + 1) # {}
    BY <1>2, <1>4 DEF OneMore, Grows
  <1>6. n + 1 > 0
    OBVIOUS
  <1> QED
    BY <1>1, <1>2, <1>3, <1>5, <1>6 DEF CollectedInv, AfterHead, BeforeMessage, InHead

LEMMA IntactBody == ASSUME TypeOK, PairingInv, IntactInv, ~aborted, on_body PROVE IntactInv'
  <1>0. Fires("body") /\ rx \in ReceiveData
    BY DEF on_body, TypeOK, ReceiveTypes
  <1>1. CASE state \in {"ReceiveRequestHeadersComplete", "ReceiveRequestBody"}
    <2>1. /\ recv = "parse" /\ recv' = "parse" /\ state' = "ReceiveRequestBody"
          /\ Accept("ReceiveRequestBody")
          /\ UNCHANGED <<sent, newRequest, requestBodyQueue, parser>>
          /\ rx' = [rx EXCEPT !.bodyBuffers = Append(rx.bodyBuffers, token.data)]
      BY <1>1 DEF on_body, Fires, Parsing, Accept
    <2>2. /\ rx'.requestId = rx.requestId /\ rx'.requestEnqueued = rx.requestEnqueued
          /\ rx'.bodyBufferEnqueueIndex = rx.bodyBufferEnqueueIndex
          /\ rx'.bodyBuffers = Append(rx.bodyBuffers, token.data)
      BY <1>0, <2>1 DEF ReceiveData
    <2>3. PhaseInv'
      BY <1>0, <1>1, <2>1 DEF PhaseInv, BeforeMessage, Fires
    <2>4. /\ RequestsSent' /\ LoopInv' /\ ~aborted' /\ sent' = sent /\ UNCHANGED replyVars
          /\ \A c : Done(c)' = Done(c)
          /\ ~BodyPushed /\ ~BodyPushed'
      BY <1>0, <2>1, <2>3, AcceptKeeps DEF Fires
    <2>5. PICK L, e :
             /\ L \in Nat /\ L = Len(Flow) /\ Len(Flow') = L + 1 /\ DOMAIN Flow' = 1 .. L + 1
             /\ \A j \in 1 .. L : Flow'[j] = Flow[j]
             /\ e = Flow'[L + 1] /\ e.buffer = token.data /\ e.id = rx.requestId /\ ~e.isEnd
      <3>1. state # "ReceiveRequestMessageComplete" /\ state' # "ReceiveRequestMessageComplete"
        BY <1>1, <2>1
      <3>2. PICK d : d = token.data
        OBVIOUS
      <3>3. /\ Len(Flow') = Len(Flow) + 1 /\ DOMAIN Flow' = 1 .. Len(Flow) + 1
            /\ Len(Flow) \in Nat
            /\ \A j \in 1 .. Len(Flow) : Flow'[j] = Flow[j]
            /\ Flow'[Len(Flow) + 1].buffer = d /\ Flow'[Len(Flow) + 1].id = rx.requestId
            /\ ~Flow'[Len(Flow) + 1].isEnd
        BY <2>1, <2>2, <3>1, <3>2, FlowAppended
      <3> QED
        BY <3>2, <3>3
    <2>6. ASSUME NEW c \in 0 .. Len(sent), ReceivedInv(c) PROVE ReceivedInv(c)'
      <3>1. PICK n \in 0 .. Len(sent), cut \in [DOMAIN Flow -> 0 .. Len(sent)] :
              AcceptedUpTo(n) /\ CollectedInv(n) /\ FlowInv(n, cut, c)
        BY <2>6 DEF ReceivedInv
      <3>2. /\ n \in Nat /\ n < Len(sent) /\ n + 1 \in 0 .. Len(sent) /\ n + 1 \in DOMAIN sent
            /\ token = sent[n + 1] /\ sent[n + 1].on = "body" /\ sent[n + 1].data \in Data
            /\ AcceptedUpTo(n + 1)'
        BY <1>0, <2>1, <3>1, TokenAccepted
      <3>3. AfterHead /\ AfterHead' /\ LastCallback' = "body" /\ sent \in Wires
        BY <1>1, <2>1 DEF AfterHead, LastCallback, IntactInv
      <3>4. CollectedInv(n + 1)' /\ MessageOf(sent, n + 1) = rx.requestId + 1
        BY <2>1, <2>2, <3>1, <3>2, <3>3, BodyGoesOn
      <3>5. PICK m \in 0 .. Len(sent) : m = n + 1
        BY <3>2
      <3>6. ASSUME NEW start \in 0 .. Len(sent),
                   Positions(sent, rx.requestId + 1, "body", start)
                     = Positions(sent, rx.requestId + 1, "body", n)
            PROVE  Extends(sent, rx.requestId + 1, start, m, e.buffer)
        BY <2>5, <3>2, <3>3, <3>4, <3>5, <3>6, PieceExtends
      <3> QED
        BY <2>2, <2>4, <2>5, <3>1, <3>2, <3>4, <3>5, <3>6, ReceivedGrows
    <2> QED
      BY <2>4, <2>6, IntactReceiving
  <1>2. CASE RefuseData("CB_body")
    <2>1. "CB_body" \in Errnos \ {"OK", "CB_message_begin"}
      BY DEF Errnos
    <2> QED
      BY <1>0, <1>2, <2>1, IntactRefusedData
  <1> QED
    BY <1>1, <1>2 DEF on_body

(* The last chunk found becomes the end of its body. *)
LEMMA FlowMarked ==
    ASSUME TypeOK, PairingInv, recv = "parse", recv' = "parse",
           requestBodyQueue' = requestBodyQueue, rx'.requestId = rx.requestId,
           rx'.bodyBufferEnqueueIndex = rx.bodyBufferEnqueueIndex,
           rx'.bodyBuffers = rx.bodyBuffers, rx.bodyBuffers # <<>>
    PROVE  /\ Len(Flow) \in Nat /\ Len(Flow) > 0 /\ DOMAIN Flow = 1 .. Len(Flow)
           /\ Len(Flow') = Len(Flow) /\ DOMAIN Flow' = 1 .. Len(Flow)
           /\ Flow[Len(Flow)].id = rx.requestId
           /\ \A j \in 1 .. Len(Flow) :
                /\ Flow'[j].buffer = Flow[j].buffer /\ Flow'[j].id = Flow[j].id
                /\ Flow'[j].isEnd => Flow[j].isEnd \/ j = Len(Flow)
  <1>1. PICK q \in Nat, B \in Nat : q = Len(requestBodyQueue) /\ B = Len(rx.bodyBuffers)
    <2>1. requestBodyQueue \in Seq(BodyEntry) /\ rx.bodyBuffers \in Seq(Data)
      BY DEF TypeOK, QueueTypes, ReceiveTypes, ReceiveData, Pieces
    <2>2. Len(requestBodyQueue) \in Nat /\ Len(rx.bodyBuffers) \in Nat
      BY <2>1
    <2> QED
      BY <2>2
  <1>2. B > 0
    <2>1. rx.bodyBuffers \in Seq(Data)
      BY DEF TypeOK, ReceiveTypes, ReceiveData, Pieces
    <2> QED
      BY <1>1, <2>1
  <1>3. Pushed = 0 /\ Pushed' = 0
    BY DEF Pushed, PairingInv, ControlInv
  <1>4. PICK L \in Nat : L = q + B /\ L > 0
    BY <1>1, <1>2
  <1>5. Flow = [j \in 1 .. L |->
                 IF j <= q THEN requestBodyQueue[j]
                 ELSE [buffer |-> rx.bodyBuffers[0 + j - q], id |-> rx.requestId,
                       isEnd |-> IsEnd(0 + j - q)]]
    <2>1. q + B - 0 = L
      BY <1>1, <1>4
    <2> QED
      BY <1>1, <1>3, <2>1 DEF Flow
  <1>6. Flow' = [j \in 1 .. L |->
                 IF j <= q THEN requestBodyQueue[j]
                 ELSE [buffer |-> rx.bodyBuffers[0 + j - q], id |-> rx.requestId,
                       isEnd |-> IsEnd(0 + j - q)']]
    <2>1. q + B - 0 = L
      BY <1>1, <1>4
    <2> QED
      BY <1>1, <1>3, <2>1 DEF Flow
  <1>7. DOMAIN Flow = 1 .. L /\ DOMAIN Flow' = 1 .. L /\ Len(Flow) = L /\ Len(Flow') = L
    BY <1>4, <1>5, <1>6
  <1>8. ASSUME NEW j \in 1 .. L
        PROVE  /\ Flow'[j].buffer = Flow[j].buffer /\ Flow'[j].id = Flow[j].id
               /\ Flow'[j].isEnd => Flow[j].isEnd \/ j = L
               /\ j = L => Flow[j].id = rx.requestId
    <2>1. CASE j <= q
      <3>1. Flow'[j] = requestBodyQueue[j] /\ Flow[j] = requestBodyQueue[j]
        BY <1>5, <1>6, <2>1
      <3>2. j # L
        BY <1>1, <1>2, <1>4, <2>1
      <3> QED
        BY <3>1, <3>2
    <2>2. CASE ~(j <= q)
      <3>1. PICK i, b, was, is :
              i \in Nat /\ i = 0 + j - q /\ b = rx.bodyBuffers[i] /\ was = IsEnd(i) /\ is = IsEnd(i)'
        <4>1. 0 + j - q \in Nat
          BY <1>1, <2>2
        <4> QED
          BY <4>1
      <3>2. /\ Flow[j] = [buffer |-> b, id |-> rx.requestId, isEnd |-> was]
            /\ Flow'[j] = [buffer |-> b, id |-> rx.requestId, isEnd |-> is]
        BY <1>5, <1>6, <2>2, <3>1
      <3>3. is => j = L
        <4>1. is => i = B
          BY <1>1, <3>1 DEF IsEnd
        <4> QED
          BY <1>1, <1>4, <3>1, <4>1
      <3> QED
        BY <3>2, <3>3
    <2> QED
      BY <2>1, <2>2
  <1> QED
    BY <1>4, <1>7, <1>8

(* The same L chunks, but that the last one may have become an end *)
Marked(flow, marked, L) ==
    \A j \in 1 .. L : /\ marked[j].buffer = flow[j].buffer /\ marked[j].id = flow[j].id
                      /\ marked[j].isEnd => flow[j].isEnd \/ j = L

ChunksMarked(w, flow, marked, cut, done, L) ==
    /\ Marked(flow, marked, L)
    /\ \A j \in 1 .. L : ChunkSound(w, flow, cut, done, j)
    /\ Positions(w, flow[L].id + 1, "body", cut[L])
          = Positions(w, flow[L].id + 1, "body", Len(w))

(* The chunks stay where they are; the last one ends at the end. *)
LEMMA ChunkMarked ==
    ASSUME NEW w, NEW L \in Nat, L > 0, NEW flow, NEW marked, NEW cut, NEW done,
           ChunksMarked(w, flow, marked, cut, done, L)
    PROVE  \A j \in 1 .. L : ChunkSound(w, marked, cut, done, j)
  <1> USE DEF ChunksMarked
  <1>0. \A j \in 1 .. L : marked[j].id = flow[j].id
    BY DEF Marked
  <1>1. ASSUME NEW id, NEW j \in 1 .. L
        PROVE  ChunkStart(marked, cut, done, id, j) = ChunkStart(flow, cut, done, id, j)
    <2>1. CASE j = 1
      BY <2>1 DEF ChunkStart
    <2>2. CASE j # 1
      <3>1. j - 1 \in 1 .. L
        BY <2>2
      <3> QED
        BY <1>0, <2>2, <3>1 DEF ChunkStart
    <2> QED
      BY <2>1, <2>2
  <1>2. ASSUME NEW j \in 1 .. L PROVE ChunkSound(w, marked, cut, done, j)
    <2>1. ChunkSound(w, flow, cut, done, j)
      OBVIOUS
    <2>2. ChunkStart(marked, cut, done, flow[j].id, j) = ChunkStart(flow, cut, done, flow[j].id, j)
      BY <1>1
    <2>3. /\ marked[j].buffer = flow[j].buffer /\ marked[j].id = flow[j].id
          /\ marked[j].isEnd => flow[j].isEnd \/ j = L
      BY DEF Marked
    <2> QED
      BY <2>1, <2>2, <2>3 DEF ChunkSound
  <1> QED
    BY <1>2

LEMMA FlowEnds ==
    ASSUME NEW L \in Nat, L > 0, NEW flow, NEW marked, NEW cut, NEW done, NEW m, NEW c,
           flow = Flow, marked = Flow', Len(flow) = L, DOMAIN flow = 1 .. L,
           Len(marked) = L, DOMAIN marked = 1 .. L, done = Done(c), done = Done(c)',
           sent' = sent, rx'.requestId = rx.requestId, flow[L].id = rx.requestId, ~BodyPushed,
           Marked(flow, marked, L),
           NEW n, FlowInv(n, cut, c),
           Positions(sent, rx.requestId + 1, "body", n) = Positions(sent, rx.requestId + 1, "body", m),
           Positions(sent, rx.requestId + 1, "body", m)
             = Positions(sent, rx.requestId + 1, "body", Len(sent))
    PROVE  FlowInv(m, cut, c)'
  <1>1. \A j \in 1 .. L : ChunkSound(sent, flow, cut, done, j)
    BY DEF FlowInv
  <1>2. Positions(sent, rx.requestId + 1, "body", cut[L]) = Positions(sent, rx.requestId + 1, "body", n)
    <2>1. ChunkStart(flow, cut, done, rx.requestId, L + 1) = cut[L]
      <3>1. L + 1 # 1 /\ (L + 1) - 1 = L
        OBVIOUS
      <3> QED
        BY <3>1 DEF ChunkStart
    <2> QED
      BY <2>1 DEF FlowInv
  <1>3. Positions(sent, flow[L].id + 1, "body", cut[L]) = Positions(sent, flow[L].id + 1, "body", Len(sent))
    BY <1>2
  <1>4. \A j \in 1 .. L : ChunkSound(sent, marked, cut, done, j)
    <2>1. ChunksMarked(sent, flow, marked, cut, done, L)
      BY <1>1, <1>3 DEF ChunksMarked
    <2> QED
      BY <2>1, ChunkMarked
  <1>5. ChunkStart(marked, cut, done, rx.requestId, L + 1) = cut[L]
    <2>1. L + 1 # 1 /\ (L + 1) - 1 = L /\ L \in 1 .. L
      OBVIOUS
    <2>2. marked[L].id = rx.requestId
      BY <2>1 DEF Marked
    <2> QED
      BY <2>1, <2>2 DEF ChunkStart
  <1> QED
    BY <1>2, <1>4, <1>5 DEF FlowInv

LEMMA IntactMessageComplete ==
    ASSUME TypeOK, PairingInv, IntactInv, ~aborted, on_message_complete PROVE IntactInv'
  <1>0. Fires("message_complete") /\ rx \in ReceiveData /\ parser \in Parser
    BY DEF on_message_complete, TypeOK, ReceiveTypes
  <1>1. CASE state \in {"ReceiveRequestHeadersComplete", "ReceiveRequestBody"}
    <2>1. /\ recv = "parse" /\ recv' = "parse" /\ state' = "ReceiveRequestMessageComplete"
          /\ Accept("ReceiveRequestMessageComplete")
          /\ UNCHANGED <<sent, newRequest, requestBodyQueue>>
          /\ rx' = [rx EXCEPT !.bodyBuffers = BodyBuffersAtEnd]
          /\ parser' = [parser EXCEPT !.phase = IF parser.close THEN "dead" ELSE "start"]
      BY <1>1 DEF on_message_complete, Fires, Parsing, Accept
    <2>2. /\ rx'.requestId = rx.requestId /\ rx'.requestEnqueued = rx.requestEnqueued
          /\ rx'.bodyBufferEnqueueIndex = rx.bodyBufferEnqueueIndex
          /\ rx'.bodyBuffers = BodyBuffersAtEnd
      BY <1>0, <2>1 DEF ReceiveData
    <2>3. parser'.errno = parser.errno /\ parser'.phase \in {"dead", "start"}
      BY <1>0, <2>1 DEF Parser
    <2>4. PhaseInv'
      BY <2>1, <2>3 DEF PhaseInv, BeforeMessage, InHead
    <2>5. /\ RequestsSent' /\ LoopInv' /\ ~aborted' /\ sent' = sent /\ UNCHANGED replyVars
          /\ \A c : Done(c)' = Done(c)
          /\ ~BodyPushed /\ ~BodyPushed'
      BY <1>0, <2>1, <2>4, AcceptKeeps DEF Fires
    <2>6. AfterHead /\ AfterHead' /\ LastCallback' = "message_complete" /\ sent \in Wires
      BY <1>1, <2>1 DEF AfterHead, LastCallback, IntactInv
    <2>7. ASSUME NEW n \in Nat, n < Len(sent), n + 1 \in DOMAIN sent,
                 sent[n + 1].on = "message_complete", CollectedInv(n)
          PROVE  CollectedInv(n + 1)' /\ MessageOf(sent, n + 1) = rx.requestId + 1
      BY <2>1, <2>2, <2>6, <2>7, BodyGoesOn
    <2>8. CASE rx.bodyBuffers = <<>> /\ ~rx.requestEnqueued
      <3>1. rx'.bodyBuffers = rx.bodyBuffers
        BY <2>2, <2>8 DEF BodyBuffersAtEnd
      <3>2. Flow' = Flow
        BY <2>1, <2>2, <2>8, <3>1, FlowInHead
      <3> QED
        BY <1>0, <2>1, <2>2, <2>3, <2>4, <2>7, <3>2, IntactHead
    <2>9. ASSUME NEW n \in Nat, n < Len(sent), n + 1 \in DOMAIN sent,
                 sent[n + 1].on = "message_complete", CollectedInv(n)
          PROVE  /\ Positions(sent, rx.requestId + 1, "body", n)
                      = Positions(sent, rx.requestId + 1, "body", n + 1)
                 /\ Positions(sent, rx.requestId + 1, "body", n + 1)
                      = Positions(sent, rx.requestId + 1, "body", Len(sent))
      <3>1. MessageOf(sent, n + 1) = rx.requestId + 1
        BY <2>7, <2>9
      <3>2. OneMore(sent, rx.requestId + 1, n)
        BY <2>6, <2>9, PositionsStep
      <3>3. PICK i : i = n + 1
        OBVIOUS
      <3>4. Positions(sent, rx.requestId + 1, "body", Len(sent))
              = Positions(sent, rx.requestId + 1, "body", i)
        BY <2>6, <2>9, <3>1, <3>3, SentAll
      <3> QED
        BY <2>9, <3>2, <3>3, <3>4 DEF OneMore, Grows
    <2>10. CASE rx.bodyBuffers = <<>> /\ rx.requestEnqueued
      <3>1. rx'.bodyBuffers = Append(rx.bodyBuffers, "")
        <4>1. Append(<<>>, "") = <<"">>
          OBVIOUS
        <4>2. BodyBuffersAtEnd = <<"">>
          BY <2>10 DEF BodyBuffersAtEnd
        <4> QED
          BY <2>2, <2>10, <4>1, <4>2
      <3>2. PICK L, e :
               /\ L \in Nat /\ L = Len(Flow) /\ Len(Flow') = L + 1 /\ DOMAIN Flow' = 1 .. L + 1
               /\ \A j \in 1 .. L : Flow'[j] = Flow[j]
               /\ e = Flow'[L + 1] /\ e.buffer = "" /\ e.id = rx.requestId
        <4>1. state # "ReceiveRequestMessageComplete"
          BY <1>1
        <4>2. PICK d : d = ""
          OBVIOUS
        <4>3. /\ Len(Flow') = Len(Flow) + 1 /\ DOMAIN Flow' = 1 .. Len(Flow) + 1
              /\ Len(Flow) \in Nat
              /\ \A j \in 1 .. Len(Flow) : Flow'[j] = Flow[j]
              /\ Flow'[Len(Flow) + 1].buffer = d /\ Flow'[Len(Flow) + 1].id = rx.requestId
          BY <2>1, <2>2, <2>10, <3>1, <4>1, <4>2, FlowAppended
        <4> QED
          BY <4>2, <4>3
      <3>3. ASSUME NEW c \in 0 .. Len(sent), ReceivedInv(c) PROVE ReceivedInv(c)'
        <4>1. PICK n \in 0 .. Len(sent), cut \in [DOMAIN Flow -> 0 .. Len(sent)] :
                AcceptedUpTo(n) /\ CollectedInv(n) /\ FlowInv(n, cut, c)
          BY <3>3 DEF ReceivedInv
        <4>2. /\ n \in Nat /\ n < Len(sent) /\ n + 1 \in 0 .. Len(sent) /\ n + 1 \in DOMAIN sent
              /\ token = sent[n + 1] /\ sent[n + 1].on = "message_complete"
              /\ AcceptedUpTo(n + 1)'
          BY <1>0, <2>1, <2>3, <4>1, TokenAccepted
        <4>3. PICK m \in 0 .. Len(sent) : m = n + 1
          BY <4>2
        <4>4. /\ CollectedInv(m)'
              /\ Positions(sent, rx.requestId + 1, "body", n)
                   = Positions(sent, rx.requestId + 1, "body", m)
              /\ Positions(sent, rx.requestId + 1, "body", m)
                   = Positions(sent, rx.requestId + 1, "body", Len(sent))
          BY <2>7, <2>9, <4>1, <4>2, <4>3
        <4>5. ASSUME NEW start \in 0 .. Len(sent),
                     Positions(sent, rx.requestId + 1, "body", start)
                       = Positions(sent, rx.requestId + 1, "body", n)
              PROVE  Extends(sent, rx.requestId + 1, start, m, e.buffer)
          BY <3>2, <4>4, <4>5 DEF Extends
        <4> QED
          BY <2>2, <2>5, <3>2, <4>1, <4>2, <4>3, <4>4, <4>5, ReceivedGrows
      <3> QED
        BY <2>5, <3>3, IntactReceiving
    <2>11. CASE rx.bodyBuffers # <<>>
      <3>1. rx'.bodyBuffers = rx.bodyBuffers
        BY <2>2, <2>11 DEF BodyBuffersAtEnd
      <3>2. PICK L, flow, marked :
              /\ L \in Nat /\ L > 0 /\ flow = Flow /\ marked = Flow' /\ Len(flow) = L /\ DOMAIN flow = 1 .. L
              /\ Len(marked) = L /\ DOMAIN marked = 1 .. L /\ flow[L].id = rx.requestId
              /\ Marked(flow, marked, L)
        BY <2>1, <2>2, <2>11, <3>1, FlowMarked DEF Marked
      <3>3. ASSUME NEW c \in 0 .. Len(sent), ReceivedInv(c) PROVE ReceivedInv(c)'
        <4>1. PICK n \in 0 .. Len(sent), cut \in [DOMAIN Flow -> 0 .. Len(sent)] :
                AcceptedUpTo(n) /\ CollectedInv(n) /\ FlowInv(n, cut, c)
          BY <3>3 DEF ReceivedInv
        <4>2. /\ n \in Nat /\ n < Len(sent) /\ n + 1 \in 0 .. Len(sent) /\ n + 1 \in DOMAIN sent
              /\ token = sent[n + 1] /\ sent[n + 1].on = "message_complete"
              /\ AcceptedUpTo(n + 1)'
          BY <1>0, <2>1, <2>3, <4>1, TokenAccepted
        <4>3. PICK m, done : m \in 0 .. Len(sent) /\ m = n + 1 /\ done = Done(c)
          BY <4>2
        <4>4. /\ CollectedInv(m)'
              /\ Positions(sent, rx.requestId + 1, "body", n)
                   = Positions(sent, rx.requestId + 1, "body", m)
              /\ Positions(sent, rx.requestId + 1, "body", m)
                   = Positions(sent, rx.requestId + 1, "body", Len(sent))
          BY <2>7, <2>9, <4>1, <4>2, <4>3
        <4>5. done = Done(c)'
          BY <2>5, <4>3
        <4>6. FlowInv(m, cut, c)'
          BY <2>2, <2>5, <3>2, <4>1, <4>3, <4>4, <4>5, FlowEnds
        <4>7. cut \in [DOMAIN Flow' -> 0 .. Len(sent')]
          BY <2>5, <3>2
        <4> QED
          BY <2>5, <4>2, <4>3, <4>4, <4>6, <4>7 DEF ReceivedInv
      <3> QED
        BY <2>5, <3>3, IntactReceiving
    <2> QED
      BY <2>8, <2>10, <2>11
  <1>2. CASE Refuse("CB_message_complete", parsed + 1)
    <2>1. "CB_message_complete" \in Errnos \ {"OK", "CB_message_begin"}
      BY DEF Errnos
    <2> QED
      BY <1>0, <1>2, <2>1, IntactRefusedData
  <1> QED
    BY <1>1, <1>2 DEF on_message_complete

LEMMA IntactParseReturns ==
    ASSUME TypeOK, PairingInv, IntactInv, ~aborted, ~aborted', ParseReturns PROVE IntactInv'
  <1>1. /\ recv = "parse" /\ recv' \in {"enqueue", "firstBody"}
        /\ UNCHANGED <<sent, wire, arrived, state, parser, lastBuffer, parsed, newRequest, rx,
                       requestQueue, requestBodyQueue, pushing>>
        /\ UNCHANGED replyVars
        /\ \/ parsed = Len(lastBuffer) /\ nextRequestBuffer' = nextRequestBuffer
           \/ /\ parsed # Len(lastBuffer) /\ PipelinedRest
              /\ nextRequestBuffer' = SubSeq(lastBuffer, parsed, Len(lastBuffer))
    BY DEF ParseReturns, Shutdown
  <1>2. LoopInv /\ sent \in Wires /\ lastBuffer \in Seq(Token) /\ wire \in Seq(Token)
        /\ parsed \in Nat /\ parsed <= Len(lastBuffer) /\ nextRequestBuffer = <<>>
        /\ Unparsed = lastBuffer /\ Unparsed' = nextRequestBuffer'
    BY <1>1 DEF IntactInv, TypeOK, ClientTypes, ReceiveTypes, LoopInv, WireInv, Unparsed
  <1>3. PICK L \in Nat, W \in Nat, U \in Nat :
             L = Len(sent) /\ W = Len(wire) /\ U = Len(lastBuffer)
    BY <1>2, WireTypes
  <1>4. /\ U + W <= L /\ Place = L - W - U + parsed
        /\ \A i \in DOMAIN lastBuffer : lastBuffer[i] = sent[L - W - U + i]
        /\ \A i \in DOMAIN wire : wire[i] = sent[L - W + i]
    BY <1>1, <1>2, <1>3 DEF LoopInv, WireInv, Place
  <1>5. LoopInv' /\ (parsed = U => Place' = Place) /\ (parsed # U => Place' = Place - 1)
    <2>1. CASE parsed = U
      <3>1. Unparsed' = <<>> /\ Len(Unparsed') = 0 /\ DOMAIN Unparsed' = {}
        BY <1>1, <1>2, <1>3, <2>1
      <3>2. Place' = L - W - 0 + 0
        BY <1>1, <1>3, <3>1 DEF Place
      <3>3. Place' = Place
        BY <1>3, <1>4, <2>1, <3>2
      <3>4. 0 + W <= L
        BY <1>3, <1>4
      <3>5. WireInv'
        <4>1. arrived'.kind # "data" => arrived'.data = <<>>
          BY <1>1, <1>2 DEF LoopInv, WireInv
        <4>2. \A i \in DOMAIN wire' : wire'[i] = sent'[Len(sent') - Len(wire') + i]
          BY <1>1, <1>3, <1>4
        <4> QED
          BY <1>1, <1>3, <3>1, <3>4, <4>1, <4>2 DEF WireInv
      <3>6. PhaseInv'
        BY <1>1, <1>2 DEF LoopInv, PhaseInv, BeforeMessage, InHead
      <3> QED
        BY <1>1, <2>1, <3>3, <3>5, <3>6 DEF LoopInv
    <2>2. CASE parsed # U
      <3>1. PICK m \in 1 .. U : m + 1 = parsed
        <4>1. parsed > 1
          BY <1>1, <1>3, <2>2 DEF PipelinedRest
        <4>2. parsed - 1 \in 1 .. U /\ (parsed - 1) + 1 = parsed
          BY <1>2, <1>3, <4>1
        <4> QED
          BY <4>2
      <3>2. /\ Len(Unparsed') = U - m /\ DOMAIN Unparsed' = 1 .. U - m
            /\ \A i \in 1 .. U - m : Unparsed'[i] = lastBuffer[m + i]
            /\ DOMAIN lastBuffer = 1 .. U /\ m \in Nat
        <4>1. Unparsed' = SubSeq(lastBuffer, m + 1, Len(lastBuffer))
          BY <1>1, <1>2, <1>3, <2>2, <3>1
        <4>2. /\ lastBuffer \in Seq(Token) /\ U = Len(lastBuffer)
              /\ m \in 1 .. Len(lastBuffer)
          BY <1>2, <1>3, <3>1
        <4>3. /\ Len(SubSeq(lastBuffer, m + 1, Len(lastBuffer))) = U - m
              /\ DOMAIN SubSeq(lastBuffer, m + 1, Len(lastBuffer)) = 1 .. U - m
              /\ \A i \in 1 .. U - m :
                   SubSeq(lastBuffer, m + 1, Len(lastBuffer))[i] = lastBuffer[m + i]
              /\ DOMAIN lastBuffer = 1 .. U /\ m \in Nat
          BY <4>2, SplitAt
        <4> QED
          BY <4>1, <4>3
      <3>3. Place' = L - W - (U - m) + 0
        BY <1>1, <1>3, <3>2 DEF Place
      <3>4. Place' = Place - 1 /\ (U - m) + W <= L
        <4>1. U + W <= L /\ Place = L - W - U + parsed
          BY <1>4
        <4>2. m \in Nat /\ m <= U /\ parsed = m + 1
          BY <1>3, <3>1
        <4>3. /\ L - W - (U - m) + 0 = (L - W - U + (m + 1)) - 1
              /\ U + W <= L => (U - m) + W <= L
          BY <1>3, <4>2
        <4> QED
          BY <3>3, <4>1, <4>2, <4>3
      <3>5. WireInv'
        <4>1. arrived'.kind # "data" => arrived'.data = <<>>
          BY <1>1, <1>2 DEF LoopInv, WireInv
        <4>2. \A i \in DOMAIN wire' : wire'[i] = sent'[Len(sent') - Len(wire') + i]
          BY <1>1, <1>3, <1>4
        <4>3. \A i \in DOMAIN Unparsed' :
                Unparsed'[i] = sent'[Len(sent') - Len(wire') - Len(Unparsed') + i]
          <5> SUFFICES ASSUME NEW i \in DOMAIN Unparsed'
                       PROVE  Unparsed'[i] = sent'[Len(sent') - Len(wire') - Len(Unparsed') + i]
            OBVIOUS
          <5>1. i \in Nat /\ m + i \in 1 .. U /\ Unparsed'[i] = lastBuffer[m + i]
            BY <1>3, <3>2
          <5>2. lastBuffer[m + i] = sent[L - W - U + (m + i)]
            BY <1>4, <3>2, <5>1
          <5>3. L - W - U + (m + i) = L - W - (U - m) + i
            <6>1. L \in Nat /\ W \in Nat /\ U \in Nat /\ m \in Nat /\ i \in Nat
              BY <1>3, <3>2, <5>1
            <6> QED
              BY <6>1
          <5> QED
            BY <1>1, <1>3, <3>2, <5>1, <5>2, <5>3
        <4>4. Len(Unparsed') + Len(wire') <= Len(sent')
          BY <1>1, <1>3, <3>2, <3>4
        <4> QED
          BY <1>1, <4>1, <4>2, <4>3, <4>4 DEF WireInv
      <3>6. PhaseInv'
        BY <1>1, <1>2 DEF LoopInv, PhaseInv, BeforeMessage, InHead
      <3> QED
        BY <1>1, <2>2, <3>4, <3>5, <3>6 DEF LoopInv
    <2> QED
      BY <2>1, <2>2
  <1>6. \A n : AcceptedUpTo(n) => AcceptedUpTo(n)'
    <2>1. CASE parsed = U
      <3>1. Stuck => Stuck'
        BY <1>1, <1>3, <2>1 DEF Stuck
      <3> QED
        BY <1>1, <1>5, <2>1, <3>1 DEF AcceptedUpTo
    <2>2. CASE parsed # U
      <3>1. parser.errno = "CB_message_begin" /\ state = "ReceiveRequestMessageComplete"
        BY <1>1, <1>3, <2>2 DEF PipelinedRest
      <3> QED
        BY <1>1, <1>5, <2>2, <3>1 DEF AcceptedUpTo, Stuck
    <2> QED
      BY <2>1, <2>2
  <1>7. RequestsSent'
    BY <1>1, RequestsKept DEF IntactInv, Handling
  <1>8. Flow' = Flow /\ ~BodyPushed
    <2>1. Pushed' = Pushed
      BY <1>1 DEF Pushed
    <2> QED
      BY <1>1, <2>1, FlowSame DEF BodyPushed
  <1>9. \A c : Done(c)' = Done(c)
    BY <1>1 DEF Done, Handling
  <1>10. \A n : CollectedInv(n) => CollectedInv(n)'
    BY <1>1, CollectedSame
  <1>11. \A c \in 0 .. Len(sent) : ReceivedInv(c) => ReceivedInv(c)'
    BY <1>1, <1>6, <1>8, <1>9, <1>10, ReceivedStays
  <1> QED
    BY <1>1, <1>5, <1>7, <1>11, IntactReceiving

-----------------------------------------------------------------------------
(* The receive loop fills the queues *)

(* Between a parse and the next read, the place on the wire stays. *)
LEMMA LoopWaits ==
    ASSUME UNCHANGED <<sent, wire, arrived, nextRequestBuffer, state, parser>>,
           recv \notin {"none", "read", "parse"}, recv' \notin {"none", "read", "parse"}
    PROVE  /\ WireInv => WireInv'
           /\ PhaseInv => PhaseInv'
           /\ \A n : AcceptedUpTo(n) => AcceptedUpTo(n)'
  <1>1. Unparsed' = Unparsed
    BY DEF Unparsed
  <1>2. Place' = Place
    BY <1>1 DEF Place
  <1> QED
    BY <1>1, <1>2 DEF WireInv, PhaseInv, BeforeMessage, InHead, AcceptedUpTo, Stuck

(* The arithmetic of a push *)
SameIndexes(q, B, P) ==
    /\ q + B - P \in Nat /\ q + B - P = (q + 1) + B - (P + 1)
    /\ \A j \in Nat : P + j - q = (P + 1) + j - (q + 1) /\ (~(j <= q + 1) => ~(j <= q))
LEMMA FlowIndexes ==
    ASSUME NEW q \in Nat, NEW B \in Nat, NEW P \in Nat, P < B PROVE SameIndexes(q, B, P)
  BY DEF SameIndexes

(* A chunk that is pushed stays where it is in the flow. *)
LEMMA FlowPushes ==
    ASSUME NEW q \in Nat, NEW B \in Nat, NEW P \in Nat, P < B,
           q = Len(requestBodyQueue), B = Len(rx.bodyBuffers), P = Pushed, Pushed' = P + 1,
           requestBodyQueue \in Seq(BodyEntry), NEW entry,
           entry = [buffer |-> rx.bodyBuffers[P + 1], id |-> rx.requestId, isEnd |-> IsEnd(P + 1)],
           requestBodyQueue' = Append(requestBodyQueue, entry), state' = state,
           rx'.bodyBuffers = rx.bodyBuffers, rx'.requestId = rx.requestId
    PROVE  Flow' = Flow
  <1>1. /\ Len(requestBodyQueue') = q + 1 /\ requestBodyQueue'[q + 1] = entry
        /\ \A j \in 1 .. q : requestBodyQueue'[j] = requestBodyQueue[j]
    OBVIOUS
  <1>0. SameIndexes(q, B, P)
    BY FlowIndexes
  <1>2. PICK L \in Nat : L = q + B - P /\ L = (q + 1) + B - (P + 1)
    <2>1. q + B - P \in Nat /\ q + B - P = (q + 1) + B - (P + 1)
      BY <1>0 DEF SameIndexes
    <2> QED
      BY <2>1
  <1>3. \A i : IsEnd(i)' = IsEnd(i)
    BY DEF IsEnd
  <1>4. Flow = [j \in 1 .. L |->
                 IF j <= q THEN requestBodyQueue[j]
                 ELSE [buffer |-> rx.bodyBuffers[P + j - q], id |-> rx.requestId,
                       isEnd |-> IsEnd(P + j - q)]]
    BY <1>2 DEF Flow
  <1>5. Flow' = [j \in 1 .. L |->
                 IF j <= q + 1 THEN requestBodyQueue'[j]
                 ELSE [buffer |-> rx.bodyBuffers[(P + 1) + j - (q + 1)], id |-> rx.requestId,
                       isEnd |-> IsEnd((P + 1) + j - (q + 1))]]
    <2>1. /\ Len(requestBodyQueue') = q + 1 /\ Len(rx'.bodyBuffers) = B
          /\ Pushed' = P + 1 /\ (q + 1) + B - (P + 1) = L
      BY <1>1, <1>2
    <2> QED
      BY <1>3, <2>1 DEF Flow
  <1>6. ASSUME NEW j \in 1 .. L PROVE Flow'[j] = Flow[j]
    <2>1. CASE j <= q
      BY <1>1, <1>4, <1>5, <2>1
    <2>2. CASE j = q + 1
      <3>1. P + j - q = P + 1
        BY <2>2
      <3> QED
        BY <1>1, <1>4, <1>5, <2>2, <3>1
    <2>3. CASE ~(j <= q + 1)
      <3>1. P + j - q = (P + 1) + j - (q + 1) /\ ~(j <= q)
        BY <1>0, <2>3 DEF SameIndexes
      <3> QED
        BY <1>4, <1>5, <2>3, <3>1
    <2> QED
      BY <2>1, <2>2, <2>3
  <1> QED
    BY <1>4, <1>5, <1>6

LEMMA IntactEnqueueBody ==
    ASSUME TypeOK, PairingInv, IntactInv, ~aborted, EnqueueBodyBuffer PROVE IntactInv'
  <1>1. /\ recv \in {"firstBody", "body"} /\ recv' \in {"enqueueBody", "body", "pushBody"}
        /\ ~aborted' /\ UNCHANGED replyVars
        /\ UNCHANGED <<sent, wire, arrived, state, parser, nextRequestBuffer, newRequest, requestQueue>>
    BY DEF EnqueueBodyBuffer
  <1>2. PICK q \in Nat, B \in Nat, P \in Nat :
             /\ q = Len(requestBodyQueue) /\ B = Len(rx.bodyBuffers) /\ P = Pushed
             /\ P = rx.bodyBufferEnqueueIndex /\ P <= B
    <2>1. Pushed = rx.bodyBufferEnqueueIndex
      BY <1>1 DEF Pushed
    <2>2. PICK B \in Nat : B = Len(rx.bodyBuffers)
      BY FlowTypes
    <2>3. PICK P \in 0 .. B : P = Pushed
      BY <2>2, FlowTypes
    <2>4. P \in Nat /\ P <= B
      BY <2>2
    <2> QED
      BY <2>1, <2>2, <2>3, <2>4, FlowTypes
  <1>3. rx \in ReceiveData /\ requestBodyQueue \in Seq(BodyEntry)
    BY DEF TypeOK, ReceiveTypes, QueueTypes
  <1>4. /\ rx'.requestId = rx.requestId /\ rx'.url = rx.url /\ rx'.headerField = rx.headerField
        /\ rx'.headerValue = rx.headerValue /\ rx'.requestEnqueued = rx.requestEnqueued
    BY <1>3 DEF EnqueueBodyBuffer, ReceiveData
  <1>5. RequestsSent'
    BY <1>1, RequestsKept DEF IntactInv, Handling
  <1>6. \A n : AcceptedUpTo(n) => AcceptedUpTo(n)'
    BY <1>1, LoopWaits
  <1>7. WireInv' /\ PhaseInv'
    BY <1>1, LoopWaits DEF IntactInv, LoopInv
  <1>8. \A c : Done(c)' = Done(c)
    BY <1>1 DEF Done, Handling
  <1>9. \A n : CollectedInv(n) => CollectedInv(n)'
    BY <1>1, <1>4, CollectedSame
  <1>10. /\ Flow' = Flow /\ (BodyPushed => BodyPushed')
         /\ recv' = "pushBody" => pushing'[1].buffer = rx'.bodyBuffers[rx'.bodyBufferEnqueueIndex]
    <2>1. CASE P + 1 > B
      <3>1. /\ rx'.bodyBuffers = <<>> /\ rx'.bodyBufferEnqueueIndex = 0 /\ recv' = "enqueueBody"
            /\ requestBodyQueue' = requestBodyQueue
        <4>1. ~(rx.bodyBufferEnqueueIndex + 1 <= Len(rx.bodyBuffers))
          BY <1>2, <2>1
        <4>2. /\ rx' = [rx EXCEPT !.bodyBuffers = <<>>, !.bodyBufferEnqueueIndex = 0]
              /\ recv' = "enqueueBody" /\ requestBodyQueue' = requestBodyQueue
          BY <4>1 DEF EnqueueBodyBuffer
        <4> QED
          BY <1>3, <4>2 DEF ReceiveData
      <3>2. P = B /\ q + B - P = q /\ q + 0 - 0 = q
        BY <1>2, <2>1
      <3>3. Flow = [j \in 1 .. q |-> requestBodyQueue[j]]
        BY <1>2, <3>2 DEF Flow
      <3>4. Flow' = [j \in 1 .. q |-> requestBodyQueue[j]]
        <4>1. Pushed' = 0 /\ Len(rx'.bodyBuffers) = 0
          BY <3>1 DEF Pushed
        <4> QED
          BY <1>2, <3>1, <3>2, <4>1 DEF Flow
      <3> QED
        BY <1>1, <3>1, <3>3, <3>4 DEF BodyPushed
    <2>2. CASE ~(P + 1 > B)
      <3>1. P < B /\ ~BodyPushed
        BY <1>1, <1>2, <2>2 DEF BodyPushed
      <3>2. rx'.bodyBuffers = rx.bodyBuffers /\ rx'.bodyBufferEnqueueIndex = P + 1
        BY <1>2, <1>3, <2>2 DEF EnqueueBodyBuffer, ReceiveData
      <3>3. PICK entry : entry = [buffer |-> rx.bodyBuffers[P + 1], id |-> rx.requestId,
                                  isEnd |-> IsEnd(P + 1)]
        OBVIOUS
      <3>4. CASE recv' = "body"
        <4>1. requestBodyQueue' = Append(requestBodyQueue, entry)
          BY <1>2, <2>2, <3>3, <3>4 DEF EnqueueBodyBuffer
        <4>2. Pushed' = P + 1
          BY <3>2, <3>4 DEF Pushed
        <4>3. Flow' = Flow
          BY <1>1, <1>2, <1>3, <1>4, <3>1, <3>2, <3>3, <4>1, <4>2, FlowPushes
        <4> QED
          BY <3>1, <3>4, <4>3
      <3>5. CASE recv' = "pushBody"
        <4>1. requestBodyQueue' = requestBodyQueue /\ pushing' = <<entry>>
          BY <1>2, <2>2, <3>3, <3>5 DEF EnqueueBodyBuffer
        <4>2. Pushed' = Pushed
          <5>1. (P + 1) - 1 = P
            BY <1>2
          <5> QED
            BY <1>2, <3>2, <3>5, <5>1 DEF Pushed
        <4>3. Flow' = Flow
          BY <1>1, <1>4, <3>2, <4>1, <4>2, FlowSame
        <4>4. pushing'[1].buffer = rx'.bodyBuffers[rx'.bodyBufferEnqueueIndex]
          BY <3>2, <3>3, <4>1
        <4> QED
          BY <3>1, <4>3, <4>4
      <3> QED
        BY <1>2, <2>2, <3>4, <3>5 DEF EnqueueBodyBuffer
    <2> QED
      BY <2>1, <2>2
  <1>11. LoopInv'
    BY <1>7, <1>10 DEF LoopInv
  <1>12. \A c \in 0 .. Len(sent) : ReceivedInv(c) => ReceivedInv(c)'
    BY <1>1, <1>4, <1>6, <1>8, <1>9, <1>10, ReceivedStays
  <1> QED
    BY <1>1, <1>5, <1>11, <1>12, IntactReceiving

LEMMA IntactPushBody ==
    ASSUME TypeOK, PairingInv, IntactInv, ~aborted, PushBody PROVE IntactInv'
  <1>1. /\ recv = "pushBody" /\ recv' = "body" /\ ~aborted' /\ UNCHANGED replyVars
        /\ requestBodyQueue' = requestBodyQueue \o pushing
        /\ UNCHANGED <<sent, wire, arrived, state, parser, nextRequestBuffer, newRequest, rx,
                       requestQueue>>
    BY DEF PushBody
  <1>2. /\ pushing \in Seq(BodyEntry) /\ Len(pushing) = 1 /\ requestBodyQueue \in Seq(BodyEntry)
        /\ rx.bodyBufferEnqueueIndex \in 1 .. Len(rx.bodyBuffers)
        /\ pushing[1].id = rx.requestId
        /\ pushing[1].isEnd <=> IsEnd(rx.bodyBufferEnqueueIndex)
        /\ pushing[1].buffer = rx.bodyBuffers[rx.bodyBufferEnqueueIndex]
    BY <1>1 DEF TypeOK, QueueTypes, PairingInv, ControlInv, PushingInv, IntactInv, LoopInv, IsEnd
  <1>3. PICK q \in Nat, B \in Nat, P \in Nat :
             /\ q = Len(requestBodyQueue) /\ B = Len(rx.bodyBuffers) /\ P = Pushed
             /\ rx.bodyBufferEnqueueIndex = P + 1 /\ P < B
    <2>1. PICK B \in Nat : B = Len(rx.bodyBuffers)
      BY FlowTypes
    <2>2. PICK i \in 1 .. B : i = rx.bodyBufferEnqueueIndex
      BY <1>2, <2>1
    <2>3. i - 1 \in Nat /\ i = (i - 1) + 1 /\ i - 1 < B /\ Pushed = i - 1
      BY <1>1, <2>1, <2>2 DEF Pushed
    <2> QED
      BY <2>1, <2>2, <2>3, FlowTypes
  <1>4. PICK entry : entry = [buffer |-> rx.bodyBuffers[P + 1], id |-> rx.requestId,
                              isEnd |-> IsEnd(P + 1)]
    OBVIOUS
  <1>5. pushing[1] = entry
    <2>1. pushing[1] \in BodyEntry
      BY <1>2, ConcatOne
    <2>2. pushing[1] = [buffer |-> pushing[1].buffer, id |-> pushing[1].id,
                        isEnd |-> pushing[1].isEnd]
      BY <2>1 DEF BodyEntry
    <2>3. pushing[1].isEnd = IsEnd(P + 1)
      <3>1. pushing[1].isEnd \in BOOLEAN
        BY <2>1 DEF BodyEntry
      <3>2. IsEnd(P + 1) \in BOOLEAN
        BY DEF IsEnd
      <3> QED
        BY <1>2, <1>3, <3>1, <3>2
    <2> QED
      BY <1>2, <1>3, <1>4, <2>2, <2>3
  <1>6. requestBodyQueue' = Append(requestBodyQueue, entry)
    BY <1>1, <1>2, <1>5, ConcatOne
  <1>7. Flow' = Flow /\ ~BodyPushed
    <2>1. Pushed' = P + 1
      BY <1>1, <1>3 DEF Pushed
    <2> QED
      BY <1>1, <1>2, <1>3, <1>4, <1>6, <2>1, FlowPushes DEF BodyPushed
  <1>8. RequestsSent'
    BY <1>1, RequestsKept DEF IntactInv, Handling
  <1>9. \A n : AcceptedUpTo(n) => AcceptedUpTo(n)'
    BY <1>1, LoopWaits
  <1>10. LoopInv'
    BY <1>1, LoopWaits DEF IntactInv, LoopInv
  <1>11. \A c : Done(c)' = Done(c)
    BY <1>1 DEF Done, Handling
  <1>12. \A n : CollectedInv(n) => CollectedInv(n)'
    BY <1>1, CollectedSame
  <1>13. \A c \in 0 .. Len(sent) : ReceivedInv(c) => ReceivedInv(c)'
    BY <1>1, <1>7, <1>9, <1>11, <1>12, ReceivedStays
  <1> QED
    BY <1>1, <1>8, <1>10, <1>13, IntactReceiving

(* All chunks are in the queue when the receive loop turns to the request. *)
LEMMA FlowIsQueue ==
    ASSUME TypeOK, PairingInv, recv \in {"read", "enqueue", "enqueueBody", "pushRequest"}
    PROVE  Flow = [j \in 1 .. Len(requestBodyQueue) |-> requestBodyQueue[j]]
  <1>1. rx.bodyBuffers = <<>> /\ rx.bodyBufferEnqueueIndex = 0
    BY DEF PairingInv, ControlInv
  <1>2. PICK q \in Nat : q = Len(requestBodyQueue)
    BY DEF TypeOK, QueueTypes
  <1>3. Len(rx.bodyBuffers) = 0 /\ Pushed = 0 /\ q + 0 - 0 = q
    BY <1>1, <1>2 DEF Pushed
  <1> QED
    BY <1>2, <1>3 DEF Flow

(* A request none of whose body is queued or delivered *)
LEMMA NothingQueued ==
    ASSUME TypeOK, PairingInv, ~aborted, recv \in {"enqueue", "enqueueBody", "pushRequest"},
           NEW id \in Nat, \A j \in DOMAIN requestBodyQueue : requestBodyQueue[j].id # id,
           Handling => tx.requestId # id, NEW cut, NEW c
    PROVE  ChunkStart(Flow, cut, Done(c), id, Len(Flow) + 1) = 0
  <1>1. PICK q \in Nat : q = Len(requestBodyQueue) /\ DOMAIN requestBodyQueue = 1 .. q
    BY DEF TypeOK, QueueTypes
  <1>2. Flow = [j \in 1 .. q |-> requestBodyQueue[j]] /\ Len(Flow) = q
    BY <1>1, FlowIsQueue
  <1>3. CASE q = 0
    <2>1. DoneOf(Done(c), id) = 0
      BY DEF DoneOf, Done
    <2> QED
      BY <1>2, <1>3, <2>1 DEF ChunkStart
  <1>4. CASE q # 0
    <2>1. q + 1 # 1 /\ (q + 1) - 1 = q /\ q \in 1 .. q
      BY <1>4
    <2>2. Flow[q].id # id
      BY <1>1, <1>2, <2>1
    <2> QED
      BY <1>2, <2>1, <2>2 DEF ChunkStart
  <1> QED
    BY <1>3, <1>4

(* What ContinueReceiving leaves to the next read, which may be of the rest *)
(* of this message or of the next one                                      *)
LEMMA LoopContinues ==
    ASSUME TypeOK, PairingInv, IntactInv, ~aborted,
           recv \in {"enqueue", "enqueueBody", "pushRequest"},
           NEW data \in ReceiveData, NEW request, ContinueReceiving(data, request),
           data.requestId = rx.requestId, data.url = rx.url, data.headerField = rx.headerField,
           data.headerValue = rx.headerValue, data.bodyBuffers = rx.bodyBuffers,
           data.bodyBufferEnqueueIndex = rx.bodyBufferEnqueueIndex,
           IF data.requestEnqueued THEN AfterHead \/ request = newRequest
                                   ELSE ~rx.requestEnqueued /\ request = newRequest,
           request \in {newRequest, NoRequest},
           UNCHANGED <<sent, wire, requestBodyQueue>>, UNCHANGED replyVars
    PROVE  /\ LoopInv' /\ recv' = "read"
           /\ \A c \in 0 .. Len(sent) : ReceivedInv(c) => ReceivedInv(c)'
  <1>1. /\ recv' = "read" /\ nextRequestBuffer' = <<>>
        /\ arrived' = IF nextRequestBuffer = <<>> THEN NoArrival
                      ELSE [kind |-> "data", data |-> nextRequestBuffer]
        /\ IF state = "ReceiveRequestMessageComplete"
             THEN /\ rx' = FreshReceiveData(rx.requestId + 1) /\ newRequest' = NoRequest
                  /\ state' = "Started" /\ parser' = InitialParser
             ELSE rx' = data /\ newRequest' = request /\ UNCHANGED <<state, parser>>
    <2>1. state # "Closing"
      BY DEF PairingInv, ControlInv
    <2> QED
      BY <2>1 DEF ContinueReceiving
  <1>2. LoopInv /\ sent \in Wires /\ rx.requestId \in Nat
    BY DEF IntactInv, TypeOK, ReceiveTypes, ReceiveData
  <1>3. Unparsed' = Unparsed
    BY <1>1 DEF Unparsed, NoArrival
  <1>4. Place' = Place
    BY <1>1, <1>3 DEF Place
  <1>5. LoopInv'
    <2>1. WireInv'
      <3>1. arrived'.kind # "data" => arrived'.data = <<>>
        BY <1>1 DEF NoArrival
      <3> QED
        BY <1>1, <1>2, <1>3, <3>1 DEF LoopInv, WireInv
    <2>2. PhaseInv'
      BY <1>1, <1>2 DEF LoopInv, PhaseInv, BeforeMessage, InHead, InitialParser
    <2> QED
      BY <1>1, <2>1, <2>2 DEF LoopInv
  <1>6. rx'.bodyBuffers = <<>> /\ rx'.bodyBufferEnqueueIndex = 0
    BY <1>1 DEF FreshReceiveData, PairingInv, ControlInv
  <1>7. Flow' = Flow
    <2>1. PICK q \in Nat : q = Len(requestBodyQueue)
      BY DEF TypeOK, QueueTypes
    <2>2. Len(rx'.bodyBuffers) = 0 /\ Pushed' = 0 /\ q + 0 - 0 = q
      BY <1>1, <1>6, <2>1 DEF Pushed
    <2>3. Flow' = [j \in 1 .. q |-> requestBodyQueue[j]]
      BY <2>1, <2>2 DEF Flow
    <2> QED
      BY <2>1, <2>3, FlowIsQueue
  <1>8. \A c : Done(c)' = Done(c)
    BY DEF Done, Handling
  <1>9. \A n : AcceptedUpTo(n) => AcceptedUpTo(n)'
    BY <1>1, <1>4 DEF AcceptedUpTo, Stuck
  <1>10. CASE state # "ReceiveRequestMessageComplete"
    <2>1. /\ rx' = data /\ newRequest' = request /\ state' = state /\ parser' = parser
      BY <1>1, <1>10
    <2>2. ASSUME NEW n, CollectedInv(n) PROVE CollectedInv(n)'
      <3>1. CASE request = newRequest
        <4>1. Collected' = Collected /\ LastCallback' = LastCallback
          BY <2>1, <3>1 DEF Collected, LastCallback
        <4> QED
          BY <2>1, <2>2, <3>1, <4>1 DEF CollectedInv, BeforeMessage, InHead, AfterHead
      <3>2. CASE AfterHead /\ data.requestEnqueued
        <4>1. LastCallback' = LastCallback
          BY <2>1 DEF LastCallback
        <4> QED
          BY <2>1, <2>2, <3>2, <4>1 DEF CollectedInv, BeforeMessage, InHead, AfterHead
      <3> QED
        BY <3>1, <3>2
    <2>3. ~BodyPushed
      BY <1>10 DEF BodyPushed
    <2>4. \A c \in 0 .. Len(sent) : ReceivedInv(c) => ReceivedInv(c)'
      BY <1>7, <1>8, <1>9, <2>1, <2>2, <2>3, ReceivedStays
    <2> QED
      BY <1>1, <1>5, <2>4
  <1>11. CASE state = "ReceiveRequestMessageComplete"
    <2>1. /\ rx'.requestId = rx.requestId + 1 /\ newRequest' = NoRequest /\ state' = "Started"
      BY <1>1, <1>11 DEF FreshReceiveData
    <2>2. ASSUME NEW c \in 0 .. Len(sent), ReceivedInv(c) PROVE ReceivedInv(c)'
      <3>1. PICK n \in 0 .. Len(sent), cut \in [DOMAIN Flow -> 0 .. Len(sent)] :
              AcceptedUpTo(n) /\ CollectedInv(n) /\ FlowInv(n, cut, c)
        BY <2>2 DEF ReceivedInv
      <3>2. PICK id \in Nat : id = rx.requestId + 1
        BY <1>2
      <3>3. /\ MessageOf(sent, n) = id /\ n > 0 /\ sent[n].on = "message_complete"
        BY <1>11, <3>1, <3>2 DEF CollectedInv, BeforeMessage, LastCallback
      <3>4. CollectedInv(n)'
        BY <2>1, <3>2, <3>3 DEF CollectedInv, BeforeMessage, InHead, AfterHead
      <3>5. ChunkStart(Flow, cut, Done(c), id, Len(Flow) + 1) = 0
        <4>1. \A j \in DOMAIN requestBodyQueue : requestBodyQueue[j].id # id
          <5> SUFFICES ASSUME NEW j \in DOMAIN requestBodyQueue
                       PROVE  requestBodyQueue[j].id # id
            OBVIOUS
          <5>1. requestBodyQueue[j].id \in Nat
            <6>1. requestBodyQueue \in Seq(BodyEntry)
              BY DEF TypeOK, QueueTypes
            <6>2. requestBodyQueue[j] \in BodyEntry
              BY <6>1
            <6> QED
              BY <6>2 DEF BodyEntry
          <5>2. requestBodyQueue[j].id <= rx.requestId
            BY DEF PairingInv, BodyOrderInv
          <5> QED
            BY <1>2, <3>2, <5>1, <5>2
        <4>2. Handling => tx.requestId # id
          <5>1. tx.requestId \in Nat /\ Len(requestQueue) \in Nat
            BY DEF TypeOK, QueueTypes, ReplyTypes, ReplyData
          <5>2. NextPush \in Nat /\ NextPush <= id
            BY <1>2, <3>2 DEF NextPush
          <5>3. Handling => tx.requestId + 1 + Len(requestQueue) = NextPush
            BY DEF PairingInv, RequestIdsInv
          <5> QED
            BY <3>2, <5>1, <5>2, <5>3
        <4> QED
          BY <4>1, <4>2, NothingQueued
      <3>6. /\ Positions(sent, id + 1, "body", 0) = {}
            /\ Positions(sent, id + 1, "body", n) = {}
        <4>1. n \in Nat
          BY <1>2, WireTypes
        <4>2. MessageOf(sent, 0) = 0
          BY <1>2, MessagesCount
        <4>0. id + 1 \in Nat /\ 0 < id + 1 /\ id < id + 1
          OBVIOUS
        <4>3. PICK k \in Nat : k = id + 1 /\ 0 < k /\ id < k
          BY <4>0, Zenon
        <4>4. Positions(sent, k, "body", 0) = {} /\ Positions(sent, k, "body", n) = {}
          BY <1>2, <3>3, <4>1, <4>2, <4>3, PositionsNone
        <4> QED
          BY <4>3, <4>4
      <3>7. FlowInv(n, cut, c)'
        <4>1. \A j \in DOMAIN Flow : ChunkSound(sent, Flow, cut, Done(c), j)
          BY <3>1 DEF FlowInv
        <4> QED
          BY <1>7, <1>8, <2>1, <3>2, <3>5, <3>6, <4>1 DEF FlowInv
      <3>8. AcceptedUpTo(n)'
        BY <1>9, <3>1
      <3> QED
        BY <1>7, <3>4, <3>7, <3>8 DEF ReceivedInv
    <2> QED
      BY <1>1, <1>5, <2>2
  <1> QED
    BY <1>10, <1>11

(* The request that is put in the queue is the message the loop is at. *)
LEMMA EntryIsSent ==
    ASSUME TypeOK, PairingInv, IntactInv, ~aborted, recv \in {"enqueue", "enqueueBody"},
           ~rx.requestEnqueued, AfterHead, NEW entry \in RequestEntry,
           entry.request = newRequest, entry.id = rx.requestId,
           ~entry.hasBody => recv = "enqueue" /\ state = "ReceiveRequestMessageComplete"
    PROVE  EntrySent(sent, entry)
  <1>1. PICK c \in 0 .. Len(sent), n \in 0 .. Len(sent),
             cut \in [DOMAIN Flow -> 0 .. Len(sent)] :
             CollectedInv(n) /\ FlowInv(n, cut, c)
    BY DEF IntactInv, ReceivedInv
  <1>2. PICK id \in Nat : id = rx.requestId
    BY DEF TypeOK, ReceiveTypes, ReceiveData
  <1>3. sent \in Wires /\ n \in Nat
    <2>1. sent \in Wires
      BY DEF IntactInv
    <2> QED
      BY <2>1, WireTypes
  <1>4. RequestSent(sent, entry.request, entry.id + 1, Len(sent))
    BY <1>1 DEF CollectedInv
  <1>5. ASSUME ~entry.hasBody PROVE Positions(sent, entry.id + 1, "body", Len(sent)) = {}
    <2>1. recv = "enqueue" /\ state = "ReceiveRequestMessageComplete"
      BY <1>5
    <2>2. MessageOf(sent, n) = id + 1 /\ n > 0 /\ sent[n].on = "message_complete"
      BY <1>1, <1>2, <2>1 DEF CollectedInv, BeforeMessage, LastCallback
    <2>3. PICK k \in Nat : k = id + 1 /\ 0 < k
      BY <1>2
    <2>4. Positions(sent, k, "body", Len(sent)) = Positions(sent, k, "body", n)
      <3>1. n \in DOMAIN sent
        BY <1>3, <2>2, WireTypes
      <3> QED
        BY <1>3, <2>2, <2>3, <3>1, SentAll
    <2>5. ChunkStart(Flow, cut, Done(c), id, Len(Flow) + 1) = 0
      <3>1. \A j \in DOMAIN requestBodyQueue : requestBodyQueue[j].id # id
        BY <1>2, <2>1 DEF PairingInv, BodyOrderInv, NoChunk
      <3>2. Handling => tx.requestId # id
        <4>1. tx.requestId \in Nat /\ Len(requestQueue) \in Nat
          BY DEF TypeOK, QueueTypes, ReplyTypes, ReplyData
        <4>2. Handling => tx.requestId + 1 + Len(requestQueue) = id
          BY <1>2 DEF PairingInv, RequestIdsInv, NextPush
        <4> QED
          BY <1>2, <4>1, <4>2
      <3> QED
        BY <2>1, <3>1, <3>2, NothingQueued
    <2>6. Positions(sent, k, "body", 0) = Positions(sent, k, "body", n)
      BY <1>1, <1>2, <2>1, <2>3, <2>5 DEF FlowInv, BodyPushed
    <2>7. Positions(sent, k, "body", 0) = {}
      <3>1. MessageOf(sent, 0) = 0
        BY <1>3, MessagesCount
      <3> QED
        BY <1>3, <2>3, <3>1, PositionsNone
    <2> QED
      BY <1>2, <2>3, <2>4, <2>6, <2>7
  <1> QED
    BY <1>4, <1>5 DEF EntrySent

LEMMA RequestsGrow ==
    ASSUME RequestsSent, NEW entry \in RequestEntry, EntrySent(sent, entry), sent' = sent,
           requestQueue \in Seq(RequestEntry), requestQueue' = Append(requestQueue, entry),
           recv' # "pushRequest", UNCHANGED replyVars
    PROVE  RequestsSent'
  <1>1. ASSUME NEW i \in DOMAIN requestQueue' PROVE EntrySent(sent, requestQueue'[i])
    <2>1. PICK q \in Nat : q = Len(requestQueue)
      BY AppendEntries
    <2>2. /\ DOMAIN requestQueue = 1 .. q /\ DOMAIN requestQueue' = 1 .. q + 1
          /\ \A j \in 1 .. q : requestQueue'[j] = requestQueue[j]
          /\ requestQueue'[q + 1] = entry
      BY <2>1, AppendEntries
    <2>3. CASE i = q + 1
      BY <2>2, <2>3
    <2>4. CASE i # q + 1
      <3>1. i \in 1 .. q
        BY <2>1, <2>2, <2>4
      <3> QED
        BY <2>2, <3>1 DEF RequestsSent
    <2> QED
      BY <2>3, <2>4
  <1>2. Handling' => RequestSent(sent, context'.request, tx'.requestId + 1, Len(sent))
    BY DEF RequestsSent, Handling
  <1>3. RequestsSent'
    BY <1>1, <1>2 DEF RequestsSent
  <1> QED
    BY <1>3

LEMMA IntactEnqueue ==
    ASSUME TypeOK, PairingInv, IntactInv, ~aborted, EnqueueAndContinue PROVE IntactInv'
  <1>1. /\ recv \in {"enqueue", "enqueueBody"} /\ ~aborted' /\ UNCHANGED replyVars
        /\ UNCHANGED <<sent, wire, requestBodyQueue>>
        /\ EnqueueRequest(recv = "enqueueBody")
    BY DEF EnqueueAndContinue
  <1>2. rx \in ReceiveData /\ requestQueue \in Seq(RequestEntry)
    BY DEF TypeOK, ReceiveTypes, QueueTypes
  <1>3. CASE /\ rx.requestEnqueued \/ ~AfterHead
             /\ ContinueReceiving(rx, newRequest) /\ UNCHANGED <<requestQueue, pushing>>
    <2>1. PICK data, request : data \in ReceiveData /\ data = rx /\ request = newRequest
      BY <1>2
    <2>2. ContinueReceiving(data, request)
      BY <1>3, <2>1
    <2>3. /\ LoopInv' /\ recv' = "read"
          /\ \A c \in 0 .. Len(sent) : ReceivedInv(c) => ReceivedInv(c)'
      BY <1>1, <2>1, <2>2, LoopContinues
    <2>4. RequestsSent'
      BY <1>1, <1>3, <2>3, RequestsKept DEF IntactInv, Handling
    <2> QED
      BY <1>1, <2>3, <2>4, IntactReceiving
  <1>4. ASSUME ~rx.requestEnqueued, AfterHead, NEW entry,
               entry = [request |-> newRequest, id |-> rx.requestId,
                        hasBody |-> recv = "enqueueBody" \/ state # "ReceiveRequestMessageComplete"],
               NEW queued, queued = [rx EXCEPT !.requestEnqueued = TRUE],
               \/ /\ requestQueue' = Append(requestQueue, entry)
                  /\ ContinueReceiving(queued, NoRequest)
               \/ /\ pushing' = <<entry>> /\ recv' = "pushRequest"
                  /\ rx' = queued /\ newRequest' = NoRequest
                  /\ UNCHANGED <<requestQueue, state, parser, arrived, lastBuffer, parsed,
                                 nextRequestBuffer>>
        PROVE  IntactInv'
    <2>1. entry \in RequestEntry /\ EntrySent(sent, entry)
      <3>1. entry \in RequestEntry
        BY <1>2, <1>4 DEF RequestEntry, ReceiveData, TypeOK, ReceiveTypes
      <3>2. ~entry.hasBody => recv = "enqueue" /\ state = "ReceiveRequestMessageComplete"
        BY <1>1, <1>4
      <3> QED
        BY <1>1, <1>4, <3>1, <3>2, EntryIsSent
    <2>2. /\ queued \in ReceiveData /\ queued.requestId = rx.requestId /\ queued.url = rx.url
          /\ queued.headerField = rx.headerField /\ queued.headerValue = rx.headerValue
          /\ queued.bodyBuffers = rx.bodyBuffers
          /\ queued.bodyBufferEnqueueIndex = rx.bodyBufferEnqueueIndex
          /\ queued.requestEnqueued
      BY <1>2, <1>4 DEF ReceiveData
    <2>3. CASE requestQueue' = Append(requestQueue, entry) /\ ContinueReceiving(queued, NoRequest)
      <3>1. PICK request : request = NoRequest
        OBVIOUS
      <3>2. ContinueReceiving(queued, request)
        BY <2>3, <3>1
      <3>3. /\ LoopInv' /\ recv' = "read"
            /\ \A c \in 0 .. Len(sent) : ReceivedInv(c) => ReceivedInv(c)'
        BY <1>1, <1>4, <2>2, <3>1, <3>2, LoopContinues
      <3>4. RequestsSent'
        BY <1>1, <1>2, <2>1, <2>3, <3>3, RequestsGrow DEF IntactInv
      <3> QED
        BY <1>1, <3>3, <3>4, IntactReceiving
    <2>4. CASE /\ pushing' = <<entry>> /\ recv' = "pushRequest"
               /\ rx' = queued /\ newRequest' = NoRequest
               /\ UNCHANGED <<requestQueue, state, parser, arrived, lastBuffer, parsed,
                              nextRequestBuffer>>
      <3>1. RequestsSent'
        <4>1. pushing'[1] = entry
          BY <2>4
        <4> QED
          BY <1>1, <2>1, <2>4, <4>1 DEF IntactInv, RequestsSent, Handling
      <3>2. LoopInv'
        BY <1>1, <2>4, LoopWaits DEF IntactInv, LoopInv
      <3>3. \A n : AcceptedUpTo(n) => AcceptedUpTo(n)'
        BY <1>1, <2>4, LoopWaits
      <3>4. \A c : Done(c)' = Done(c)
        BY <1>1 DEF Done, Handling
      <3>5. ASSUME NEW n, CollectedInv(n) PROVE CollectedInv(n)'
        <4>1. LastCallback' = LastCallback
          BY <2>4 DEF LastCallback
        <4> QED
          BY <1>1, <1>4, <2>2, <2>4, <3>5, <4>1 DEF CollectedInv, BeforeMessage, InHead, AfterHead
      <3>6. Flow' = Flow
        <4>1. Pushed' = Pushed
          BY <1>1, <2>2, <2>4 DEF Pushed
        <4> QED
          BY <1>1, <2>2, <2>4, <4>1, FlowSame
      <3>7. BodyPushed => BodyPushed'
        BY <2>4 DEF BodyPushed
      <3>8. \A c \in 0 .. Len(sent) : ReceivedInv(c) => ReceivedInv(c)'
        BY <1>1, <2>2, <2>4, <3>3, <3>4, <3>5, <3>6, <3>7, ReceivedStays
      <3> QED
        BY <1>1, <3>1, <3>2, <3>8, IntactReceiving
    <2> QED
      BY <1>4, <2>3, <2>4
  <1> QED
    BY <1>1, <1>3, <1>4 DEF EnqueueRequest, AfterHead

LEMMA IntactPushRequest ==
    ASSUME TypeOK, PairingInv, IntactInv, ~aborted, PushRequest PROVE IntactInv'
  <1>1. /\ recv = "pushRequest" /\ ~aborted' /\ UNCHANGED replyVars
        /\ UNCHANGED <<sent, wire, requestBodyQueue>>
        /\ requestQueue' = requestQueue \o pushing /\ ContinueReceiving(rx, newRequest)
    BY DEF PushRequest
  <1>2. /\ rx \in ReceiveData /\ requestQueue \in Seq(RequestEntry)
        /\ pushing \in Seq(RequestEntry) /\ Len(pushing) = 1
    BY <1>1 DEF TypeOK, ReceiveTypes, QueueTypes
  <1>3. rx.requestEnqueued
    BY <1>1 DEF PairingInv, PushingInv
  <1>4. PICK data, request : data \in ReceiveData /\ data = rx /\ request = newRequest
    BY <1>2
  <1>5. ContinueReceiving(data, request)
    BY <1>1, <1>4
  <1>6. /\ LoopInv' /\ recv' = "read"
        /\ \A c \in 0 .. Len(sent) : ReceivedInv(c) => ReceivedInv(c)'
    BY <1>1, <1>3, <1>4, <1>5, LoopContinues
  <1>7. RequestsSent'
    <2>1. PICK entry \in RequestEntry : entry = pushing[1]
      BY <1>2, ConcatOne
    <2>2. requestQueue' = Append(requestQueue, entry)
      BY <1>1, <1>2, <2>1, ConcatOne
    <2>3. RequestsSent /\ EntrySent(sent, entry)
      BY <1>1, <2>1 DEF IntactInv, RequestsSent
    <2> QED
      BY <1>1, <1>2, <1>6, <2>2, <2>3, RequestsGrow
  <1> QED
    BY <1>1, <1>6, <1>7, IntactReceiving

-----------------------------------------------------------------------------
(* All steps together *)

LEMMA IntactReceive == ASSUME TypeOK, PairingInv, IntactInv, ReceiveStep PROVE IntactInv'
  <1>1. CASE aborted'
    BY <1>1, ReceiveAborted
  <1>2. CASE ~aborted'
    <2>1. ~aborted /\ ~ReceiveFails /\ ~ReceiveEnds
      BY <1>2 DEF ReceiveStep, ReceiveFails, ReceiveEnds, ReceivePacket, Shutdown, ParserRejects,
                  on_message_begin, on_url, on_header_field, on_header_value,
                  on_headers_complete, on_body, on_message_complete, Accept, Refuse, RefuseData,
                  ParseReturns, EnqueueBodyBuffer, PushBody, EnqueueAndContinue, PushRequest
    <2>2. CASE ReceivePacket \/ ParserRejects \/ ParseReturns
      BY <1>2, <2>1, <2>2, IntactPacket, IntactRejects, IntactParseReturns
    <2>3. CASE on_message_begin \/ on_url \/ on_header_field \/ on_header_value
      BY <2>1, <2>3, IntactBegin, IntactUrl, IntactField, IntactValue
    <2>4. CASE on_headers_complete \/ on_body \/ on_message_complete
      BY <2>1, <2>4, IntactHeadersComplete, IntactBody, IntactMessageComplete
    <2>5. CASE EnqueueBodyBuffer \/ PushBody
      BY <2>1, <2>5, IntactEnqueueBody, IntactPushBody
    <2>6. CASE EnqueueAndContinue \/ PushRequest
      BY <2>1, <2>6, IntactEnqueue, IntactPushRequest
    <2> QED
      BY <2>1, <2>2, <2>3, <2>4, <2>5, <2>6 DEF ReceiveStep
  <1> QED
    BY <1>1, <1>2

LEMMA IntactNext == ASSUME TypeOK, PairingInv, IntactInv, [Next]_vars PROVE IntactInv'
  <1>1. CASE Start \/ ReadResolves
    BY <1>1, IntactStart, IntactReads
  <1>2. CASE Stop \/ TimerTick \/ Close \/ PeerCloses
    BY <1>2, IntactOutside
  <1>3. CASE ReceiveStep
    BY <1>3, IntactReceive
  <1>4. CASE ReplyStep
    BY <1>4, IntactPop, IntactWrites DEF ReplyStep
  <1>5. CASE HandlerStep
    BY <1>5, IntactHandler, IntactReturns DEF HandlerStep
  <1>6. CASE WriteStep
    BY <1>6, IntactWrites DEF WriteStep
  <1>7. CASE UNCHANGED vars
    <2>1. StaysWithRequest
      BY <1>7 DEF vars, StaysWithRequest, Handling, loopVars
    <2> QED
      BY <2>1, IntactHandling
  <1> QED
    BY <1>1, <1>2, <1>3, <1>4, <1>5, <1>6, <1>7 DEF Next, Closed

(* What the receive loop has collected up to its place on the wire, the    *)
(* queues and the handler hold what the client sent there, in order and    *)
(* without loss, wherever the packets cut it.                              *)
THEOREM Collects == Spec => []IntactInv
  <1>1. TypeOK /\ PairingInv /\ IntactInv /\ [Next]_vars => IntactInv'
    BY IntactNext
  <1> QED
    BY <1>1, IntactInit, TypeInvariant, Pairing, PTL DEF Spec

(* However the client's bytes are cut into packets, a handler sees the     *)
(* url, the headers and the body of one message: request k sees message k, *)
(* a body read to its end is the whole body.                               *)
THEOREM RequestsIntact == Spec => []RequestIntact
  <1>1. IntactInv => RequestIntact
    <2> SUFFICES ASSUME IntactInv PROVE RequestIntact
      OBVIOUS
    <2>1. HeadIntact
      BY DEF IntactInv, RequestsSent, HeadIntact
    <2>2. PICK c \in 0 .. Len(sent) : DeliveredInv(c)
      BY DEF IntactInv
    <2>3. BodyIntact
      BY <2>2 DEF DeliveredInv, BodyIntact
    <2> QED
      BY <2>1, <2>3 DEF RequestIntact
  <1> QED
    BY <1>1, Collects, PTL

-----------------------------------------------------------------------------
(* Clients that ask to close *)

(* The connection may go on: its last response, if any, asked for nothing else. *)
MayGoOn == Waiting \/ (Handling /\ (tx.responseHeadersAppended => tx.keepConnection))
NoneCloses(tokens, written) ==
    \A h \in Heads(written) : ~ClientCloses(tokens, written[h].id + 1)
CloserIsLast(tokens, written) ==
    \A i, j \in Heads(written) : i < j => ~ClientCloses(tokens, written[i].id + 1)

LEMMA ClosersParts ==
    /\ ClosersInv <=> (MayGoOn => NoneCloses(sent, out)) /\ CloserIsLast(sent, out)
    /\ ClosersInv' <=> (MayGoOn' => NoneCloses(sent', out')) /\ CloserIsLast(sent', out')
  BY DEF ClosersInv, ClosersAreLast, MayGoOn, NoneCloses, CloserIsLast

LEMMA EntryType == ASSUME NEW S, NEW s \in Seq(S), NEW i \in DOMAIN s PROVE s[i] \in S
  OBVIOUS

(* The header that decides on the wire decides in the request.             *)
LEMMA CloserIsSeen ==
    ASSUME TypeOK, IntactInv, Handling, ClientCloses(sent, tx.requestId + 1)
    PROVE  WantsClose(context.request)
  <1>1. PICK k, request : k = tx.requestId + 1 /\ request = context.request
    OBVIOUS
  <1>2. request \in Request /\ request.headers \in Seq([field : Pieces, value : Pieces])
    BY <1>1 DEF TypeOK, ReplyTypes, Context, Request
  <1>3. RequestSent(sent, request, k, Len(sent))
    BY <1>1 DEF IntactInv, RequestsSent
  <1>4. PICK last : last = Cardinality(HeaderStarts(sent, k, Len(sent)))
    OBVIOUS
  <1> DEFINE field(h) == HeaderPositions(sent, k, h, "header_field", Len(sent))
             value(h) == HeaderPositions(sent, k, h, "header_value", Len(sent))
             headers == request.headers
  <1>5. PICK h \in 1 .. last :
          /\ Spelt(sent, ConnectionNames, field(h))
          /\ \A i \in h + 1 .. last : ~Spelt(sent, ConnectionNames, field(i))
          /\ ~Spelt(sent, KeepaliveValues, value(h))
          /\ \E p \in value(h) : sent[p].data # ""
    BY <1>1, <1>4 DEF ClientCloses
  <1>6. Len(headers) = last /\ DOMAIN headers = 1 .. last
    BY <1>2, <1>3, <1>4 DEF RequestSent
  <1>7. \A i : field(i) \in SUBSET Nat /\ value(i) \in SUBSET Nat
    <2>1. sent \in Seq(Token)
      BY DEF TypeOK, ClientTypes
    <2>2. DOMAIN sent \subseteq Nat
      BY <2>1
    <2> QED
      BY <2>2 DEF HeaderPositions, HeadPositions, Positions
  <1>8. ASSUME NEW i \in 1 .. last
        PROVE  /\ headers[i].field \in Pieces /\ PiecesAt(sent, headers[i].field, field(i))
               /\ headers[i].value \in Pieces /\ PiecesAt(sent, headers[i].value, value(i))
    <2>1. headers[i] \in [field : Pieces, value : Pieces]
      BY <1>2, <1>6, EntryType
    <2>2. HeaderSent(sent, headers[i], k, i, Len(sent))
      BY <1>3, <1>6 DEF RequestSent
    <2> QED
      BY <2>1, <2>2 DEF HeaderSent
  <1>9. ConnectionNames \in SUBSET Pieces /\ KeepaliveValues \in SUBSET Pieces
    BY WiresAssumption DEF Pieces
  <1> HIDE DEF field, value, headers
  <1>10. \A i \in 1 .. last : Spelt(sent, ConnectionNames, field(i))
                                <=> headers[i].field \in ConnectionNames
    BY <1>7, <1>8, <1>9, SpeltPieces
  <1>11. headers[h].value \notin KeepaliveValues
    BY <1>5, <1>7, <1>8, <1>9, SpeltPieces
  <1>12. \E i \in DOMAIN headers[h].value : headers[h].value[i] # ""
    <2>1. PICK p \in value(h) : sent[p].data # ""
      BY <1>5
    <2>2. PiecesAt(sent, headers[h].value, value(h))
      BY <1>8
    <2> QED
      BY <2>1, <2>2 DEF PiecesAt
  <1>13. \A i \in h + 1 .. last : i \in 1 .. last
    <2>1. last \in Nat
      BY <1>2, <1>6 DEF headers
    <2> QED
      BY <2>1
  <1>14. \A i \in h + 1 .. Len(headers) : headers[i].field \notin ConnectionNames
    BY <1>5, <1>6, <1>10, <1>13
  <1>15. h \in DOMAIN headers /\ headers[h].field \in ConnectionNames
    BY <1>5, <1>6, <1>10
  <1> QED
    BY <1>1, <1>11, <1>12, <1>14, <1>15 DEF WantsClose, headers

(* One more item among those that were written *)
LEMMA ClosersAppend ==
    ASSUME NEW tokens, NEW w \in Seq(Item), NEW e \in Item
    PROVE  /\ e.kind # "head" /\ NoneCloses(tokens, w) => NoneCloses(tokens, Append(w, e))
           /\ e.kind # "head" /\ CloserIsLast(tokens, w) => CloserIsLast(tokens, Append(w, e))
           /\ NoneCloses(tokens, w) => CloserIsLast(tokens, Append(w, e))
           /\ NoneCloses(tokens, w) /\ ~ClientCloses(tokens, e.id + 1)
                => NoneCloses(tokens, Append(w, e))
  <1>1. PICK v, n : v = Append(w, e) /\ n = Len(w) + 1
    OBVIOUS
  <1>2. /\ DOMAIN v = DOMAIN w \cup {n} /\ v[n] = e /\ n \in Nat
        /\ \A i \in DOMAIN w : v[i] = w[i] /\ i < n /\ i \in Nat
    BY <1>1, AppendItem
  <1>3. /\ Heads(v) \subseteq Heads(w) \cup {n} /\ Heads(w) \subseteq DOMAIN w
        /\ e.kind # "head" => Heads(v) = Heads(w)
    BY <1>2 DEF Heads
  <1>4. NoneCloses(tokens, w) => CloserIsLast(tokens, v)
    <2> SUFFICES ASSUME NoneCloses(tokens, w), NEW i \in Heads(v), NEW j \in Heads(v), i < j
                 PROVE  ~ClientCloses(tokens, v[i].id + 1)
      BY DEF CloserIsLast
    <2>1. i # n
      BY <1>2, <1>3
    <2>2. i \in Heads(w) /\ v[i] = w[i]
      BY <1>2, <1>3, <2>1
    <2> QED
      BY <2>2 DEF NoneCloses
  <1> QED
    BY <1>1, <1>2, <1>3, <1>4 DEF NoneCloses, CloserIsLast

(* The headers announce to keep the connection only to a client that did   *)
(* not ask to close it.                                                    *)
LEMMA ClosersHeaders ==
    ASSUME TypeOK, IntactInv, ClosersInv, Handling, NEW response \in Response,
           NEW w, w = out \o Headers(response)
    PROVE  /\ w \in Seq(Item) /\ CloserIsLast(sent, w)
           /\ AppendResponseHeaders(response).keepConnection => NoneCloses(sent, w)
  <1>1. out \in Seq(Item)
    BY ReplyTypesHold
  <1>2. CASE tx.responseHeadersAppended
    BY <1>1, <1>2, HeadersAppended, ClosersParts DEF MayGoOn
  <1>3. CASE ~tx.responseHeadersAppended
    <2>1. PICK e \in Item : e = HeadItem(response) /\ e.id = tx.requestId
      BY HeadItemType
    <2>2. w = Append(out, e) /\ NoneCloses(sent, out)
      BY <1>3, <2>1, HeadersAppended, ClosersParts DEF MayGoOn
    <2>3. AppendResponseHeaders(response).keepConnection => ~ClientCloses(sent, e.id + 1)
      BY <1>3, <2>1, HeadersAppended, CloserIsSeen DEF KeepaliveByConnectionHeader
    <2> QED
      BY <1>1, <2>1, <2>2, <2>3, ClosersAppend, AppendItem
  <1> QED
    BY <1>2, <1>3

LEMMA ClosersUnchanged ==
    ASSUME ClosersInv, sent' = sent, out' = out, MayGoOn' => MayGoOn PROVE ClosersInv'
  BY ClosersParts

LEMMA ClosersEnter ==
    ASSUME TypeOK, sent' = sent, NEW w \in Seq(Item), CloserIsLast(sent, w), NEW closing,
           EnterReplyLoop(closing, w), ~closing => NoneCloses(sent, w)
    PROVE  ClosersInv'
  <1>1. CASE ~closing
    BY <1>1, ClosersParts DEF EnterReplyLoop
  <1>2. CASE closing
    <2>1. ~MayGoOn' /\ (out' = w \/ out' = Append(w, ErrorItem))
      BY <1>2 DEF EnterReplyLoop, MayGoOn, Waiting, Handling
    <2>2. CloserIsLast(sent, out')
      BY <2>1, ErrorItemType, ClosersAppend
    <2> QED
      BY <2>1, <2>2, ClosersParts
  <1> QED
    BY <1>1, <1>2

LEMMA ClosersWrite ==
    ASSUME TypeOK, IntactInv, ClosersInv, Handling, sent' = sent, NEW response \in Response,
           WriteBody(response), reply' \in {"write", "catch"}
    PROVE  ClosersInv'
  <1>1. PICK w : w = out \o Headers(response)
    OBVIOUS
  <1>2. /\ w \in Seq(Item) /\ CloserIsLast(sent, w)
        /\ AppendResponseHeaders(response).keepConnection => NoneCloses(sent, w)
    BY <1>1, ClosersHeaders
  <1>3. out' = Append(w, BodyItem(response))
    <2>1. out' = w \o <<BodyItem(response)>>
      BY <1>1 DEF WriteBody
    <2> QED
      BY <1>2, <2>1, BodyItemType, AppendIsConcat
  <1>4. MayGoOn' => AppendResponseHeaders(response).keepConnection
    BY HeadersAppended DEF WriteBody, MayGoOn, Waiting, ReplyData
  <1>5. PICK e \in Item : e = BodyItem(response) /\ e.kind # "head"
    BY BodyItemType
  <1>6. /\ CloserIsLast(sent, out')
        /\ NoneCloses(sent, w) => NoneCloses(sent, out')
    BY <1>2, <1>3, <1>5, ClosersAppend
  <1> QED
    BY <1>2, <1>4, <1>6, ClosersParts

LEMMA ClosersWriteNothing ==
    ASSUME TypeOK, IntactInv, ClosersInv, Handling, sent' = sent, NEW response \in Response,
           WriteNothing(response), reply' = "write"
    PROVE  ClosersInv'
  <1>1. /\ CloserIsLast(sent, out')
        /\ AppendResponseHeaders(response).keepConnection => NoneCloses(sent, out')
    BY ClosersHeaders DEF WriteNothing
  <1>2. MayGoOn' => AppendResponseHeaders(response).keepConnection
    BY HeadersAppended DEF WriteNothing, MayGoOn, Waiting
  <1> QED
    BY <1>1, <1>2, ClosersParts

LEMMA ClosersReply500 ==
    ASSUME TypeOK, IntactInv, ClosersInv, Handling, sent' = sent, Reply500 PROVE ClosersInv'
  <1>1. ResponseOf500 \in Response
    BY ReplyTypesHold DEF Response, ResponseOf500
  <1>2. WriteBody(ResponseOf500) /\ reply' = "catch"
    BY DEF Reply500
  <1> QED
    BY <1>1, <1>2, ClosersWrite

LEMMA ClosersOutside ==
    ASSUME TypeOK, PairingInv, IntactInv, ClosersInv, sent' = sent,
           Start \/ Stop \/ TimerTick \/ Close \/ PeerCloses \/ ReadResolves \/ ReceiveStep
    PROVE  ClosersInv'
  <1>1. CASE Start
    <2>1. out' = out /\ Waiting
      BY <1>1 DEF Start, PairingInv, ControlInv, Waiting
    <2> QED
      BY <2>1, ClosersUnchanged DEF MayGoOn
  <1>2. CASE Stop \/ TimerTick \/ Close \/ PeerCloses \/ ReadResolves
    <2>1. UNCHANGED replyVars /\ (aborted => aborted')
      <3>1. CASE Stop \/ TimerTick
        BY <3>1 DEF Stop, TimerTick, Shutdown
      <3>2. CASE Close \/ PeerCloses \/ ReadResolves
        BY <3>2 DEF Close, PeerCloses, ReadResolves
      <3> QED
        BY <1>2, <3>1, <3>2
    <2> QED
      BY <2>1, ClosersUnchanged DEF MayGoOn, Waiting, Handling
  <1>3. CASE ReceiveStep
    <2>1. UNCHANGED replyVars /\ (aborted => aborted')
      <3>1. CASE ReceiveFails \/ ReceiveEnds \/ ReceivePacket \/ ParseReturns
        BY <3>1 DEF ReceiveFails, ReceiveEnds, ReceivePacket, ParseReturns, Shutdown
      <3>2. CASE \/ ParserRejects \/ on_message_begin \/ on_url \/ on_header_field
                 \/ on_header_value \/ on_headers_complete \/ on_body \/ on_message_complete
        BY <3>2 DEF ParserRejects, on_message_begin, on_url, on_header_field, on_header_value,
           on_headers_complete, on_body, on_message_complete, RefuseData, Refuse, Accept
      <3>3. CASE EnqueueBodyBuffer \/ PushBody \/ EnqueueAndContinue \/ PushRequest
        BY <3>3 DEF EnqueueBodyBuffer, PushBody, EnqueueAndContinue, PushRequest
      <3> QED
        BY <1>3, <3>1, <3>2, <3>3 DEF ReceiveStep
    <2> QED
      BY <2>1, ClosersUnchanged DEF MayGoOn, Waiting, Handling
  <1> QED
    BY <1>1, <1>2, <1>3

LEMMA ClosersReads ==
    ASSUME TypeOK, IntactInv, ClosersInv, Handling, sent' = sent, TakeBody \/ ReadAborted
    PROVE  ClosersInv'
  <1>1. CASE Reply500
    BY <1>1, ClosersReply500
  <1>2. CASE /\ tx' = [tx EXCEPT !.requestBodyConsumed = @ \/ Head(requestBodyQueue).isEnd]
             /\ reply' = "handle" /\ UNCHANGED out
    <2>1. /\ tx'.keepConnection = tx.keepConnection
          /\ tx'.responseHeadersAppended = tx.responseHeadersAppended
      BY <1>2, ReplyTypesHold DEF ReplyData
    <2>2. ~Waiting'
      BY <1>2 DEF Waiting
    <2> QED
      BY <1>2, <2>1, <2>2, ClosersUnchanged DEF MayGoOn
  <1> QED
    BY <1>1, <1>2 DEF TakeBody, ReadAborted

LEMMA ClosersReturns ==
    ASSUME TypeOK, IntactInv, ClosersInv, sent' = sent, HandlerReturns PROVE ClosersInv'
  <1>1. PICK w, data, kept :
          /\ w = out \o Headers(context.response)
          /\ data = AppendResponseHeaders(context.response)
          /\ kept = (data.keepConnection /\ KeepaliveByContentLength(data))
    OBVIOUS
  <1>2. /\ Handling /\ tx' = [data EXCEPT !.keepConnection = kept]
        /\ \/ reply' = "flush" /\ out' = w
           \/ kept /\ EnterReplyLoop(state = "Closing", w)
           \/ EnterReplyLoop(TRUE, w)
    BY <1>1 DEF HandlerReturns, Handling, ReplyFails
  <1>3. w \in Seq(Item) /\ CloserIsLast(sent, w) /\ (kept => NoneCloses(sent, w))
    BY <1>1, <1>2, ClosersHeaders, ReplyTypesHold
  <1>4. CASE reply' = "flush" /\ out' = w
    <2>1. data \in ReplyData /\ data.responseHeadersAppended
      BY <1>1, HeadersAppended, ReplyTypesHold
    <2>2. MayGoOn' => kept
      BY <1>2, <1>4, <2>1 DEF MayGoOn, Waiting, ReplyData
    <2> QED
      BY <1>3, <1>4, <2>2, ClosersParts
  <1>5. CASE kept /\ EnterReplyLoop(state = "Closing", w)
    BY <1>3, <1>5, ClosersEnter
  <1>6. CASE EnterReplyLoop(TRUE, w)
    BY <1>3, <1>6, ClosersEnter
  <1> QED
    BY <1>2, <1>4, <1>5, <1>6

LEMMA ClosersHandler ==
    ASSUME TypeOK, IntactInv, ClosersInv, sent' = sent, HandlerStep PROVE ClosersInv'
  <1>1. CASE HandlerReads
    <2>1. Handling
      BY <1>1 DEF HandlerReads, Handling
    <2>2. CASE TakeBody \/ ReadAborted
      BY <2>1, <2>2, ClosersReads
    <2>3. CASE reply' = "read" /\ UNCHANGED <<tx, out>>
      BY <2>1, <2>3, ClosersUnchanged DEF MayGoOn, Waiting
    <2> QED
      BY <1>1, <2>2, <2>3 DEF HandlerReads
  <1>2. CASE ReadResumes
    BY <1>2, ClosersReads DEF ReadResumes, Handling
  <1>3. CASE HandlerWrites
    <2>1. reply' = "write" /\ Handling
      BY <1>3 DEF HandlerWrites, Handling
    <2>2. WriteBody(context.response) \/ WriteNothing(context.response)
      BY <1>3 DEF HandlerWrites
    <2> QED
      BY <2>1, <2>2, ClosersWrite, ClosersWriteNothing, ReplyTypesHold
  <1>4. CASE HandlerThrows
    BY <1>4, ClosersReply500 DEF HandlerThrows, Handling
  <1> QED
    BY <1>1, <1>2, <1>3, <1>4, ClosersReturns DEF HandlerStep

LEMMA ClosersReply ==
    ASSUME TypeOK, IntactInv, ClosersInv, sent' = sent, ReplyStep \/ WriteStep PROVE ClosersInv'
  <1>0. out \in Seq(Item) /\ CloserIsLast(sent, out)
    BY ReplyTypesHold, ClosersParts
  <1>1. CASE EnterReplyLoop(TRUE, out)
    BY <1>0, <1>1, ClosersEnter
  <1>2. CASE PopRequest
    <2>1. out' = out /\ Waiting
      BY <1>2 DEF PopRequest, Waiting
    <2> QED
      BY <2>1, ClosersUnchanged DEF MayGoOn
  <1>3. CASE WriteResolves
    <2>1. CASE reply' = "handle" /\ UNCHANGED <<tx, out>>
      BY <1>3, <2>1, ClosersUnchanged DEF WriteResolves, MayGoOn, Waiting, Handling
    <2>2. CASE Reply500
      BY <1>3, <2>2, ClosersReply500 DEF WriteResolves, Handling
    <2> QED
      BY <1>3, <2>1, <2>2 DEF WriteResolves
  <1>4. CASE Write500Resolves /\ reply' = "caught"
    <2>1. UNCHANGED <<tx, out>> /\ Handling /\ ~Waiting'
      BY <1>4 DEF Write500Resolves, ReplyFails, EnterReplyLoop, Waiting, Handling
    <2> QED
      BY <2>1, ClosersUnchanged DEF MayGoOn
  <1>5. CASE FlushResolves /\ tx.keepConnection /\ EnterReplyLoop(state = "Closing", out)
    <2>1. MayGoOn
      BY <1>5 DEF FlushResolves, MayGoOn, Handling
    <2> QED
      BY <1>0, <1>5, <2>1, ClosersEnter, ClosersParts
  <1>6. CASE ErrorResponseResolves
    BY <1>6, ClosersUnchanged DEF ErrorResponseResolves, MayGoOn, Waiting, Handling
  <1> QED
    BY <1>1, <1>2, <1>3, <1>4, <1>5, <1>6
    DEF ReplyStep, WriteStep, PopAborted, Write500Resolves, FlushResolves, ReplyFails

(* As long as the connection may go on, no client has asked to close it.   *)
THEOREM Closers == Spec => []ClosersInv
  <1>1. Init => ClosersInv
    <2> SUFFICES ASSUME Init PROVE ClosersInv
      OBVIOUS
    <2>1. Heads(out) = {}
      BY DEF Init, Heads
    <2> QED
      BY <2>1 DEF ClosersInv, ClosersAreLast
  <1>2. TypeOK /\ PairingInv /\ IntactInv /\ ClosersInv /\ [Next]_vars => ClosersInv'
    <2> SUFFICES ASSUME TypeOK, PairingInv, IntactInv, ClosersInv, [Next]_vars PROVE ClosersInv'
      OBVIOUS
    <2>1. sent' = sent
      BY SentNeverChanges
    <2>2. CASE UNCHANGED vars
      BY <2>2, ClosersUnchanged DEF vars, MayGoOn, Waiting, Handling
    <2> QED
      BY <2>1, <2>2, ClosersOutside, ClosersHandler, ClosersReply DEF Next, Closed
  <1> QED
    BY <1>1, <1>2, TypeInvariant, Pairing, Collects, PTL DEF Spec

(* A response that another one follows is delimited, and neither side had  *)
(* asked to close the connection: the client not in the last Connection    *)
(* header of that request, the handler in no header of that response.      *)
THEOREM KeptFramed == Spec => []KeptResponsesFramed
  <1>1. ClosersInv => ClosersAreLast
    BY DEF ClosersInv
  <1> QED
    BY <1>1, Closers, AnswersDelimited, PTL DEF KeptResponsesFramed

=============================================================================
