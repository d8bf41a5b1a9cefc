---------------------------- MODULE FormatProofs ----------------------------
(* What is made of the bytes that come over the wire: the json parser keeps   *)
(* its stack and its tree apart in one buffer, for every text, whatever its   *)
(* strings and numbers are; a request parses its uri and its cookies only     *)
(* once and never returns others, and a response writes the headers of its    *)
(* own exchange; a packet keeps the strings it is made of alive and all their *)
(* bytes, for any number of packets and fragments.                            *)
EXTENDS JsonDocument, JsonText, HttpMessages, Packet, Induction, FiniteSetTheorems

-----------------------------------------------------------------------------
(* JsonDocument.tla *)

\* An element gives back what was put into it.
LEMMA ElementRead ==
  ASSUME NEW type \in 0..7, NEW value \in Nat
  PROVE  /\ make_element(type, value) \in Nat
         /\ get_element_value(make_element(type, value)) = value
         /\ get_element_type(make_element(type, value)) = type
BY DEF make_element, get_element_value, get_element_type

\* While another byte is to be read, the stack has not met the tree.
LEMMA RoomLeft ==
  ASSUME DocumentInv, Inside, used < length
  PROVE  /\ length \in Nat /\ used \in Nat /\ stack_top \in Nat /\ write_cursor \in Nat
         /\ stack_top <= write_cursor /\ write_cursor <= length
         /\ stack_top + (length - write_cursor) <= used + 1
         /\ label # "structure_close_or_comma" => stack_top + (length - write_cursor) <= used
BY SizeAssumption DEF DocumentInv, Inside, Room

\* The bases, as numbers below the top of the stack
OnStack(bases, top) == \A b \in bases : b \in Nat /\ b <= top - 1

LEMMA BasesOnStack ==
  ASSUME BasesSound, stack_top \in Nat
  PROVE  \E bases : /\ OnStack(bases, stack_top) /\ current_base \in bases
                    /\ LeadToRoot(bases, words)
<1>1. \A bases \in SUBSET (0..(stack_top - 1)) : OnStack(bases, stack_top)
  BY DEF OnStack
<1> QED BY <1>1 DEF BasesSound

LEMMA BasesAreSound ==
  ASSUME NEW bases, stack_top' \in Nat, OnStack(bases, stack_top'), current_base' \in bases,
         LeadToRoot(bases, words')
  PROVE  BasesSound'
<1>1. bases \in SUBSET (0..(stack_top' - 1))
  BY DEF OnStack
<1> QED BY <1>1 DEF BasesSound

\* The words below the top of the stack are the ones that the bases are read from.
LEMMA BasesStay ==
  ASSUME BasesSound, stack_top \in Nat, stack_top' \in Nat, stack_top' >= stack_top,
         current_base' = current_base, \A b \in 0..(stack_top - 1) : words'[b] = words[b]
  PROVE  BasesSound'
<1>1. PICK bases : /\ OnStack(bases, stack_top) /\ current_base \in bases
                   /\ LeadToRoot(bases, words)
  BY BasesOnStack
<1>2. OnStack(bases, stack_top')
  BY <1>1 DEF OnStack
<1>3. \A b \in bases : words'[b] = words[b]
  BY <1>1 DEF OnStack
<1>4. LeadToRoot(bases, words')
  BY <1>1, <1>3 DEF LeadToRoot
<1> QED BY <1>1, <1>2, <1>4, BasesAreSound

\* The text starts out with an empty stack and an empty tree.
LEMMA DocumentInit == JsonDocumentInit => DocumentInv
BY SizeAssumption DEF JsonDocumentInit, DocumentInv, Inside, Room, TYPE_NULL

\* The base of a structure that opens is read from the word it is saved in.
LEMMA OpenKeeps ==
  ASSUME DocumentInv, NEW type \in 0..7, NEW saved \in 0..7, NEW around \in Nat,
         Open(type, saved, around),
         \/ label = "root" /\ around = ROOT_MARKER
         \/ AtElement /\ around = current_base
  PROVE  DocumentInv'
<1>1. /\ length \in Nat /\ used \in Nat /\ used < length /\ used' = used + 1 /\ length' = length
      /\ stack_top' = stack_top + 1 /\ write_cursor' = write_cursor
      /\ current_base' = stack_top /\ current_structure_type' = type
      /\ words' = [words EXCEPT ![stack_top] = make_element(saved, around)]
      /\ label' \in {"array_close_or_element", "object_close_or_element"}
  BY SizeAssumption DEF Open, Take, DocumentInv
<1>2. /\ stack_top \in Nat /\ write_cursor \in Nat /\ write_cursor <= length
      /\ stack_top + (length - write_cursor) <= used
  <2>1. CASE label = "root"
    BY <1>1, <2>1 DEF DocumentInv
  <2>2. CASE AtElement
    <3>1. Inside /\ label # "structure_close_or_comma"
      BY <2>2 DEF AtElement, Inside
    <3> QED BY <1>1, <3>1, RoomLeft
  <2> QED BY <2>1, <2>2
<1>3. DOMAIN words = 0..(length - 1) /\ stack_top \in DOMAIN words
  BY <1>1, <1>2 DEF DocumentInv
<1>4. DOMAIN words' = 0..(length - 1) /\ words'[stack_top] = make_element(saved, around)
      /\ \A b \in 0..(stack_top - 1) : words'[b] = words[b]
  BY <1>1, <1>2, <1>3
<1>5. words'[stack_top] \in Nat /\ get_element_value(words'[stack_top]) = around
  BY <1>4, ElementRead
<1>6. BasesSound'
  <2>1. CASE label = "root" /\ around = ROOT_MARKER
    <3>1. OnStack({stack_top}, stack_top') /\ LeadToRoot({stack_top}, words')
      BY <1>1, <1>2, <1>5, <2>1 DEF OnStack, LeadToRoot
    <3>2. stack_top' \in Nat /\ current_base' \in {stack_top}
      BY <1>1, <1>2
    <3> QED BY <3>1, <3>2, BasesAreSound
  <2>2. CASE AtElement /\ around = current_base
    <3>1. BasesSound
      BY <2>2 DEF DocumentInv, AtElement, Inside
    <3>2. PICK bases : /\ OnStack(bases, stack_top) /\ current_base \in bases
                       /\ LeadToRoot(bases, words)
      BY <1>2, <3>1, BasesOnStack
    <3> PICK more : more = bases \cup {stack_top}
      OBVIOUS
    <3>3. OnStack(more, stack_top')
      BY <1>1, <1>2, <3>2 DEF OnStack
    <3>4. \A b \in bases : words'[b] = words[b]
      BY <1>2, <1>4, <3>2 DEF OnStack
    <3>5. around \in bases /\ around < stack_top
      BY <1>2, <2>2, <3>2 DEF OnStack
    <3>6. LeadToRoot(more, words')
      BY <1>5, <3>2, <3>4, <3>5 DEF LeadToRoot
    <3>7. stack_top' \in Nat /\ current_base' \in more
      BY <1>1, <1>2
    <3> QED BY <3>3, <3>6, <3>7, BasesAreSound
  <2> QED BY <2>1, <2>2
<1>7. length' \in 0..MaxLength /\ used' \in 0..length' /\ Room'
  BY <1>1, <1>2 DEF DocumentInv, Room
<1> QED BY <1>1, <1>4, <1>6, <1>7 DEF DocumentInv, Inside

\* A piece that is a value or a key: what it pushes it has paid for, and it writes
\* nothing below the top of the stack.
LEMMA PieceKeeps ==
  ASSUME DocumentInv, Inside, used' \in Nat, used' <= length, Inside', length' = length,
         DOMAIN words' = DOMAIN words, \A b \in 0..(stack_top - 1) : words'[b] = words[b],
         current_base' = current_base, current_structure_type' = current_structure_type,
         stack_top' \in Nat, write_cursor' \in Nat,
         stack_top' >= stack_top, stack_top' <= length, write_cursor' <= length,
         label' = "structure_close_or_comma" => stack_top' + (length - write_cursor') <= used' + 1,
         label' # "structure_close_or_comma" => stack_top' + (length - write_cursor') <= used'
  PROVE  DocumentInv'
<1>1. stack_top \in Nat /\ length \in Nat
  BY SizeAssumption DEF DocumentInv, Room
<1>2. BasesSound'
  BY <1>1, BasesStay DEF DocumentInv
<1>3. write_cursor' \in 0..length' /\ stack_top' \in 0..length' /\ used' \in Nat
  BY <1>1
<1>4. Room'
  BY <1>3 DEF Room
<1> QED BY <1>2, <1>4 DEF DocumentInv, Inside

LEMMA OneMore ==
  ASSUME NEW a \in Nat, NEW b \in Nat, NEW c \in Nat, NEW d \in Nat, a + (b - c) <= d
  PROVE  (a + 1) + (b - c) <= d + 1
OBVIOUS

\* A value: its words go below the tree and its element onto the stack.
LEMMA PushKeeps ==
  ASSUME DocumentInv, AtElement, used < length, used' \in Nat, used' <= length, length' = length,
         NEW type, NEW buffer, NEW cursor \in Nat, cursor <= length,
         DOMAIN buffer = DOMAIN words, \A b \in 0..(stack_top - 1) : buffer[b] = words[b],
         stack_top + (length - cursor) <= used', PushValue(type, buffer, stack_top, cursor),
         current_base' = current_base, current_structure_type' = current_structure_type
  PROVE  DocumentInv'
<1>1. Inside /\ label # "structure_close_or_comma"
  BY DEF AtElement, Inside
<1>2. /\ length \in Nat /\ used \in Nat /\ stack_top \in Nat /\ stack_top <= used
      /\ write_cursor \in Nat /\ write_cursor <= length
  BY <1>1, RoomLeft
<1>3. /\ words' = [buffer EXCEPT ![stack_top] = make_element(type, get_write_offset(cursor))]
      /\ stack_top' = stack_top + 1 /\ write_cursor' = cursor
      /\ label' = "structure_close_or_comma"
  BY DEF PushValue
<1>4. DOMAIN words' = DOMAIN words /\ \A b \in 0..(stack_top - 1) : words'[b] = words[b]
  BY <1>2, <1>3
<1>5. /\ stack_top' \in Nat /\ write_cursor' \in Nat
      /\ stack_top' >= stack_top /\ stack_top' <= length /\ write_cursor' <= length
      /\ stack_top' + (length - write_cursor') <= used' + 1
  <2>1. stack_top' \in Nat /\ stack_top' >= stack_top /\ stack_top' <= length
    BY <1>2, <1>3
  <2>2. write_cursor' \in Nat /\ write_cursor' <= length /\ used' \in Nat
    BY <1>2, <1>3
  <2>3. stack_top' + (length - write_cursor') <= used' + 1
    BY <1>2, <1>3, <2>2, OneMore
  <2> QED BY <2>1, <2>2, <2>3
<1>6. Inside'
  BY <1>3 DEF Inside
<1> QED BY <1>1, <1>3, <1>4, <1>5, <1>6, PieceKeeps

\* The tag of a string is two words.
LEMMA TaggedWords ==
  ASSUME NEW slot \in Nat, NEW s
  PROVE  /\ DOMAIN Tagged(slot, s) = DOMAIN words
         /\ \A b \in DOMAIN words : b # slot /\ b # slot + 1 => Tagged(slot, s)[b] = words[b]
BY DEF Tagged

\* A structure that closes: its base is on the stack, and the base it leads to is
\* below it, where neither the tree nor the element of the structure comes.
LEMMA PopKeeps ==
  ASSUME DocumentInv, Inside, used < length, used' = used + 1, length' = length,
         NEW type \in 0..7, NEW buffer, NEW new_base,
         new_base = write_cursor - (stack_top - (current_base + 1)) - 1,
         DOMAIN buffer = 0..(length - 1),
         \A b \in 0..(length - 1) : b < new_base => buffer[b] = words[b],
         Pop(words[current_base], type, buffer, new_base)
  PROVE  DocumentInv'
<1>1. /\ length \in Nat /\ used \in Nat /\ stack_top \in Nat /\ write_cursor \in Nat
      /\ stack_top <= write_cursor /\ write_cursor <= length
      /\ stack_top + (length - write_cursor) <= used + 1
  BY RoomLeft
<1>2. PICK bases : /\ OnStack(bases, stack_top) /\ current_base \in bases
                   /\ LeadToRoot(bases, words)
  BY <1>1, BasesOnStack DEF DocumentInv
<1>3. current_base \in Nat /\ current_base < stack_top
  BY <1>1, <1>2 DEF OnStack
<1>4. new_base \in Nat /\ current_base <= new_base /\ new_base <= length
      /\ new_base = write_cursor - stack_top + current_base
  BY <1>1, <1>3
<1> DEFINE parent == get_element_value(words[current_base])
<1>5. CASE parent = ROOT_MARKER
  <2>1. /\ label' = "end" /\ words' = buffer /\ write_cursor' = new_base
        /\ stack_top' = stack_top /\ current_structure_type' = current_structure_type
    BY <1>5 DEF Pop, PopTo
  <2> QED BY <1>1, <1>4, <2>1 DEF DocumentInv, Inside, Room
<1>6. CASE parent # ROOT_MARKER
  <2>1. parent \in bases /\ parent < current_base /\ words[current_base] \in Nat
    BY <1>2, <1>6 DEF LeadToRoot
  <2>2. /\ words' = [buffer EXCEPT ![current_base] = make_element(type, get_write_offset(new_base))]
        /\ stack_top' = current_base + 1 /\ write_cursor' = new_base
        /\ label' = "structure_close_or_comma" /\ current_base' = parent
        /\ current_structure_type' = get_element_type(words[current_base])
    BY <1>6 DEF Pop, PopTo, PushValue
  <2>3. current_structure_type' \in 0..7
    BY <2>1, <2>2, SMTT(30) DEF get_element_type
  <2>4. DOMAIN words' = 0..(length - 1) /\ \A b \in 0..(current_base - 1) : words'[b] = words[b]
    BY <1>1, <1>3, <1>4, <2>2
  <2>5. BasesSound'
    <3> PICK outer : outer = {b \in bases : b <= parent}
      OBVIOUS
    <3>1. \A b \in bases : b \in Nat
      BY <1>2 DEF OnStack
    <3>2. parent \in Nat /\ parent \in outer
      <4> PICK v : v = parent
        OBVIOUS
      <4>1. v \in bases /\ v \in Nat /\ v <= v
        BY <2>1, <3>1
      <4> QED BY <4>1
    <3>3. OnStack(outer, current_base)
      <4> SUFFICES ASSUME NEW b \in outer PROVE b \in Nat /\ b <= current_base - 1
        BY DEF OnStack
      <4> QED BY <1>3, <2>1, <3>1, <3>2
    <3>4. \A b \in outer : words'[b] = words[b]
      BY <1>3, <2>4, <3>3 DEF OnStack
    <3>5. LeadToRoot(outer, words)
      <4> SUFFICES ASSUME NEW b \in outer, NEW v, v = get_element_value(words[b])
                   PROVE  words[b] \in Nat /\ (v = ROOT_MARKER \/ (v \in outer /\ v < b))
        BY DEF LeadToRoot
      <4>1. b \in Nat /\ b <= parent /\ words[b] \in Nat /\ (v = ROOT_MARKER \/ (v \in bases /\ v < b))
        BY <1>2, <3>1 DEF LeadToRoot
      <4>2. CASE v \in bases /\ v < b
        <5>1. v \in Nat /\ v <= parent
          BY <3>1, <3>2, <4>1, <4>2
        <5> QED BY <4>1, <4>2, <5>1
      <4> QED BY <4>1, <4>2
    <3>6. LeadToRoot(outer, words')
      BY <3>4, <3>5 DEF LeadToRoot
    <3>7. OnStack(outer, stack_top') /\ stack_top' \in Nat /\ current_base' \in outer
      BY <1>3, <2>2, <3>2, <3>3 DEF OnStack
    <3> QED BY <3>6, <3>7, BasesAreSound
  <2>6. Room'
    BY <1>1, <1>3, <1>4, <2>2 DEF Room
  <2> QED BY <1>1, <2>2, <2>3, <2>4, <2>5, <2>6 DEF DocumentInv, Inside
<1> QED BY <1>5, <1>6

\* No step of the parser writes where it should not.
LEMMA DocumentStep == DocumentInv /\ [JsonDocumentNext]_vars => DocumentInv'
<1> SUFFICES ASSUME DocumentInv, [JsonDocumentNext]_vars PROVE DocumentInv'
  OBVIOUS
<1>0. /\ length \in Nat /\ used \in Nat /\ used <= length /\ stack_top \in Nat /\ write_cursor \in Nat
      /\ DOMAIN words = 0..(length - 1)
  BY SizeAssumption DEF DocumentInv, Room
<1>1. CASE Whitespace
  <2>1. /\ used' = used + 1 /\ used' <= length /\ length' = length /\ label' = label /\ words' = words
        /\ stack_top' = stack_top /\ write_cursor' = write_cursor /\ current_base' = current_base
        /\ current_structure_type' = current_structure_type
    BY <1>1 DEF Whitespace, Take
  <2>2. Room'
    BY <1>0, <2>1 DEF DocumentInv, Room
  <2>3. BasesSound <=> BasesSound'
    BY <2>1 DEF BasesSound
  <2> QED BY <1>0, <2>1, <2>2, <2>3 DEF DocumentInv, Inside
<1>2. CASE OpenRoot
  <2>1. PICK type \in {TYPE_ARRAY, TYPE_OBJECT} : Open(type, type, ROOT_MARKER)
    BY <1>2 DEF OpenRoot
  <2>2. type \in 0..7 /\ ROOT_MARKER \in Nat /\ label = "root"
    BY <1>2, SizeAssumption DEF OpenRoot, TYPE_ARRAY, TYPE_OBJECT, ROOT_MARKER
  <2> QED BY <2>1, <2>2, OpenKeeps
<1>3. CASE OpenNested
  <2>1. PICK type \in {TYPE_ARRAY, TYPE_OBJECT} : Open(type, current_structure_type, current_base)
    BY <1>3 DEF OpenNested
  <2>2. type \in 0..7 /\ current_structure_type \in 0..7 /\ AtElement
    BY <1>3 DEF OpenNested, TYPE_ARRAY, TYPE_OBJECT, DocumentInv
  <2>3. BasesSound
    BY <2>2 DEF AtElement, Inside, DocumentInv
  <2>4. \E bases : OnStack(bases, stack_top) /\ current_base \in bases
    BY <1>0, <2>3, BasesOnStack
  <2>5. current_base \in Nat
    BY <1>0, <2>4 DEF OnStack
  <2> QED BY <2>1, <2>2, <2>5, OpenKeeps
<1>4. ASSUME AtElement, used < length
      PROVE  /\ Inside /\ stack_top \in Nat /\ write_cursor \in Nat /\ write_cursor <= length
             /\ stack_top + (length - write_cursor) <= used
  BY <1>4, RoomLeft DEF AtElement, Inside
<1>5. CASE Literal
  <2>1. PICK l \in Literals :
          /\ used' = used + l.taken /\ used' <= length
          /\ PushValue(l.type, words, stack_top, write_cursor)
    BY <1>5 DEF Literal, Take
  <2>2. l.taken \in Nat /\ l.taken >= 4
    BY DEF Literals
  <2>3. used < length /\ used' \in Nat /\ used' <= length
    BY <1>0, <2>1, <2>2
  <2>4. AtElement /\ length' = length /\ current_base' = current_base
        /\ current_structure_type' = current_structure_type
    BY <1>5 DEF Literal
  <2>5. stack_top + (length - write_cursor) <= used'
    BY <1>0, <1>4, <2>1, <2>2, <2>3, <2>4
  <2> QED BY <1>0, <1>4, <2>1, <2>3, <2>4, <2>5, PushKeeps
<1>6. CASE Number
  <2>1. PICK n \in Numbers :
          /\ used' = used + n.taken /\ used' < length
          /\ PushValue(n.type, [words EXCEPT ![write_cursor - 1] = n.value],
                       stack_top, write_cursor - 1)
    BY <1>6 DEF Number, Take
  <2>2. n.taken \in Nat /\ n.taken >= 1
    BY NumbersAssumption
  <2>3. used < length /\ used' \in Nat /\ used' <= length
    BY <1>0, <2>1, <2>2
  <2>4. AtElement /\ length' = length /\ current_base' = current_base
        /\ current_structure_type' = current_structure_type
    BY <1>6 DEF Number
  <2>5. /\ write_cursor - 1 \in Nat /\ write_cursor - 1 >= stack_top /\ write_cursor - 1 <= length
        /\ stack_top + (length - (write_cursor - 1)) <= used'
    BY <1>0, <1>4, <2>1, <2>2, <2>3, <2>4
  <2> PICK buffer : buffer = [words EXCEPT ![write_cursor - 1] = n.value]
    OBVIOUS
  <2>6. DOMAIN buffer = DOMAIN words /\ \A b \in 0..(stack_top - 1) : buffer[b] = words[b]
    BY <1>0, <2>5
  <2>7. PushValue(n.type, buffer, stack_top, write_cursor - 1)
    BY <2>1
  <2> QED BY <2>3, <2>4, <2>5, <2>6, <2>7, PushKeeps
<1>7. CASE String
  <2>1. PICK s \in Strings :
          /\ used' = used + s.taken /\ used' <= length
          /\ PushValue(TYPE_STRING, Tagged(write_cursor - 2, s), stack_top, write_cursor - 2)
    BY <1>7 DEF String, Take
  <2>2. s.taken \in Nat /\ s.taken >= 2
    BY StringsAssumption
  <2>3. used < length /\ used' \in Nat /\ used' <= length
    BY <1>0, <2>1, <2>2
  <2>4. AtElement /\ length' = length /\ current_base' = current_base
        /\ current_structure_type' = current_structure_type
    BY <1>7 DEF String
  <2>5. /\ write_cursor - 2 \in Nat /\ write_cursor - 2 >= stack_top /\ write_cursor - 2 <= length
        /\ stack_top + (length - (write_cursor - 2)) <= used'
    BY <1>0, <1>4, <2>1, <2>2, <2>3, <2>4
  <2> PICK buffer : buffer = Tagged(write_cursor - 2, s)
    OBVIOUS
  <2>6. DOMAIN buffer = DOMAIN words /\ \A b \in 0..(stack_top - 1) : buffer[b] = words[b]
    <3>1. \A b \in 0..(stack_top - 1) :
            b \in DOMAIN words /\ b # write_cursor - 2 /\ b # write_cursor - 2 + 1
      BY <1>0, <2>5
    <3> QED BY <2>5, <3>1, TaggedWords
  <2>7. PushValue(TYPE_STRING, buffer, stack_top, write_cursor - 2)
    BY <2>1
  <2> QED BY <2>3, <2>4, <2>5, <2>6, <2>7, PushKeeps
<1>8. CASE ObjectKey
  <2>1. PICK s \in Strings :
          /\ used' = used + s.taken /\ used' <= length
          /\ words' = Tagged(stack_top, s) /\ stack_top' = stack_top + 2
    BY <1>8 DEF ObjectKey, Take
  <2>2. s.taken \in Nat /\ s.taken >= 2
    BY StringsAssumption
  <2>3. used < length /\ used' \in Nat /\ used' <= length
    BY <1>0, <2>1, <2>2
  <2>4. /\ label \in {"object_key", "object_close_or_element"} /\ length' = length
        /\ current_base' = current_base /\ write_cursor' = write_cursor
        /\ current_structure_type' = current_structure_type /\ label' = "object_colon"
    BY <1>8 DEF ObjectKey
  <2>5. Inside /\ label # "structure_close_or_comma" /\ Inside'
    BY <2>4 DEF Inside
  <2>6. write_cursor <= length /\ stack_top + (length - write_cursor) <= used
    BY <2>3, <2>5, RoomLeft
  <2>7. /\ stack_top' \in Nat /\ write_cursor' \in Nat
        /\ stack_top' >= stack_top /\ stack_top' <= length /\ write_cursor' <= length
        /\ stack_top' + (length - write_cursor') <= used'
    BY <1>0, <2>1, <2>2, <2>4, <2>6
  <2>8. DOMAIN words' = DOMAIN words /\ \A b \in 0..(stack_top - 1) : words'[b] = words[b]
    <3>1. \A b \in 0..(stack_top - 1) : b \in DOMAIN words /\ b # stack_top /\ b # stack_top + 1
      BY <1>0, <2>3, <2>6
    <3>2. stack_top \in Nat /\ words' = Tagged(stack_top, s)
      BY <1>0, <2>1
    <3> QED BY <3>1, <3>2, TaggedWords
  <2> QED BY <2>3, <2>4, <2>5, <2>7, <2>8, PieceKeeps
<1>9. CASE Colon \/ Comma
  <2>1. /\ used' = used + 1 /\ used' <= length /\ length' = length /\ words' = words
        /\ stack_top' = stack_top /\ write_cursor' = write_cursor /\ current_base' = current_base
        /\ current_structure_type' = current_structure_type
        /\ label \in {"object_colon", "structure_close_or_comma"}
        /\ label' \in {"next_element", "object_key"}
    BY <1>9 DEF Colon, Comma, Take
  <2>2. Inside /\ Inside' /\ used < length /\ used' \in Nat /\ used' <= length
    BY <1>0, <2>1 DEF Inside
  <2>3. write_cursor <= length /\ stack_top + (length - write_cursor) <= used' /\ stack_top <= length
    BY <1>0, <2>1, <2>2, RoomLeft
  <2>4. /\ stack_top' \in Nat /\ write_cursor' \in Nat
        /\ stack_top' >= stack_top /\ stack_top' <= length /\ write_cursor' <= length
        /\ stack_top' + (length - write_cursor') <= used'
    BY <1>0, <2>1, <2>3
  <2>5. label' # "structure_close_or_comma"
    BY <2>1
  <2>6. DOMAIN words' = DOMAIN words /\ \A b \in 0..(stack_top - 1) : words'[b] = words[b]
    BY <2>1
  <2> QED BY <2>1, <2>2, <2>4, <2>5, <2>6, PieceKeeps
<1>10. CASE CloseArray
  <2> PICK new_base : new_base = write_cursor - (stack_top - (current_base + 1)) - 1
    OBVIOUS
  <2> PICK buffer : buffer = install_array(current_base + 1, stack_top, new_base)
    OBVIOUS
  <2>1. /\ Inside /\ used' = used + 1 /\ used' <= length /\ length' = length
        /\ Pop(words[current_base], TYPE_ARRAY, buffer, new_base)
    BY <1>10 DEF CloseArray, Take, Inside
  <2>2. DOMAIN buffer = 0..(length - 1) /\ \A b \in 0..(length - 1) : b < new_base => buffer[b] = words[b]
    BY DEF install_array
  <2>3. used < length /\ TYPE_ARRAY \in 0..7
    BY <1>0, <2>1 DEF TYPE_ARRAY
  <2> QED BY <2>1, <2>2, <2>3, PopKeeps
<1>11. CASE CloseObject
  <2> PICK new_base : new_base = write_cursor - (stack_top - (current_base + 1)) - 1
    OBVIOUS
  <2>1. PICK order :
          Pop(words[current_base], TYPE_OBJECT,
              install_object(current_base + 1, stack_top, new_base, order), new_base)
    BY <1>11 DEF CloseObject
  <2> PICK buffer : buffer = install_object(current_base + 1, stack_top, new_base, order)
    OBVIOUS
  <2>2. /\ Inside /\ used' = used + 1 /\ used' <= length /\ length' = length
        /\ Pop(words[current_base], TYPE_OBJECT, buffer, new_base)
    BY <1>11, <2>1 DEF CloseObject, Take, Inside
  <2>3. DOMAIN buffer = 0..(length - 1) /\ \A b \in 0..(length - 1) : b < new_base => buffer[b] = words[b]
    BY DEF install_object
  <2>4. used < length /\ TYPE_OBJECT \in 0..7
    BY <1>0, <2>2 DEF TYPE_OBJECT
  <2> QED BY <2>2, <2>3, <2>4, PopKeeps
<1>12. CASE Finish \/ Refuse
  <2>1. /\ label' \in {"done", "error"} /\ length' = length /\ used' = used /\ words' = words
        /\ stack_top' = stack_top /\ write_cursor' = write_cursor
        /\ current_structure_type' = current_structure_type
    BY <1>12 DEF Finish, Refuse
  <2> QED BY <1>0, <2>1 DEF DocumentInv, Inside, Room
<1>13. CASE UNCHANGED vars
  BY <1>13 DEF vars, DocumentInv, Inside, Room, BasesSound
<1> QED BY <1>1, <1>2, <1>3, <1>5, <1>6, <1>7, <1>8, <1>9, <1>10, <1>11, <1>12, <1>13 DEF JsonDocumentNext

\* The parse stack and the tree keep to the words that were paid for, whatever
\* the text is, and every structure that closes finds the base of the one around it.
THEOREM DocumentInvariant == JsonDocumentSpec => []DocumentInv
<1> QED BY DocumentInit, DocumentStep, PTL DEF JsonDocumentSpec

\* Without a test the single_allocation policy never lets the stack reach the tree,
\* however long the text, however deep its structures: as long as another byte can
\* be read, no word in use has been written over.
THEOREM StackAndTreeApart == JsonDocumentSpec => []Apart
<1>1. DocumentInv => Apart
  <2> SUFFICES ASSUME DocumentInv PROVE Apart
    OBVIOUS
  <2>1. 0 <= write_cursor /\ stack_top <= length
    BY SizeAssumption DEF DocumentInv, Room
  <2>2. ASSUME label \notin {"end", "done", "error"}, used < length PROVE stack_top <= write_cursor
    <3>1. CASE Inside
      BY <2>2, <3>1, RoomLeft
    <3>2. CASE label = "root"
      BY <3>2, SizeAssumption DEF DocumentInv
    <3> QED BY <2>2, <3>1, <3>2 DEF DocumentInv
  <2> QED BY <2>1, <2>2 DEF Apart
<1> QED BY <1>1, DocumentInvariant, PTL
-----------------------------------------------------------------------------
(* HttpMessages.tla *)

\* ensureUriUpdated() and ensureCookiesUpdated() leave what is parsed from the string.
LEMMA Updated ==
  ASSUME NEW source, NEW parsed, NEW string, CacheSound(source, parsed, string),
         NEW now, now = EnsureUpdated(source, parsed, string)
  PROVE  now.parsed = ParsedInto(<<>>, string.text) /\ CacheSound(now.source, now.parsed, string)
<1>1. CASE IsEmpty(source)
  <2>1. parsed = <<>>
    BY <1>1 DEF CacheSound, ParsedInto, IsEmpty
  <2>2. now.source = string /\ now.parsed = ParsedInto(<<>>, string.text)
    BY <1>1, <2>1 DEF EnsureUpdated
  <2> QED BY <2>2 DEF CacheSound, Meets
<1>2. CASE ~IsEmpty(source) /\ source.address # string.address
  <2>1. now.source = string /\ now.parsed = ParsedInto(<<>>, string.text)
    BY <1>2 DEF EnsureUpdated
  <2> QED BY <2>1 DEF CacheSound, Meets
<1>3. CASE ~IsEmpty(source) /\ source.address = string.address
  <2>1. now.source = source /\ now.parsed = parsed
    BY <1>3 DEF EnsureUpdated
  <2> QED BY <1>3, <2>1 DEF CacheSound, Meets
<1> QED BY <1>1, <1>2, <1>3

\* A default string is the source of nothing.
LEMMA NothingParsed == ASSUME NEW string PROVE CacheSound(NoString, <<>>, string)
BY DEF CacheSound, ParsedInto, NoString, StringAt, IsEmpty

LEMMA MessagesStep ==
  ASSUME ~MayMeetSource, CachesInv, CachesCurrent, [MessagesNext]_messageVars
  PROVE  CachesInv' /\ CachesCurrent'
<1> USE DEF CachesInv
<1>0. Nothing.returned = Nothing.should
  BY DEF Nothing
<1>1. ASSUME NEW string, SetUrl(string) PROVE CachesInv' /\ CachesCurrent'
  BY <1>0, <1>1 DEF SetUrl, CacheSound, CachesCurrent
<1>2. ASSUME NEW string, SetCookieHeader(string) PROVE CachesInv' /\ CachesCurrent'
  BY <1>0, <1>2 DEF SetCookieHeader, CacheSound, CachesCurrent
<1>3. CASE GetUri
  <2> PICK now : now = EnsureUpdated(sourceOfUri, uri, url)
    OBVIOUS
  <2>1. /\ sourceOfUri' = now.source /\ uri' = now.parsed /\ url' = url
        /\ asked' = [returned |-> now.parsed, should |-> ParsedInto(<<>>, url.text)]
        /\ sourceOfCookies' = sourceOfCookies /\ cookies' = cookies /\ cookieHeader' = cookieHeader
    BY <1>3 DEF GetUri
  <2>2. now.parsed = ParsedInto(<<>>, url.text) /\ CacheSound(now.source, now.parsed, url)
    BY Updated
  <2> QED BY <2>1, <2>2 DEF CachesCurrent
<1>4. CASE GetCookies
  <2> PICK now : now = EnsureUpdated(sourceOfCookies, cookies, cookieHeader)
    OBVIOUS
  <2>1. /\ sourceOfCookies' = now.source /\ cookies' = now.parsed /\ cookieHeader' = cookieHeader
        /\ asked' = [returned |-> now.parsed, should |-> ParsedInto(<<>>, cookieHeader.text)]
        /\ sourceOfUri' = sourceOfUri /\ uri' = uri /\ url' = url
    BY <1>4 DEF GetCookies
  <2>2. now.parsed = ParsedInto(<<>>, cookieHeader.text)
        /\ CacheSound(now.source, now.parsed, cookieHeader)
    BY Updated
  <2> QED BY <2>1, <2>2 DEF CachesCurrent
<1>5. CASE NextExchange
  <2>1. /\ sourceOfUri' = NoString /\ uri' = <<>> /\ sourceOfCookies' = NoString /\ cookies' = <<>>
        /\ asked' = Nothing
    BY <1>5 DEF NextExchange, ClearRequest
  <2> QED BY <1>0, <2>1, NothingParsed DEF CachesCurrent
<1>6. ASSUME UNCHANGED requestVars, asked' = Nothing PROVE CachesInv' /\ CachesCurrent'
  BY <1>0, <1>6 DEF requestVars, CachesCurrent
<1>7. ASSUME NEW k, NEW value, SetHeader(k, value) PROVE CachesInv' /\ CachesCurrent'
  BY <1>6, <1>7 DEF SetHeader
<1>8. ASSUME NEW k, RemoveHeader(k) \/ RedirectTo(k) PROVE CachesInv' /\ CachesCurrent'
  BY <1>6, <1>8 DEF RemoveHeader, RedirectTo
<1>9. CASE SetCookie \/ SendHeaders
  BY <1>6, <1>9 DEF SetCookie, SendHeaders
<1>10. CASE UNCHANGED messageVars
  BY <1>10 DEF messageVars, CachesCurrent
<1> QED BY <1>1, <1>2, <1>3, <1>4, <1>5, <1>7, <1>8, <1>9, <1>10 DEF MessagesNext

\* getUri() and getCookies() return what the url and the Cookie header of now say,
\* although they compare only addresses, as long as a new string is not allocated
\* where the parsed one was with another text (the run stale_uri has one that is).
THEOREM CachesFresh == ~MayMeetSource /\ MessagesSpec => []CachesCurrent
<1> SUFFICES ASSUME ~MayMeetSource PROVE MessagesSpec => []CachesCurrent
  OBVIOUS
<1>1. MessagesInit => CachesInv /\ CachesCurrent
  BY NothingParsed DEF MessagesInit, CachesInv, CachesCurrent, Nothing
<1>2. CachesInv /\ CachesCurrent /\ [MessagesNext]_messageVars => (CachesInv /\ CachesCurrent)'
  BY MessagesStep
<1> QED BY <1>1, <1>2, PTL DEF MessagesSpec

\* The headers that are members of the class and not empty, and those in the map
FixedSet == { k \in FixedKeys : headers[k] # 0 }
RemainSet == { k \in RemainKeys : headers[k] # NoHeader }

\* What is written, line by line
LinesAre(f, r, a, s, t) ==
  /\ f \in Nat /\ r \in Nat /\ a \in Nat /\ DOMAIN Lines = 1..(f + r + a)
  /\ \A i \in 1..f : Lines[i] = <<s[i], headers[s[i]]>>
  /\ \A i \in 1..r : Lines[f + i] = <<t[i], headers[t[i]]>>
  /\ \A i \in 1..a : Lines[f + r + i] = <<"Set-Cookie", additionHeaders[i]>>

LEMMA LinesRead ==
  ASSUME HeadersInv
  PROVE  LinesAre(Cardinality(FixedSet), Cardinality(RemainSet), Len(additionHeaders),
                  SetToSeq(FixedSet), SetToSeq(RemainSet))
<1>1. PICK f, r, a, s, t : /\ f = Cardinality(FixedSet) /\ r = Cardinality(RemainSet)
                           /\ a = Len(additionHeaders)
                           /\ s = SetToSeq(FixedSet) /\ t = SetToSeq(RemainSet)
  OBVIOUS
<1>2. IsFiniteSet(FixedSet) /\ IsFiniteSet(RemainSet)
  <2>1. FixedSet \in SUBSET FixedKeys /\ RemainSet \in SUBSET RemainKeys
    BY DEF FixedSet, RemainSet
  <2> QED BY <2>1, FS_Subset, MessagesAssumption
<1>3. f \in Nat /\ r \in Nat /\ a \in Nat /\ DOMAIN additionHeaders = 1..a
  BY <1>1, <1>2, FS_CardinalityType DEF HeadersInv
<1>4. PICK x, y, z : /\ x = [i \in 1..f |-> <<s[i], headers[s[i]]>>]
                     /\ y = [i \in 1..r |-> <<t[i], headers[t[i]]>>]
                     /\ z = [i \in 1..a |-> <<"Set-Cookie", additionHeaders[i]>>]
  OBVIOUS
<1>5. Lines = x \o y \o z
  BY <1>1, <1>3, <1>4 DEF Lines, FixedSet, RemainSet
<1>6. PICK V : V = { x[i] : i \in 1..f } \cup { y[i] : i \in 1..r } \cup { z[i] : i \in 1..a }
  OBVIOUS
<1>7. /\ x \in Seq(V) /\ y \in Seq(V) /\ z \in Seq(V)
      /\ Len(x) = f /\ Len(y) = r /\ Len(z) = a
  <2>1. x \in [1..f -> V] /\ y \in [1..r -> V] /\ z \in [1..a -> V]
    BY <1>4, <1>6
  <2> QED BY <1>3, <2>1
<1>8. PICK xy : xy = x \o y
  OBVIOUS
<1>9. /\ xy \in Seq(V) /\ Len(xy) = f + r
      /\ \A i \in 1..f : xy[i] = x[i]
      /\ \A i \in 1..r : xy[f + i] = y[i]
  <2>1. xy \in Seq(V) /\ IsJoin(xy, x, y)
    BY <1>7, <1>8, Joined
  <2> QED BY <1>7, <2>1 DEF IsJoin
<1>10. PICK w : w = xy \o z
  OBVIOUS
<1>11. /\ DOMAIN w = 1..(f + r + a)
       /\ \A i \in 1..(f + r) : w[i] = xy[i]
       /\ \A i \in 1..a : w[f + r + i] = z[i]
  <2>1. /\ w \in Seq(V) /\ Len(w) = f + r + a
        /\ \A i \in 1..(f + r) : w[i] = xy[i]
        /\ \A i \in 1..a : w[f + r + i] = z[i]
    <3>1. w \in Seq(V) /\ IsJoin(w, xy, z)
      BY <1>7, <1>9, <1>10, Joined
    <3> QED BY <1>7, <1>9, <3>1 DEF IsJoin
  <2> QED BY <2>1
<1>12. \A i \in 1..f : w[i] = <<s[i], headers[s[i]]>>
  BY <1>3, <1>4, <1>9, <1>11
<1>13. ASSUME NEW i \in 1..r PROVE w[f + i] = <<t[i], headers[t[i]]>>
  <2>1. f + i \in 1..(f + r)
    BY <1>3
  <2> QED BY <1>4, <1>9, <1>11, <2>1
<1>14. \A i \in 1..a : w[f + r + i] = <<"Set-Cookie", additionHeaders[i]>>
  BY <1>4, <1>11
<1>15. Lines = w
  BY <1>5, <1>8, <1>10
<1>16. DOMAIN Lines = 1..(f + r + a)
  BY <1>11, <1>15
<1>17. \A i \in 1..r : Lines[f + i] = <<t[i], headers[t[i]]>>
  BY <1>13, <1>15
<1>18. LinesAre(f, r, a, s, t)
  BY <1>3, <1>12, <1>14, <1>15, <1>16, <1>17 DEF LinesAre
<1> QED BY <1>1, <1>18

\* The lines of now are those that they should be.
LEMMA LinesOwn == ASSUME HeadersInv PROVE OwnHeadersSent
<1> SUFFICES ASSUME sent # <<>>
    PROVE  /\ \A k \in FixedKeys \cup RemainKeys :
                Cardinality(LinesOf(k)) = IF wanted[k] = NoHeaders[k] THEN 0 ELSE 1
           /\ \A i \in DOMAIN sent \ LinesOf("Set-Cookie") :
                sent[i][1] \in FixedKeys \cup RemainKeys /\ sent[i][2] = wanted[sent[i][1]]
           /\ Cardinality(LinesOf("Set-Cookie")) = Len(additionHeaders)
           /\ \A i \in LinesOf("Set-Cookie") :
                sent[i][2] = <<exchange, Cardinality({ j \in LinesOf("Set-Cookie") : j <= i })>>
  BY DEF OwnHeadersSent
<1>0. PICK f, r, a, s, t : /\ f = Cardinality(FixedSet) /\ r = Cardinality(RemainSet)
                           /\ a = Len(additionHeaders)
                           /\ s = SetToSeq(FixedSet) /\ t = SetToSeq(RemainSet)
  OBVIOUS
<1>1. /\ f = Cardinality(FixedSet) /\ r = Cardinality(RemainSet)
      /\ a = Len(additionHeaders) /\ s = SetToSeq(FixedSet) /\ t = SetToSeq(RemainSet)
      /\ f \in Nat /\ r \in Nat /\ a \in Nat /\ DOMAIN Lines = 1..(f + r + a)
      /\ \A i \in 1..f : Lines[i] = <<s[i], headers[s[i]]>>
      /\ \A i \in 1..r : Lines[f + i] = <<t[i], headers[t[i]]>>
      /\ \A i \in 1..a : Lines[f + r + i] = <<"Set-Cookie", additionHeaders[i]>>
  <2>1. LinesAre(f, r, a, s, t)
    BY <1>0, LinesRead
  <2> QED BY <1>0, <2>1 DEF LinesAre
<1>12. f \in Nat /\ r \in Nat /\ a \in Nat
  BY <1>1
<1> USE <1>12
<1>2. sent = Lines /\ headers = wanted /\ DOMAIN sent = 1..(f + r + a)
  BY <1>1 DEF HeadersInv
<1>3. /\ \A i \in 1..f : s[i] \in FixedSet
      /\ \A i, j \in 1..f : s[i] = s[j] => i = j
      /\ \A k \in FixedSet : \E i \in 1..f : s[i] = k
  <2>1. FixedSet \in SUBSET FixedKeys
    BY DEF FixedSet
  <2>2. IsFiniteSet(FixedSet)
    BY <2>1, FS_Subset, MessagesAssumption
  <2>3. PICK S : S = FixedSet
    OBVIOUS
  <2>4. /\ SetToSeq(S) \in [1..Cardinality(S) -> S]
        /\ \A i, j \in 1..Cardinality(S) : SetToSeq(S)[i] = SetToSeq(S)[j] => i = j
        /\ \A x \in S : \E i \in 1..Cardinality(S) : SetToSeq(S)[i] = x
    BY <2>2, <2>3, SetAsSequence
  <2>5. s = SetToSeq(S) /\ f = Cardinality(S)
    BY <1>1, <2>3
  <2> QED BY <2>3, <2>4, <2>5
<1>4. /\ \A i \in 1..r : t[i] \in RemainSet
      /\ \A i, j \in 1..r : t[i] = t[j] => i = j
      /\ \A k \in RemainSet : \E i \in 1..r : t[i] = k
  <2>1. RemainSet \in SUBSET RemainKeys
    BY DEF RemainSet
  <2>2. IsFiniteSet(RemainSet)
    BY <2>1, FS_Subset, MessagesAssumption
  <2>3. PICK S : S = RemainSet
    OBVIOUS
  <2>4. /\ SetToSeq(S) \in [1..Cardinality(S) -> S]
        /\ \A i, j \in 1..Cardinality(S) : SetToSeq(S)[i] = SetToSeq(S)[j] => i = j
        /\ \A x \in S : \E i \in 1..Cardinality(S) : SetToSeq(S)[i] = x
    BY <2>2, <2>3, SetAsSequence
  <2>5. t = SetToSeq(S) /\ r = Cardinality(S)
    BY <1>1, <2>3
  <2> QED BY <2>3, <2>4, <2>5
<1>5. ASSUME NEW i \in 1..(f + r + a)
      PROVE  \/ i \in 1..f
             \/ \E j \in 1..r : i = f + j
             \/ \E j \in 1..a : i = f + r + j
  <2>1. CASE i <= f
    BY <2>1
  <2>2. CASE f < i /\ i <= f + r
    <3>1. i - f \in 1..r /\ i = f + (i - f)
      BY <2>2
    <3> QED BY <3>1
  <2>3. CASE f + r < i
    <3>1. i - (f + r) \in 1..a /\ i = f + r + (i - (f + r))
      BY <2>3
    <3> QED BY <3>1
  <2> QED BY <2>1, <2>2, <2>3
<1>6. /\ \A i \in 1..f : sent[i][1] = s[i] /\ sent[i][2] = wanted[s[i]] /\ s[i] \in FixedKeys
                      /\ wanted[s[i]] # 0 /\ i \in 1..(f + r + a)
      /\ \A i \in 1..r : sent[f + i][1] = t[i] /\ sent[f + i][2] = wanted[t[i]] /\ t[i] \in RemainKeys
                      /\ wanted[t[i]] # NoHeader /\ f + i \in 1..(f + r + a)
      /\ \A i \in 1..a : sent[f + r + i][1] = "Set-Cookie" /\ f + r + i \in 1..(f + r + a)
                      /\ sent[f + r + i][2] = <<exchange, i>>
  <2>1. \A i \in 1..f : sent[i][1] = s[i] /\ sent[i][2] = wanted[s[i]] /\ s[i] \in FixedKeys
                      /\ wanted[s[i]] # 0 /\ i \in 1..(f + r + a)
    BY <1>1, <1>2, <1>3 DEF FixedSet
  <2>2. ASSUME NEW i \in 1..r
        PROVE  sent[f + i][1] = t[i] /\ sent[f + i][2] = wanted[t[i]] /\ t[i] \in RemainKeys
                      /\ wanted[t[i]] # NoHeader /\ f + i \in 1..(f + r + a)
    <3>1. f + i \in 1..(f + r + a)
      OBVIOUS
    <3>2. sent[f + i] = <<t[i], wanted[t[i]]>>
      BY <1>1, <1>2
    <3> QED BY <1>2, <1>4, <3>1, <3>2 DEF RemainSet
  <2>3. \A i \in 1..a : additionHeaders[i] = <<exchange, i>>
    <3>1. PICK old : old = additionHeaders
      OBVIOUS
    <3>2. old \in Seq({exchange} \X Nat) /\ a = Len(old)
          /\ \A i \in DOMAIN old : old[i] = <<exchange, i>>
      BY <1>1, <3>1 DEF HeadersInv
    <3>3. DOMAIN old = 1..a
      BY <3>2
    <3> QED BY <3>1, <3>2, <3>3
  <2>4. ASSUME NEW i \in 1..a
        PROVE  sent[f + r + i][1] = "Set-Cookie" /\ f + r + i \in 1..(f + r + a)
               /\ sent[f + r + i][2] = <<exchange, i>>
    <3>1. f + r + i \in 1..(f + r + a)
      OBVIOUS
    <3>2. sent[f + r + i] = <<"Set-Cookie", <<exchange, i>>>>
      BY <1>1, <1>2, <2>3
    <3> QED BY <3>1, <3>2
  <2> QED BY <2>1, <2>2, <2>4
<1>7. ASSUME NEW k \in FixedKeys \cup RemainKeys
      PROVE  Cardinality(LinesOf(k)) = IF wanted[k] = NoHeaders[k] THEN 0 ELSE 1
  <2>1. k # "Set-Cookie" /\ FixedKeys \cap RemainKeys = {}
    BY MessagesAssumption
  <2>2. \A i \in LinesOf(k) : (i \in 1..f /\ s[i] = k) \/ \E j \in 1..r : i = f + j /\ t[j] = k
    <3>1. SUFFICES ASSUME NEW i \in LinesOf(k)
                   PROVE  (i \in 1..f /\ s[i] = k) \/ \E j \in 1..r : i = f + j /\ t[j] = k
      OBVIOUS
    <3>2. i \in 1..(f + r + a) /\ sent[i][1] = k
      BY <1>2 DEF LinesOf
    <3>3. CASE i \in 1..f
      BY <1>6, <3>2, <3>3
    <3>4. ASSUME NEW j \in 1..r, i = f + j PROVE t[j] = k
      BY <1>6, <3>2, <3>4
    <3>5. ASSUME NEW j \in 1..a, i = f + r + j PROVE FALSE
      BY <1>6, <2>1, <3>2, <3>5
    <3> QED BY <1>5, <3>2, <3>3, <3>4, <3>5
  <2>3. CASE k \in FixedSet
    <3>1. PICK i \in 1..f : s[i] = k
      BY <1>3, <2>3
    <3>2. LinesOf(k) = {i}
      <4>1. i \in LinesOf(k)
        BY <1>2, <1>6, <3>1 DEF LinesOf
      <4>2. \A j \in LinesOf(k) : j = i
        BY <1>3, <1>6, <2>1, <2>2, <2>3, <3>1 DEF FixedSet
      <4> QED BY <4>1, <4>2
    <3>3. wanted[k] # NoHeaders[k]
      BY <1>2, <2>3 DEF FixedSet, NoHeaders
    <3> QED BY <3>2, <3>3, FS_Singleton
  <2>4. CASE k \in RemainSet
    <3>1. PICK i \in 1..r : t[i] = k
      BY <1>4, <2>4
    <3>2. LinesOf(k) = {f + i}
      <4>1. f + i \in LinesOf(k)
        BY <1>2, <1>6, <3>1 DEF LinesOf
      <4>2. ASSUME NEW j \in LinesOf(k) PROVE j = f + i
        <5>1. k \notin FixedKeys
          BY <2>1, <2>4 DEF RemainSet
        <5>2. PICK m \in 1..r : j = f + m /\ t[m] = k
          BY <1>6, <2>2, <5>1
        <5>3. m = i
          BY <1>4, <3>1, <5>2
        <5> QED BY <5>2, <5>3
      <4> QED BY <4>1, <4>2
    <3>3. wanted[k] # NoHeaders[k]
      BY <1>2, <2>1, <2>4 DEF RemainSet, NoHeaders
    <3> QED BY <3>2, <3>3, FS_Singleton
  <2>5. CASE k \notin FixedSet /\ k \notin RemainSet
    <3>1. LinesOf(k) = {}
      BY <1>3, <1>4, <2>2, <2>5
    <3>2. wanted[k] = NoHeaders[k]
      BY <1>2, <2>1, <2>5 DEF FixedSet, RemainSet, NoHeaders
    <3> QED BY <3>1, <3>2, FS_EmptySet
  <2> QED BY <2>3, <2>4, <2>5
<1>8. ASSUME NEW i \in DOMAIN sent \ LinesOf("Set-Cookie")
      PROVE  sent[i][1] \in FixedKeys \cup RemainKeys /\ sent[i][2] = wanted[sent[i][1]]
  <2>1. i \in 1..(f + r + a) /\ sent[i][1] # "Set-Cookie"
    BY <1>2, <1>8 DEF LinesOf
  <2>2. CASE i \in 1..f
    BY <1>6, <2>2
  <2>3. ASSUME NEW j \in 1..r, i = f + j
        PROVE  sent[i][1] \in RemainKeys /\ sent[i][2] = wanted[sent[i][1]]
    <3>1. sent[f + j][1] = t[j] /\ sent[f + j][2] = wanted[t[j]] /\ t[j] \in RemainKeys
      BY <1>6
    <3> QED BY <2>3, <3>1
  <2>4. ASSUME NEW j \in 1..a, i = f + r + j PROVE FALSE
    BY <1>6, <2>1, <2>4
  <2> QED BY <1>5, <2>1, <2>2, <2>3, <2>4
<1>9. LinesOf("Set-Cookie") = (f + r + 1)..(f + r + a)
  <2>1. ASSUME NEW i \in LinesOf("Set-Cookie") PROVE i \in (f + r + 1)..(f + r + a)
    <3>1. i \in 1..(f + r + a) /\ sent[i][1] = "Set-Cookie"
      BY <1>2, <2>1 DEF LinesOf
    <3>2. \E j \in 1..a : i = f + r + j
      <4>1. "Set-Cookie" \notin FixedKeys /\ "Set-Cookie" \notin RemainKeys
        BY MessagesAssumption
      <4>2. i \notin 1..f
        BY <1>6, <3>1, <4>1
      <4>3. ASSUME NEW j \in 1..r, i = f + j PROVE FALSE
        <5>1. sent[f + j][1] = t[j] /\ t[j] \in RemainKeys
          BY <1>6
        <5> QED BY <3>1, <4>1, <4>3, <5>1
      <4> QED BY <1>5, <3>1, <4>2, <4>3
    <3> QED BY <3>2
  <2>2. ASSUME NEW i \in (f + r + 1)..(f + r + a) PROVE i \in LinesOf("Set-Cookie")
    <3>1. PICK j : j = i - (f + r)
      OBVIOUS
    <3>2. j \in 1..a /\ i = f + r + j
      BY <3>1
    <3> QED BY <1>2, <1>6, <3>2 DEF LinesOf
  <2> QED BY <2>1, <2>2
<1>10. Cardinality(LinesOf("Set-Cookie")) = Len(additionHeaders)
  <2>1. Cardinality((f + r + 1)..(f + r + a)) = a
    <3>1. f + r + 1 \in Int /\ f + r + a \in Int
      OBVIOUS
    <3> QED BY <3>1, FS_Interval
  <2> QED BY <1>1, <1>9, <2>1
<1>11. ASSUME NEW i \in LinesOf("Set-Cookie")
       PROVE  sent[i][2] = <<exchange, Cardinality({ j \in LinesOf("Set-Cookie") : j <= i })>>
  <2>1. PICK m : m = i - (f + r)
    OBVIOUS
  <2>2. m \in 1..a /\ i = f + r + m
    BY <1>9, <2>1
  <2>3. { j \in LinesOf("Set-Cookie") : j <= i } = (f + r + 1)..(f + r + m)
    BY <1>9, <2>2
  <2>4. Cardinality((f + r + 1)..(f + r + m)) = m
    <3>1. f + r + 1 \in Int /\ f + r + m \in Int /\ m \in Int
      BY <2>2
    <3> QED BY <2>2, <3>1, FS_Interval
  <2>5. sent[f + r + m][2] = <<exchange, m>>
    BY <1>6, <2>2
  <2> QED BY <2>2, <2>3, <2>4, <2>5
<1> QED BY <1>7, <1>8, <1>10, <1>11

\* Every operation keeps what was set and what was added.
LEMMA HeadersStep ==
  ASSUME HeadersInv, exchange \in Nat, [MessagesNext]_messageVars
  PROVE  HeadersInv' /\ exchange' \in Nat
<1>1. ASSUME UNCHANGED <<exchange, headers, additionHeaders, wanted>>, sent' = sent \/ sent' = Lines
      PROVE  HeadersInv' /\ exchange' \in Nat
  <2>1. Lines' = Lines
    BY <1>1 DEF Lines
  <2> QED BY <1>1, <2>1 DEF HeadersInv
<1>2. ASSUME NEW string, SetUrl(string) \/ SetCookieHeader(string)
      PROVE  HeadersInv' /\ exchange' \in Nat
  BY <1>1, <1>2 DEF SetUrl, SetCookieHeader, responseVars
<1>3. CASE GetUri \/ GetCookies
  BY <1>1, <1>3 DEF GetUri, GetCookies, responseVars
<1>4. ASSUME NEW k, NEW value, headers' = [headers EXCEPT ![k] = value],
             wanted' = [wanted EXCEPT ![k] = value], sent' = <<>>,
             UNCHANGED <<exchange, additionHeaders>>
      PROVE  HeadersInv' /\ exchange' \in Nat
  BY <1>4 DEF HeadersInv
<1>5. ASSUME NEW k, NEW value, SetHeader(k, value) PROVE HeadersInv' /\ exchange' \in Nat
  BY <1>4, <1>5 DEF SetHeader
<1>6. ASSUME NEW k, RemoveHeader(k) \/ RedirectTo(k) PROVE HeadersInv' /\ exchange' \in Nat
  BY <1>4, <1>6 DEF RemoveHeader, RedirectTo
<1>7. CASE SetCookie
  <2>1. PICK old, new : old = additionHeaders /\ new = additionHeaders'
    OBVIOUS
  <2>2. /\ old \in Seq({exchange} \X Nat) /\ new = Append(old, <<exchange, Len(old) + 1>>)
        /\ \A i \in DOMAIN old : old[i] = <<exchange, i>>
    BY <1>7, <2>1 DEF SetCookie, HeadersInv
  <2>3. <<exchange, Len(old) + 1>> \in {exchange} \X Nat
    BY <2>2
  <2>4. new \in Seq({exchange} \X Nat) /\ \A i \in DOMAIN new : new[i] = <<exchange, i>>
    BY <2>2, <2>3
  <2> QED BY <1>7, <2>1, <2>4 DEF SetCookie, HeadersInv
<1>8. CASE SendHeaders
  BY <1>1, <1>8 DEF SendHeaders, responseVars
<1>9. CASE NextExchange
  BY <1>9 DEF NextExchange, ClearResponse, HeadersInv, NoHeaders
<1>10. CASE UNCHANGED messageVars
  BY <1>1, <1>10 DEF messageVars
<1> QED BY <1>2, <1>3, <1>5, <1>6, <1>7, <1>8, <1>9, <1>10 DEF MessagesNext

\* The headers that are written are those of this exchange, however often the response
\* was used before: for all keys and any number of exchanges and cookies.
THEOREM HeadersAreOwn == MessagesSpec => []OwnHeadersSent
<1>1. MessagesInit => HeadersInv /\ exchange \in Nat
  BY DEF MessagesInit, HeadersInv, NoHeaders
<1>2. HeadersInv /\ exchange \in Nat /\ [MessagesNext]_messageVars => (HeadersInv /\ exchange \in Nat)'
  BY HeadersStep
<1>3. HeadersInv => OwnHeadersSent
  BY LinesOwn
<1> QED BY <1>1, <1>2, <1>3, PTL DEF MessagesSpec

-----------------------------------------------------------------------------
(* Packet.tla *)

\* A string has a fragment that its own deleter covers.
LEMMA FragmentCovered ==
  ASSUME NEW chunk \in Chunks
  PROVE  /\ Fragment(chunk) \in AnyFragment
         /\ Fragment(chunk).chunk \in StaticChunks \cup Deleter(chunk)
         /\ Deleter(chunk) \in SUBSET Chunks
BY DEF Fragment, AnyFragment, Deleter

\* What one fragment needs
LEMMA OneOwned ==
  ASSUME NEW f, NEW deleter, f.size = 0 \/ f.chunk \in StaticChunks \cup deleter
  PROVE  Owned(<<f>>, deleter)
BY DEF Owned

\* Nothing has to be owned.
LEMMA NoneOwned == ASSUME NEW deleter PROVE Owned(<<>>, deleter)
BY DEF Owned

\* Fragments put one after the other are covered by both deleters.
LEMMA BothOwned ==
  ASSUME NEW a \in Seq(AnyFragment), NEW b \in Seq(AnyFragment), NEW d, NEW e,
         Owned(a, d), Owned(b, e)
  PROVE  a \o b \in Seq(AnyFragment) /\ Owned(a \o b, d \cup e)
<1>1. PICK c : c = a \o b
  OBVIOUS
<1>2. /\ c \in Seq(AnyFragment) /\ Len(c) = Len(a) + Len(b)
      /\ \A j \in 1..Len(a) + Len(b) : c[j] = IF j <= Len(a) THEN a[j] ELSE b[j - Len(a)]
  BY <1>1, ConcatProperties, Zenon
<1>3. DOMAIN a = 1..Len(a) /\ DOMAIN b = 1..Len(b) /\ DOMAIN c = 1..Len(a) + Len(b)
      /\ Len(a) \in Nat /\ Len(b) \in Nat
  BY <1>2
<1>4. ASSUME NEW j \in DOMAIN c
      PROVE  (\E i \in DOMAIN a : c[j] = a[i]) \/ (\E i \in DOMAIN b : c[j] = b[i])
  <2>1. j \in Nat /\ 1 <= j /\ j <= Len(a) + Len(b)
    BY <1>3
  <2>2. CASE j <= Len(a)
    <3>1. j \in DOMAIN a /\ c[j] = a[j]
      BY <1>2, <1>3, <2>1, <2>2
    <3> QED BY <3>1
  <2>3. CASE ~(j <= Len(a))
    <3>1. j - Len(a) \in DOMAIN b /\ c[j] = b[j - Len(a)]
      BY <1>2, <1>3, <2>1, <2>3
    <3> QED BY <3>1
  <2> QED BY <2>2, <2>3
<1>5. Owned(c, d \cup e)
  BY <1>4 DEF Owned
<1> QED BY <1>1, <1>2, <1>5

\* A fragment more, and the deleter that covers it
LEMMA OneMoreOwned ==
  ASSUME NEW a \in Seq(AnyFragment), NEW d, NEW f \in AnyFragment, NEW e,
         Owned(a, d), f.chunk \in StaticChunks \cup e
  PROVE  Append(a, f) \in Seq(AnyFragment) /\ Owned(Append(a, f), d \cup e)
<1>1. PICK c : c = Append(a, f)
  OBVIOUS
<1>2. c \in Seq(AnyFragment) /\ Len(c) = Len(a) + 1 /\ DOMAIN c = 1..Len(a) + 1
      /\ c[Len(a) + 1] = f /\ \A j \in 1..Len(a) : c[j] = a[j]
  BY <1>1
<1>3. \A j \in DOMAIN c : c[j] = f \/ \E i \in DOMAIN a : c[j] = a[i]
  BY <1>2
<1> QED BY <1>1, <1>2, <1>3 DEF Owned

\* A packet of one fragment
LEMMA SingleCovered ==
  ASSUME NEW f \in AnyFragment, NEW d \in SUBSET Chunks,
         f.size = 0 \/ f.chunk \in StaticChunks \cup d
  PROVE  Covered(Single(f, d))
<1>1. Owned(<<f>>, d)
  BY OneOwned
<1> QED BY <1>1 DEF Covered, Single, AnyPacket, AnyFragment

\* ... and one of several
LEMMA MultipleCovered ==
  ASSUME NEW a \in Seq(AnyFragment), NEW d \in SUBSET Chunks, Owned(a, d)
  PROVE  Covered(Multiple(a, d))
BY DEF Covered, Multiple, AnyPacket, AnyFragment, IsSingle

\* What is left of a packet that was moved from or sent, and a new one
LEMMA EmptyCovered ==
  /\ Covered(FragmentTaken) /\ Covered(EmptyPacket)
  /\ Covered(Valueless) /\ Covered(Multiple(<<>>, {}))
<1>1. NoFragment \in AnyFragment /\ NoFragment.size = 0 /\ {} \in SUBSET Chunks
  BY DEF NoFragment, AnyFragment
<1>2. Covered(FragmentTaken) /\ Covered(EmptyPacket)
  BY <1>1, SingleCovered DEF FragmentTaken, EmptyPacket
<1>3. Owned(<<>>, {}) /\ <<>> \in Seq(AnyFragment)
  BY NoneOwned
<1>4. Covered(Multiple(<<>>, {}))
  BY <1>1, <1>3, MultipleCovered
<1>5. Covered(Valueless)
  BY <1>1, <1>3 DEF Covered, Valueless, AnyPacket, AnyFragment, IsSingle
<1> QED BY <1>2, <1>4, <1>5

\* The parts of a packet, with their types
LEMMA Parts ==
  ASSUME NEW pkt, Covered(pkt)
  PROVE  /\ pkt.fragments \in Seq(AnyFragment) /\ pkt.deleter \in SUBSET Chunks
         /\ Owned(pkt.fragments, pkt.deleter) /\ pkt.kind \in {"single", "multiple", "valueless"}
BY DEF Covered, AnyPacket, AnyFragment

\* append(SharedString&&)
LEMMA AppendStringCovers ==
  ASSUME NEW pkt, Covered(pkt), NEW chunk \in Chunks PROVE Covered(AppendString(pkt, chunk))
<1>1. PICK f \in AnyFragment : f = Fragment(chunk)
  BY FragmentCovered
<1>2. PICK e \in SUBSET Chunks : e = Deleter(chunk)
  BY FragmentCovered
<1>3. f.chunk \in StaticChunks \cup e
  BY <1>1, <1>2, FragmentCovered
<1>4. Covered(Single(f, e))
  BY <1>3, SingleCovered
<1>5. Covered(Multiple(Append(pkt.fragments, f), pkt.deleter \cup e))
  <2>1. PICK a : a = pkt.fragments
    OBVIOUS
  <2>2. PICK d : d = pkt.deleter
    OBVIOUS
  <2>3. a \in Seq(AnyFragment) /\ d \in SUBSET Chunks /\ Owned(a, d)
    BY <2>1, <2>2, Parts
  <2>4. Append(a, f) \in Seq(AnyFragment) /\ Owned(Append(a, f), d \cup e)
    BY <1>3, <2>3, OneMoreOwned
  <2>5. d \cup e \in SUBSET Chunks
    BY <2>3
  <2>6. Covered(Multiple(Append(a, f), d \cup e))
    BY <2>4, <2>5, MultipleCovered
  <2> QED BY <2>1, <2>2, <2>6
<1> QED BY <1>1, <1>2, <1>4, <1>5 DEF AppendString

\* append(Packet&&): what both packets had is covered afterwards.
LEMMA AppendPacketCovers ==
  ASSUME NEW this, NEW other, Covered(this), Covered(other)
  PROVE  Covered(AppendPacket(this, other).this) /\ Covered(AppendPacket(this, other).other)
<1>1. PICK a : a = this.fragments
  OBVIOUS
<1>2. PICK b : b = other.fragments
  OBVIOUS
<1>3. PICK d : d = this.deleter
  OBVIOUS
<1>4. PICK e : e = other.deleter
  OBVIOUS
<1>5. /\ a \in Seq(AnyFragment) /\ d \in SUBSET Chunks /\ Owned(a, d)
      /\ b \in Seq(AnyFragment) /\ e \in SUBSET Chunks /\ Owned(b, e)
      /\ other.kind \in {"single", "multiple", "valueless"}
  BY <1>1, <1>2, <1>3, <1>4, Parts
<1>6. d \cup e \in SUBSET Chunks /\ e \cup d = d \cup e
  BY <1>5
<1>7. Covered(Multiple(a \o b, d \cup e))
  <2>1. a \o b \in Seq(AnyFragment) /\ Owned(a \o b, d \cup e)
    BY <1>5, BothOwned
  <2> QED BY <1>6, <2>1, MultipleCovered
<1>8. Covered(MovedFrom(other))
  BY EmptyCovered DEF MovedFrom
<1>9. Covered(MultipleToSingle(this, other).this) /\ Covered(MultipleToSingle(this, other).other)
  BY <1>1, <1>2, <1>3, <1>4, <1>6, <1>7, EmptyCovered DEF MultipleToSingle
<1>10. Covered(Multiple(this.fragments \o other.fragments, this.deleter \cup other.deleter))
  BY <1>1, <1>2, <1>3, <1>4, <1>7
<1> QED BY <1>8, <1>9, <1>10, EmptyCovered DEF AppendPacket

\* getOrConvertToMultiple()
LEMMA ConvertCovers == ASSUME NEW pkt, Covered(pkt) PROVE Covered(GetOrConvertToMultiple(pkt))
<1>1. Covered(Multiple(pkt.fragments, pkt.deleter))
  <2>1. PICK a : a = pkt.fragments
    OBVIOUS
  <2>2. PICK d : d = pkt.deleter
    OBVIOUS
  <2>3. a \in Seq(AnyFragment) /\ d \in SUBSET Chunks /\ Owned(a, d)
    BY <2>1, <2>2, Parts
  <2> QED BY <2>1, <2>2, <2>3, MultipleCovered
<1> QED BY <1>1, EmptyCovered DEF GetOrConvertToMultiple

\* What is made of a packet, while the string or the buffer is used
GivenSound(g) == g.copied \/ Owned(g.fragments, g.deleter)

\* What segment() and toString() give out of a packet is covered, or a copy.
LEMMA GivenCovers ==
  /\ GivenSound(NothingGiven)
  /\ \A pkt, held : Covered(pkt) => GivenSound(Given(pkt.fragments, pkt.deleter, FALSE, held))
                              /\ GivenSound(StringOf(pkt, held))
BY DEF GivenSound, NothingGiven, Given, Covered, StringOf

\* When the packets and the stream are covered, and what was made of one, all is.
LEMMA PacketKeeps ==
  ASSUME PacketInv, packet' \in [PacketNames -> AnyPacket], \A n \in PacketNames : Covered(packet'[n]),
         UNCHANGED inputStream, GivenSound(givenOut')
  PROVE  PacketInv'
BY DEF PacketInv, GivenSound

\* One packet is replaced ...
LEMMA OnePacketKeeps ==
  ASSUME PacketInv, NEW n \in PacketNames, NEW pkt, Covered(pkt), packet' = [packet EXCEPT ![n] = pkt]
  PROVE  packet' \in [PacketNames -> AnyPacket] /\ \A m \in PacketNames : Covered(packet'[m])
BY DEF PacketInv, Covered

\* ... or two are, of which the second may be the first.
LEMMA TwoPacketsKeep ==
  ASSUME PacketInv, NEW n \in PacketNames, NEW m \in PacketNames, NEW pkt, NEW q,
         Covered(pkt), Covered(q), packet' = [packet EXCEPT ![n] = pkt, ![m] = q]
  PROVE  packet' \in [PacketNames -> AnyPacket] /\ \A o \in PacketNames : Covered(packet'[o])
BY DEF PacketInv, Covered

\* PacketInputStream::read(): the packet stays where it is, and one fragment of
\* it is read.
LEMMA ReadKeeps == ASSUME PacketInv, ReadInputStream PROVE PacketInv'
<1>1. PICK pkt : pkt = inputStream.packet
  OBVIOUS
<1>2. PICK next : next = IF IsMultiple(pkt) THEN FirstFilled(pkt.fragments, inputStream.index)
                         ELSE IF IsSingle(pkt) /\ inputStream.index = 0 THEN {1} ELSE {}
  OBVIOUS
<1>3. /\ packet' = packet
      /\ \/ /\ next = {} /\ givenOut' = NothingGiven
            /\ inputStream' = [inputStream EXCEPT !.isEnd = TRUE, !.index = Len(pkt.fragments)]
         \/ /\ next # {}
            /\ \E bytes, i : /\ i = CHOOSE j \in next : TRUE
                             /\ inputStream' = [inputStream EXCEPT !.index = i, !.read = @ \o bytes,
                                                     !.isEnd = (i >= Len(pkt.fragments))]
                             /\ givenOut' = Given(<<pkt.fragments[i]>>, pkt.deleter, FALSE, bytes)
  BY <1>1, <1>2, ZenonT(30) DEF ReadInputStream
<1>4. /\ Covered(pkt) /\ DOMAIN inputStream = {"packet", "index", "read", "isEnd", "contents"}
      /\ pkt.fragments \in Seq(AnyFragment) /\ Len(pkt.fragments) \in Nat
      /\ DOMAIN pkt.fragments = 1..Len(pkt.fragments)
  <2>1. Covered(pkt)
    BY <1>1 DEF PacketInv
  <2>2. PICK a : a = pkt.fragments
    OBVIOUS
  <2>3. a \in Seq(AnyFragment)
    BY <2>1, <2>2, Parts
  <2>4. Len(a) \in Nat /\ DOMAIN a = 1..Len(a)
    BY <2>3
  <2> QED BY <2>1, <2>2, <2>3, <2>4 DEF PacketInv
<1>5. CASE next = {}
  <2>1. inputStream' = [inputStream EXCEPT !.isEnd = TRUE, !.index = Len(pkt.fragments)]
    BY <1>3, <1>5
  <2>2. /\ inputStream'.packet = pkt /\ inputStream'.index = Len(pkt.fragments)
        /\ DOMAIN inputStream' = {"packet", "index", "read", "isEnd", "contents"}
    BY <1>1, <1>4, <2>1
  <2>3. GivenSound(givenOut')
    BY <1>3, <1>5, GivenCovers
  <2> QED BY <1>3, <1>4, <2>2, <2>3 DEF PacketInv, GivenSound
<1>6. CASE next # {}
  <2>1. PICK bytes, i : /\ i = CHOOSE j \in next : TRUE
                        /\ inputStream' = [inputStream EXCEPT !.index = i, !.read = @ \o bytes,
                                                !.isEnd = (i >= Len(pkt.fragments))]
                        /\ givenOut' = Given(<<pkt.fragments[i]>>, pkt.deleter, FALSE, bytes)
    BY <1>3, <1>6
  <2>2. i \in next
    BY <1>6, <2>1
  <2>3. i \in DOMAIN pkt.fragments /\ i \in Nat
    BY <1>2, <1>4, <2>2 DEF FirstFilled, Covered
  <2>4. /\ inputStream'.packet = pkt /\ inputStream'.index = i
        /\ DOMAIN inputStream' = {"packet", "index", "read", "isEnd", "contents"}
    BY <1>1, <1>4, <2>1
  <2>5. GivenSound(givenOut')
    <3>1. PICK f : f = pkt.fragments[i]
      OBVIOUS
    <3>2. f.size = 0 \/ f.chunk \in StaticChunks \cup pkt.deleter
      BY <1>4, <2>3, <3>1 DEF Covered, Owned
    <3>3. Owned(<<f>>, pkt.deleter)
      BY <3>2, OneOwned
    <3> QED BY <2>1, <3>1, <3>3 DEF GivenSound, Given
  <2> QED BY <1>3, <1>4, <2>3, <2>4, <2>5 DEF PacketInv, GivenSound
<1> QED BY <1>5, <1>6

\* Two empty packets, and no stream
LEMMA PacketStart == PacketInit => PacketInv
BY EmptyCovered, GivenCovers DEF PacketInit, PacketInv, GivenSound, Covered

\* Every operation of a packet keeps what it has covered.
LEMMA PacketStep == PacketInv /\ [PacketNext]_packetVars => PacketInv'
<1> SUFFICES ASSUME PacketInv, [PacketNext]_packetVars PROVE PacketInv'
  OBVIOUS
<1>1. \A n \in PacketNames : Covered(packet[n]) /\ packet \in [PacketNames -> AnyPacket]
  BY DEF PacketInv
<1>2. ASSUME NEW n \in PacketNames, NEW chunk \in Chunks, PutString(n, chunk) PROVE PacketInv'
  <2>1. packet' = [packet EXCEPT ![n] = AppendString(packet[n], chunk)]
    BY <1>2 DEF PutString
  <2>2. Covered(AppendString(packet[n], chunk))
    BY <1>1, AppendStringCovers
  <2>3. GivenSound(givenOut') /\ UNCHANGED inputStream
    BY <1>2, GivenCovers DEF PutString
  <2> QED BY <2>1, <2>2, <2>3, OnePacketKeeps, PacketKeeps
<1>3. ASSUME NEW n \in PacketNames, NEW m \in PacketNames, PutPacket(n, m) PROVE PacketInv'
  <2>1. PICK after : after = AppendPacket(packet[n], packet[m])
    OBVIOUS
  <2>2. packet' = [packet EXCEPT ![n] = after.this, ![m] = after.other]
    BY <1>3, <2>1 DEF PutPacket
  <2>3. Covered(after.this) /\ Covered(after.other)
    BY <1>1, <2>1, AppendPacketCovers
  <2>4. GivenSound(givenOut') /\ UNCHANGED inputStream
    BY <1>3, GivenCovers DEF PutPacket
  <2> QED BY <2>2, <2>3, <2>4, TwoPacketsKeep, PacketKeeps
<1>4. ASSUME NEW n \in PacketNames, NEW m \in PacketNames, MovePacket(n, m) PROVE PacketInv'
  <2>1. packet' = [packet EXCEPT ![n] = packet[m], ![m] = MovedFrom(packet[m])]
    BY <1>4 DEF MovePacket
  <2>2. Covered(packet[m]) /\ Covered(MovedFrom(packet[m]))
    BY <1>1, EmptyCovered DEF MovedFrom
  <2>3. GivenSound(givenOut') /\ UNCHANGED inputStream
    BY <1>4, GivenCovers DEF MovePacket
  <2> QED BY <2>1, <2>2, <2>3, TwoPacketsKeep, PacketKeeps
<1>5. ASSUME NEW n \in PacketNames, ConvertPacket(n) PROVE PacketInv'
  <2>1. packet' = [packet EXCEPT ![n] = GetOrConvertToMultiple(packet[n])]
    BY <1>5 DEF ConvertPacket
  <2>2. Covered(GetOrConvertToMultiple(packet[n]))
    BY <1>1, ConvertCovers
  <2>3. GivenSound(givenOut') /\ UNCHANGED inputStream
    BY <1>5, GivenCovers DEF ConvertPacket
  <2> QED BY <2>1, <2>2, <2>3, OnePacketKeeps, PacketKeeps
<1>6. ASSUME NEW n \in PacketNames, MakeString(n) PROVE PacketInv'
  <2>1. GivenSound(givenOut') /\ UNCHANGED <<packet, inputStream>>
    BY <1>1, <1>6, GivenCovers DEF MakeString
  <2> QED BY <1>1, <2>1, PacketKeeps
<1>7. ASSUME NEW n \in PacketNames, SendPacket(n) PROVE PacketInv'
  <2>1. packet' = [packet EXCEPT ![n] = Released(packet[n])]
    BY <1>7 DEF SendPacket
  <2>2. Covered(Released(packet[n]))
    BY <1>1, EmptyCovered DEF Released
  <2>3. GivenSound(givenOut') /\ UNCHANGED inputStream
    BY <1>1, <1>7, GivenCovers DEF SendPacket
  <2> QED BY <2>1, <2>2, <2>3, OnePacketKeeps, PacketKeeps
<1>8. ASSUME NEW n \in PacketNames, OpenInputStream(n) PROVE PacketInv'
  <2>1. packet' = [packet EXCEPT ![n] = MovedFrom(packet[n])]
    BY <1>8 DEF OpenInputStream
  <2>2. Covered(MovedFrom(packet[n]))
    BY <1>1, EmptyCovered DEF MovedFrom
  <2>3. packet' \in [PacketNames -> AnyPacket] /\ \A m \in PacketNames : Covered(packet'[m])
    BY <2>1, <2>2, OnePacketKeeps
  <2>4. GivenSound(givenOut')
    BY <1>8, GivenCovers DEF OpenInputStream
  <2>5. /\ inputStream'.packet = packet[n] /\ inputStream'.index = 0
        /\ DOMAIN inputStream' = {"packet", "index", "read", "isEnd", "contents"}
    BY <1>8 DEF OpenInputStream
  <2> QED BY <1>1, <2>3, <2>4, <2>5 DEF PacketInv, GivenSound
<1>9. CASE ReadInputStream
  BY <1>9, ReadKeeps
<1>10. CASE UNCHANGED packetVars
  BY <1>10 DEF packetVars, PacketInv
<1> QED BY <1>2, <1>3, <1>4, <1>5, <1>6, <1>7, <1>8, <1>9, <1>10 DEF PacketNext

\* In every state, every fragment that is not empty is static or has a deleter
\* in the packet it is in: after append(), a move, a conversion or a send.
THEOREM PacketInvariant == PacketSpec => []PacketInv
BY PacketStart, PacketStep, PTL DEF PacketSpec

\* The bytes of a packet, of a stream and of what was made of them are not freed
\* while they can be read: for any number of packets and of fragments.
THEOREM PacketsOwn == PacketSpec => []NoDangling
<1>1. PacketInv => NoDangling
  BY DEF PacketInv, NoDangling, Covered
<1> QED BY <1>1, PacketInvariant, PTL

-----------------------------------------------------------------------------
(* The bytes of packets *)

\* Fragments without bytes are those of no chunk.
LEMMA NonePlaced ==
  ASSUME NEW a, \A f \in DOMAIN a : a[f].size = 0
  PROVE  BytesAre(a, <<>>)
<1>1. PICK place : place = [i \in 1..0 |-> 0]
  OBVIOUS
<1>2. place \in [1..0 -> DOMAIN a] /\ Len(<<>>) = 0 /\ 1..0 = {}
  BY <1>1
<1>3. Placed(place, a, <<>>)
  BY <1>2 DEF Placed
<1> QED BY <1>2, <1>3 DEF BytesAre

\* One fragment, with or without bytes
LEMMA OnePlaced ==
  ASSUME NEW f \in AnyFragment PROVE BytesAre(<<f>>, BytesOf(f))
<1>1. CASE f.size = 0
  BY <1>1, NonePlaced DEF BytesOf
<1>2. CASE f.size # 0
  <2>1. PICK place : place = [i \in 1..1 |-> 1]
    OBVIOUS
  <2>2. place \in [1..1 -> DOMAIN <<f>>] /\ BytesOf(f) = <<f.chunk>> /\ Len(<<f.chunk>>) = 1
    BY <1>2, <2>1 DEF BytesOf
  <2>3. Placed(place, <<f>>, <<f.chunk>>)
    BY <1>2, <2>1 DEF Placed
  <2> QED BY <2>2, <2>3 DEF BytesAre
<1> QED BY <1>1, <1>2

\* A single fragment without bytes has no chunk's.
LEMMA NoneHeld ==
  ASSUME NEW a \in Seq(AnyFragment), NEW c \in Seq(Chunks), BytesAre(a, c),
         \A f \in DOMAIN a : a[f].size = 0
  PROVE  c = <<>>
<1>1. PICK place \in [1..Len(c) -> DOMAIN a] : Placed(place, a, c)
  BY DEF BytesAre
<1>2. Len(c) \in Nat
  OBVIOUS
<1>3. ASSUME Len(c) # 0 PROVE FALSE
  <2>1. 1 \in 1..Len(c)
    BY <1>2, <1>3
  <2>2. place[1] \in DOMAIN a /\ a[place[1]].size # 0
    BY <1>1, <2>1 DEF Placed
  <2> QED BY <2>2
<1> QED BY <1>3

\* Two lists of fragments, one after the other: the places of the second move up.
LEMMA PlacesJoin ==
  ASSUME NEW a \in Seq(AnyFragment), NEW b \in Seq(AnyFragment),
         NEW c \in Seq(Chunks), NEW d \in Seq(Chunks), BytesAre(a, c), BytesAre(b, d)
  PROVE  BytesAre(a \o b, c \o d)
<1>1. PICK pkt \in [1..Len(c) -> DOMAIN a] : Placed(pkt, a, c)
  BY DEF BytesAre
<1>2. PICK q \in [1..Len(d) -> DOMAIN b] : Placed(q, b, d)
  BY DEF BytesAre
<1>3. PICK ab, cd, m, n, k, l : ab = a \o b /\ cd = c \o d /\ m = Len(a) /\ n = Len(b)
                             /\ k = Len(c) /\ l = Len(d)
  OBVIOUS
<1>4. /\ m \in Nat /\ n \in Nat /\ k \in Nat /\ l \in Nat
      /\ DOMAIN a = 1..m /\ DOMAIN b = 1..n
  BY <1>3
<1>5. /\ DOMAIN ab = 1..m + n
      /\ \A j \in 1..m : ab[j] = a[j]
      /\ \A j \in 1..n : ab[m + j] = b[j]
  BY <1>3, <1>4
<1>6. /\ Len(cd) = k + l
      /\ \A j \in 1..k : cd[j] = c[j]
      /\ \A j \in 1..l : cd[k + j] = d[j]
  BY <1>3, <1>4
<1>7. PICK r : r = [i \in 1..(k + l) |-> IF i <= k THEN pkt[i] ELSE m + q[i - k]]
  OBVIOUS
<1>8. /\ \A i \in 1..k : r[i] = pkt[i] /\ pkt[i] \in 1..m
      /\ \A i \in 1..l : r[k + i] = m + q[i] /\ q[i] \in 1..n
  <2>1. \A i \in 1..k : pkt[i] \in 1..m
    BY <1>1, <1>3, <1>4
  <2>2. \A i \in 1..l : q[i] \in 1..n
    BY <1>2, <1>3, <1>4
  <2>3. \A i \in 1..k : r[i] = pkt[i]
    BY <1>4, <1>7
  <2>4. \A i \in 1..l : r[k + i] = m + q[i]
    BY <1>4, <1>7
  <2> QED BY <2>1, <2>2, <2>3, <2>4
<1>9. \A i \in 1..(k + l) : i \in 1..k \/ \E j \in 1..l : i = k + j
  <2>1. ASSUME NEW i \in 1..(k + l), i \notin 1..k PROVE \E j \in 1..l : i = k + j
    <3>1. i - k \in 1..l /\ i = k + (i - k)
      BY <1>4, <2>1
    <3> QED BY <3>1
  <2> QED BY <2>1
<1>10. r \in [1..(k + l) -> 1..(m + n)]
  <2>1. ASSUME NEW i \in 1..(k + l) PROVE r[i] \in 1..(m + n)
    <3>1. CASE i \in 1..k
      BY <1>4, <1>8, <3>1
    <3>2. CASE i \notin 1..k
      <4>1. PICK j \in 1..l : i = k + j
        BY <1>9, <3>2
      <4>2. r[i] = m + q[j] /\ q[j] \in 1..n
        BY <1>8, <4>1
      <4> QED BY <1>4, <4>2
    <3> QED BY <3>1, <3>2
  <2> QED BY <1>7, <2>1
<1>11. ASSUME NEW i \in 1..(k + l), NEW j \in 1..(k + l), i < j PROVE r[i] < r[j]
  <2>1. CASE i \in 1..k /\ j \in 1..k
    BY <1>1, <1>3, <1>8, <1>11, <2>1 DEF Placed
  <2>2. CASE i \in 1..k /\ j \notin 1..k
    <3>1. PICK y \in 1..l : j = k + y
      BY <1>9, <2>2
    <3>2. r[i] \in 1..m /\ r[j] = m + q[y] /\ q[y] \in 1..n
      BY <1>8, <2>2, <3>1
    <3> QED BY <1>4, <3>2
  <2>3. CASE i \notin 1..k
    <3>1. PICK x \in 1..l, y \in 1..l : i = k + x /\ j = k + y
      BY <1>4, <1>9, <1>11, <2>3
    <3>2. q[x] < q[y]
      BY <1>2, <1>3, <1>4, <1>11, <3>1 DEF Placed
    <3> QED BY <1>4, <1>8, <3>1, <3>2, SMTT(30)
  <2> QED BY <2>1, <2>2, <2>3
<1>12. ASSUME NEW i \in 1..(k + l) PROVE ab[r[i]].size # 0 /\ ab[r[i]].chunk = cd[i]
  <2>1. CASE i \in 1..k
    BY <1>1, <1>3, <1>5, <1>6, <1>8, <2>1 DEF Placed
  <2>2. CASE i \notin 1..k
    <3>1. PICK x \in 1..l : i = k + x
      BY <1>9, <2>2
    <3>2. ab[r[i]] = b[q[x]] /\ cd[i] = d[x]
      BY <1>5, <1>6, <1>8, <3>1
    <3> QED BY <1>2, <1>3, <3>2 DEF Placed
  <2> QED BY <2>1, <2>2
<1>13. ASSUME NEW f \in 1..(m + n), ab[f].size # 0 PROVE \E i \in 1..(k + l) : r[i] = f
  <2>1. CASE f <= m
    <3>1. f \in DOMAIN a /\ a[f].size # 0
      BY <1>4, <1>5, <1>13, <2>1
    <3>2. PICK i \in 1..k : pkt[i] = f
      BY <1>1, <1>3, <3>1 DEF Placed
    <3>3. i \in 1..(k + l) /\ r[i] = f
      BY <1>4, <1>8, <3>2
    <3> QED BY <3>3
  <2>2. CASE ~(f <= m)
    <3>1. f - m \in DOMAIN b /\ m + (f - m) = f
      BY <1>4, <2>2
    <3>2. b[f - m].size # 0
      BY <1>4, <1>5, <1>13, <3>1
    <3>3. PICK i \in 1..l : q[i] = f - m
      BY <1>2, <1>3, <3>1, <3>2 DEF Placed
    <3>4. k + i \in 1..(k + l) /\ r[k + i] = f
      BY <1>4, <1>8, <3>1, <3>3
    <3> QED BY <3>4
  <2> QED BY <2>1, <2>2
<1>14. Placed(r, ab, cd)
  BY <1>5, <1>6, <1>11, <1>12, <1>13 DEF Placed
<1> QED BY <1>3, <1>5, <1>6, <1>10, <1>14 DEF BytesAre

\* A packet with the bytes that it should have
Keeps(pkt, c) ==
  /\ Covered(pkt) /\ c \in Seq(Chunks) /\ BytesAre(pkt.fragments, c)
  /\ Bare(pkt)

\* What is left of a packet has none.
LEMMA EmptyKeeps ==
  /\ Keeps(FragmentTaken, <<>>) /\ Keeps(EmptyPacket, <<>>)
  /\ Keeps(Valueless, <<>>) /\ Keeps(Multiple(<<>>, {}), <<>>)
<1>1. BytesAre(<<>>, <<>>)
  BY NonePlaced
<1>2. BytesAre(<<NoFragment>>, <<>>)
  <2>1. NoFragment.size = 0
    BY DEF NoFragment
  <2> QED BY <2>1, NonePlaced
<1>3. <<>> \in Seq(Chunks)
  OBVIOUS
<1> QED BY <1>1, <1>2, <1>3, EmptyCovered
        DEF Keeps, FragmentTaken, EmptyPacket, Valueless, Multiple, Single, Bare

\* A packet without a value, or of a fragment without bytes
LEMMA NothingKept ==
  ASSUME NEW pkt, NEW c, Keeps(pkt, c), ~IsMultiple(pkt), ~(IsSingle(pkt) /\ Holds(pkt))
  PROVE  c = <<>>
<1>1. PICK a : a = pkt.fragments
  OBVIOUS
<1>2. a \in Seq(AnyFragment) /\ c \in Seq(Chunks) /\ BytesAre(a, c)
  BY <1>1, Parts DEF Keeps
<1>3. \A f \in DOMAIN a : a[f].size = 0
  <2>1. CASE IsSingle(pkt)
    BY <1>1, <1>2, <2>1 DEF Keeps, Covered, Holds
  <2>2. CASE ~IsSingle(pkt)
    BY <1>1, <2>2 DEF Keeps, Bare, Covered, AnyPacket, IsSingle, IsMultiple
  <2> QED BY <2>1, <2>2
<1> QED BY <1>1, <1>2, <1>3, NoneHeld

\* append(SharedString&&)
LEMMA AppendStringKeeps ==
  ASSUME NEW pkt, NEW c, Keeps(pkt, c), NEW chunk \in Chunks
  PROVE  Keeps(AppendString(pkt, chunk), c \o BytesOf(Fragment(chunk)))
<1>1. PICK f \in AnyFragment : f = Fragment(chunk)
  BY FragmentCovered
<1>2. PICK a : a = pkt.fragments
  OBVIOUS
<1>3. a \in Seq(AnyFragment) /\ c \in Seq(Chunks) /\ BytesAre(a, c)
  BY <1>2, Parts DEF Keeps
<1>4. BytesOf(f) \in Seq(Chunks) /\ <<f>> \in Seq(AnyFragment)
  BY <1>1 DEF BytesOf, Fragment
<1>5. BytesAre(<<f>>, BytesOf(f))
  BY OnePlaced
<1>6. Covered(AppendString(pkt, chunk)) /\ c \o BytesOf(f) \in Seq(Chunks)
  BY <1>3, <1>4, AppendStringCovers DEF Keeps
<1>7. CASE IsMultiple(pkt) \/ (IsSingle(pkt) /\ Holds(pkt))
  <2>1. BytesAre(a \o <<f>>, c \o BytesOf(f)) /\ a \o <<f>> = Append(a, f)
    <3>1. a \o <<f>> = Append(a, f)
      BY <1>3
    <3>2. PICK b, d : b = <<f>> /\ d = BytesOf(f)
      OBVIOUS
    <3>3. BytesAre(a \o b, c \o d)
      BY <1>3, <1>4, <1>5, <3>2, PlacesJoin
    <3> QED BY <3>1, <3>2, <3>3
  <2>2. /\ AppendString(pkt, chunk).fragments = Append(a, f)
        /\ AppendString(pkt, chunk).kind = "multiple"
    BY <1>1, <1>2, <1>7 DEF AppendString, Multiple
  <2> QED BY <1>1, <1>6, <2>1, <2>2 DEF Keeps, Bare
<1>8. CASE ~IsMultiple(pkt) /\ ~(IsSingle(pkt) /\ Holds(pkt))
  <2>1. c \o BytesOf(f) = BytesOf(f)
    BY <1>4, <1>8, NothingKept
  <2>2. AppendString(pkt, chunk) = Single(f, Deleter(chunk))
    BY <1>1, <1>8 DEF AppendString
  <2>3. AppendString(pkt, chunk).fragments = <<f>> /\ AppendString(pkt, chunk).kind = "single"
    BY <2>2 DEF Single
  <2> QED BY <1>1, <1>5, <1>6, <2>1, <2>3 DEF Keeps, Bare
<1> QED BY <1>7, <1>8

\* append(Packet&&): the bytes of the second follow, and it has none left.
LEMMA AppendPacketKeeps ==
  ASSUME NEW this, NEW other, NEW c, NEW d, Keeps(this, c), Keeps(other, d)
  PROVE  /\ Keeps(AppendPacket(this, other).this, c \o d)
         /\ Keeps(AppendPacket(this, other).other, <<>>)
<1>1. PICK a, b, after : a = this.fragments /\ b = other.fragments
                      /\ after = AppendPacket(this, other)
  OBVIOUS
<1>2. /\ a \in Seq(AnyFragment) /\ c \in Seq(Chunks) /\ BytesAre(a, c)
      /\ b \in Seq(AnyFragment) /\ d \in Seq(Chunks) /\ BytesAre(b, d)
      /\ this.kind \in {"single", "multiple", "valueless"}
      /\ other.kind \in {"single", "multiple", "valueless"}
  BY <1>1, Parts DEF Keeps
<1>3. BytesAre(a \o b, c \o d) /\ c \o d \in Seq(Chunks)
  BY <1>2, PlacesJoin
<1>4. Covered(after.this) /\ Covered(after.other)
  BY <1>1, AppendPacketCovers DEF Keeps
<1>5. Keeps(MovedFrom(other), <<>>)
  BY EmptyKeeps DEF MovedFrom
<1>6. \/ /\ after.this.kind = "multiple" /\ after.this.fragments = a \o b
         /\ after.other \in {Multiple(<<>>, {}), FragmentTaken, Valueless}
      \/ /\ after.this = other /\ ~IsMultiple(this) /\ ~(IsSingle(this) /\ Holds(this))
         /\ after.other \in {FragmentTaken, MovedFrom(other)}
      \/ /\ after.this = this /\ after.other = other
         /\ ~IsMultiple(other) /\ ~(IsSingle(other) /\ Holds(other))
  BY <1>1, <1>2 DEF AppendPacket, MultipleToSingle, Multiple, IsMultiple, IsSingle
<1>7. CASE /\ after.this.kind = "multiple" /\ after.this.fragments = a \o b
           /\ after.other \in {Multiple(<<>>, {}), FragmentTaken, Valueless}
  BY <1>1, <1>3, <1>4, <1>7, EmptyKeeps DEF Keeps, Bare
<1>8. CASE /\ after.this = other /\ ~IsMultiple(this) /\ ~(IsSingle(this) /\ Holds(this))
           /\ after.other \in {FragmentTaken, MovedFrom(other)}
  <2>1. c \o d = d
    BY <1>2, <1>8, NothingKept
  <2> QED BY <1>1, <1>5, <1>8, <2>1, EmptyKeeps
<1>9. CASE /\ after.this = this /\ after.other = other
           /\ ~IsMultiple(other) /\ ~(IsSingle(other) /\ Holds(other))
  <2>1. d = <<>>
    BY <1>9, NothingKept
  <2>2. c \o d = c
    BY <1>2, <2>1
  <2> QED BY <1>1, <1>9, <2>1, <2>2
<1> QED BY <1>6, <1>7, <1>8, <1>9

\* getOrConvertToMultiple()
LEMMA ConvertKeeps == ASSUME NEW pkt, NEW c, Keeps(pkt, c) PROVE Keeps(GetOrConvertToMultiple(pkt), c)
<1>1. Covered(GetOrConvertToMultiple(pkt))
  BY ConvertCovers DEF Keeps
<1>2. CASE IsMultiple(pkt) \/ (IsSingle(pkt) /\ Holds(pkt))
  BY <1>1, <1>2 DEF Keeps, GetOrConvertToMultiple, Multiple, Bare
<1>3. CASE ~IsMultiple(pkt) /\ ~(IsSingle(pkt) /\ Holds(pkt))
  BY <1>3, NothingKept, EmptyKeeps DEF GetOrConvertToMultiple
<1> QED BY <1>2, <1>3

\* The packets and what was made of one, without the stream
PacketsKeep ==
  /\ contents \in [PacketNames -> Seq(Chunks)]
  /\ \A n \in PacketNames : Keeps(packet[n], contents[n])
  /\ BytesAre(givenOut.fragments, givenOut.contents)

\* ... and the stream
StreamSound(stream) ==
  /\ stream.contents \in Seq(Chunks) /\ Bare(stream.packet)
  /\ \E place \in [1..Len(stream.contents) -> DOMAIN stream.packet.fragments],
        count \in 0..Len(stream.contents) : ReadUpTo(stream, place, count)
  /\ stream.isEnd => stream.read = stream.contents
StreamKeeps == StreamSound(inputStream)

LEMMA BytesParts == PacketInv => (BytesInv <=> PacketsKeep /\ StreamKeeps)
BY DEF PacketInv, BytesInv, BytesKept, PacketsKeep, StreamKeeps, StreamSound, Keeps

LEMMA NothingGivenOut == BytesAre(NothingGiven.fragments, NothingGiven.contents)
BY NonePlaced DEF NothingGiven, Given

\* One packet is replaced ...
LEMMA OneKept ==
  ASSUME PacketInv, PacketsKeep, NEW n \in PacketNames, NEW pkt, NEW c, Keeps(pkt, c),
         packet' = [packet EXCEPT ![n] = pkt], contents' = [contents EXCEPT ![n] = c],
         BytesAre(givenOut'.fragments, givenOut'.contents)
  PROVE  PacketsKeep'
<1>1. packet \in [PacketNames -> AnyPacket] /\ c \in Seq(Chunks)
  BY DEF PacketInv, Keeps
<1>2. contents' \in [PacketNames -> Seq(Chunks)]
  BY <1>1 DEF PacketsKeep
<1>3. \A m \in PacketNames : Keeps(packet'[m], contents'[m])
  BY <1>1 DEF PacketsKeep
<1> QED BY <1>2, <1>3 DEF PacketsKeep, Keeps, Covered

\* ... or two are.
LEMMA TwoKept ==
  ASSUME PacketInv, PacketsKeep, NEW n \in PacketNames, NEW m \in PacketNames, n # m,
         NEW pkt, NEW q, NEW c, Keeps(pkt, c), Keeps(q, <<>>),
         packet' = [packet EXCEPT ![n] = pkt, ![m] = q],
         contents' = [contents EXCEPT ![n] = c, ![m] = <<>>],
         BytesAre(givenOut'.fragments, givenOut'.contents)
  PROVE  PacketsKeep'
<1>1. packet \in [PacketNames -> AnyPacket] /\ c \in Seq(Chunks) /\ <<>> \in Seq(Chunks)
  BY DEF PacketInv, Keeps
<1>2. contents' \in [PacketNames -> Seq(Chunks)]
  BY <1>1 DEF PacketsKeep
<1>3. \A o \in PacketNames : Keeps(packet'[o], contents'[o])
  BY <1>1 DEF PacketsKeep
<1> QED BY <1>2, <1>3 DEF PacketsKeep, Keeps, Covered

\* PacketInputStream::read(): the chunk after those that were read is in the first
\* fragment with bytes after the index; when there is none, all were read.
LEMMA ReadKeepsBytes ==
  ASSUME PacketInv, PacketsKeep, StreamKeeps, ReadInputStream PROVE PacketsKeep' /\ StreamKeeps'
<1>1. PICK pkt, a, c, index : pkt = inputStream.packet /\ a = pkt.fragments
                         /\ c = inputStream.contents /\ index = inputStream.index
  OBVIOUS
<1>2. /\ Covered(pkt) /\ a \in Seq(AnyFragment) /\ c \in Seq(Chunks) /\ index \in Nat
      /\ DOMAIN inputStream = {"packet", "index", "read", "isEnd", "contents"}
      /\ DOMAIN a = 1..Len(a) /\ Len(a) \in Nat /\ Len(c) \in Nat
  <2>1. Covered(pkt) /\ c \in Seq(Chunks) /\ index \in Nat
        /\ DOMAIN inputStream = {"packet", "index", "read", "isEnd", "contents"}
    BY <1>1 DEF PacketInv, StreamKeeps, StreamSound
  <2>2. a \in Seq(AnyFragment)
    BY <1>1, <2>1, Parts
  <2> QED BY <2>1, <2>2
<1>3. PICK place \in [1..Len(c) -> DOMAIN a], count \in 0..Len(c) :
        ReadUpTo(inputStream, place, count)
  BY <1>1 DEF StreamKeeps, StreamSound
<1>4. /\ Placed(place, a, c) /\ inputStream.read = SubSeq(c, 1, count)
      /\ \A i \in 1..Len(c) : place[i] <= index <=> i <= count
  BY <1>1, <1>3 DEF ReadUpTo
<1>5. PICK next : next = IF IsMultiple(pkt) THEN FirstFilled(a, index)
                         ELSE IF IsSingle(pkt) /\ index = 0 THEN {1} ELSE {}
  OBVIOUS
<1>6. /\ packet' = packet /\ contents' = contents
      /\ \/ /\ next = {} /\ givenOut' = NothingGiven
            /\ inputStream' = [inputStream EXCEPT !.isEnd = TRUE, !.index = Len(a)]
         \/ /\ next # {}
            /\ \E bytes, i : /\ i = CHOOSE j \in next : TRUE
                             /\ bytes = BytesOf(a[i])
                             /\ inputStream' = [inputStream EXCEPT !.index = i, !.read = @ \o bytes,
                                                     !.isEnd = (i >= Len(a))]
                             /\ givenOut' = Given(<<a[i]>>, pkt.deleter, FALSE, bytes)
  BY <1>1, <1>5 DEF ReadInputStream
<1>7. /\ count \in Nat /\ count <= Len(c)
      /\ \A i \in 1..Len(c) : place[i] \in 1..Len(a) /\ a[place[i]].size # 0
                           /\ a[place[i]].chunk = c[i]
  BY <1>2, <1>4 DEF Placed
<1>8. CASE next = {}
  <2>1. count = Len(c)
    <3>1. SUFFICES ASSUME count < Len(c) PROVE FALSE
      BY <1>2, <1>7
    <3>2. PICK f : f = place[count + 1]
      OBVIOUS
    <3>3. count + 1 \in 1..Len(c) /\ f \in 1..Len(a) /\ a[f].size # 0 /\ f > index
      BY <1>2, <1>4, <1>7, <3>1, <3>2
    <3>4. CASE IsMultiple(pkt)
      <4>1. ASSUME NEW j \in (index + 1)..(f - 1), a[j].size # 0 PROVE FALSE
        <5>1. j \in 1..Len(a) /\ j > index /\ j < f
          BY <1>2, <3>3
        <5>2. PICK i \in 1..Len(c) : place[i] = j
          BY <1>2, <1>4, <4>1, <5>1 DEF Placed
        <5>3. i > count /\ i # count + 1
          BY <1>2, <1>4, <1>7, <3>2, <5>1, <5>2
        <5>4. place[count + 1] < place[i]
          BY <1>4, <1>7, <3>3, <5>3 DEF Placed
        <5> QED BY <3>2, <3>3, <5>1, <5>2, <5>4
      <4>2. f \in FirstFilled(a, index)
        BY <1>2, <3>3, <4>1 DEF FirstFilled
      <4> QED BY <1>5, <1>8, <3>4, <4>2
    <3>5. CASE ~IsMultiple(pkt)
      <4>1. CASE IsSingle(pkt)
        <5>1. index # 0 /\ Len(a) = 1
          BY <1>1, <1>2, <1>5, <1>8, <3>5, <4>1 DEF Covered
        <5> QED BY <1>2, <3>3, <5>1
      <4>2. CASE ~IsSingle(pkt)
        <5>1. pkt.kind = "valueless"
          BY <1>2, <3>5, <4>2 DEF Covered, AnyPacket, IsSingle, IsMultiple
        <5> QED BY <1>1, <1>2, <3>3, <5>1 DEF StreamKeeps, StreamSound, Bare
      <4> QED BY <4>1, <4>2
    <3> QED BY <3>4, <3>5
  <2>2. inputStream.read = c
    BY <1>2, <1>4, <2>1
  <2>3. inputStream' = [inputStream EXCEPT !.isEnd = TRUE, !.index = Len(a)]
        /\ givenOut' = NothingGiven
    BY <1>6, <1>8
  <2>4. /\ inputStream'.packet = pkt /\ inputStream'.index = Len(a) /\ inputStream'.read = c
        /\ inputStream'.contents = c
    BY <1>1, <1>2, <2>2, <2>3
  <2>5. ReadUpTo(inputStream', place, Len(c))
    BY <1>1, <1>2, <1>4, <1>7, <2>4 DEF ReadUpTo
  <2>6. StreamKeeps'
    BY <1>1, <1>2, <2>4, <2>5 DEF StreamKeeps, StreamSound
  <2> QED BY <1>6, <2>3, <2>6, NothingGivenOut DEF PacketsKeep
<1>9. CASE next # {}
  <2>1. PICK bytes, i : /\ i = CHOOSE j \in next : TRUE
                        /\ bytes = BytesOf(a[i])
                        /\ inputStream' = [inputStream EXCEPT !.index = i, !.read = @ \o bytes,
                                                !.isEnd = (i >= Len(a))]
                        /\ givenOut' = Given(<<a[i]>>, pkt.deleter, FALSE, bytes)
    BY <1>6, <1>9
  <2>2. i \in next
    BY <1>9, <2>1
  <2>3. /\ i \in 1..Len(a) /\ i > index
        /\ \A j \in (index + 1)..(i - 1) : a[j].size = 0
        /\ a[i].size # 0 \/ (Len(a) = 1 /\ i = 1 /\ index = 0)
    <3>1. CASE IsMultiple(pkt)
      BY <1>2, <1>5, <2>2, <3>1 DEF FirstFilled
    <3>2. CASE ~IsMultiple(pkt)
      <4>1. i = 1 /\ index = 0 /\ IsSingle(pkt)
        BY <1>5, <2>2, <3>2
      <4>2. Len(a) = 1
        BY <1>1, <1>2, <4>1 DEF Covered
      <4>3. (index + 1)..(i - 1) = {}
        BY <4>1
      <4> QED BY <4>1, <4>2, <4>3
    <3> QED BY <3>1, <3>2
  <2>4. /\ inputStream'.packet = pkt /\ inputStream'.index = i
        /\ inputStream'.contents = c /\ inputStream'.isEnd = (i >= Len(a))
        /\ inputStream'.read = SubSeq(c, 1, count) \o bytes
    BY <1>1, <1>2, <1>4, <2>1
  <2>5. a[i] \in AnyFragment
    BY <1>2, <2>3
  <2>6. BytesAre(givenOut'.fragments, givenOut'.contents)
    BY <2>1, <2>5, OnePlaced DEF Given
  <2>7. CASE a[i].size # 0
    <3>1. PICK k \in 1..Len(c) : place[k] = i
      BY <1>2, <1>4, <2>3, <2>7 DEF Placed
    <3>2. k = count + 1
      <4>1. k > count
        BY <1>2, <1>4, <1>7, <2>3, <3>1
      <4>2. ASSUME count + 1 < k PROVE FALSE
        <5>1. count + 1 \in 1..Len(c)
          BY <1>2, <1>7, <4>1
        <5>2. place[count + 1] < i /\ place[count + 1] > index
          BY <1>2, <1>4, <1>7, <3>1, <4>2, <5>1 DEF Placed
        <5>3. place[count + 1] \in (index + 1)..(i - 1)
          BY <1>2, <1>7, <2>3, <5>1, <5>2
        <5> QED BY <1>7, <2>3, <5>1, <5>3
      <4> QED BY <1>7, <3>1, <4>1, <4>2
    <3>3. bytes = <<c[k]>>
      BY <1>4, <2>1, <2>7, <3>1 DEF Placed, BytesOf
    <3>4. SubSeq(c, 1, count) \o bytes = SubSeq(c, 1, k)
      BY <1>2, <1>7, <3>1, <3>2, <3>3
    <3>5. ASSUME NEW j \in 1..Len(c) PROVE place[j] <= i <=> j <= k
      <4>1. j < k => place[j] < i
        BY <1>4, <3>1 DEF Placed
      <4>2. k < j => i < place[j]
        BY <1>4, <3>1 DEF Placed
      <4>3. place[j] \in Nat /\ i \in Nat /\ j \in Nat /\ k \in Nat
        BY <1>2, <1>7, <2>3, <3>1
      <4> QED BY <3>1, <4>1, <4>2, <4>3
    <3>6. ReadUpTo(inputStream', place, k) /\ k \in 0..Len(c)
      BY <1>1, <1>2, <1>4, <2>4, <3>1, <3>4, <3>5 DEF ReadUpTo
    <3>7. inputStream'.isEnd => inputStream'.read = c
      <4>1. ASSUME i >= Len(a) PROVE k = Len(c)
        <5>1. Len(c) \in 1..Len(c)
          BY <1>2, <3>1
        <5>2. place[Len(c)] <= i
          BY <1>2, <1>7, <2>3, <4>1, <5>1
        <5> QED BY <1>2, <3>1, <3>5, <5>1, <5>2
      <4>2. SubSeq(c, 1, Len(c)) = c
        BY <1>2
      <4> QED BY <2>4, <3>4, <4>1, <4>2
    <3>8. StreamKeeps'
      BY <1>1, <1>2, <2>4, <3>6, <3>7 DEF StreamKeeps, StreamSound
    <3> QED BY <1>6, <2>6, <3>8 DEF PacketsKeep
  <2>8. CASE a[i].size = 0
    <3>1. Len(c) = 0
      <4>1. ASSUME Len(c) # 0 PROVE FALSE
        <5>1. 1 \in 1..Len(c)
          BY <1>2, <4>1
        <5>2. place[1] \in 1..Len(a) /\ Len(a) = 1 /\ i = 1 /\ a[place[1]].size # 0
          BY <1>7, <2>3, <2>8, <5>1
        <5>3. place[1] = 1
          BY <5>2
        <5> QED BY <2>8, <5>2, <5>3
      <4> QED BY <4>1
    <3>2. c = <<>> /\ count = 0 /\ bytes = <<>>
      BY <1>2, <1>7, <2>1, <2>8, <3>1 DEF BytesOf
    <3>3. inputStream'.read = c /\ SubSeq(c, 1, 0) = c
      BY <2>4, <3>2
    <3>4. ReadUpTo(inputStream', place, 0)
      BY <1>1, <1>4, <2>4, <3>1, <3>3 DEF ReadUpTo
    <3>5. StreamKeeps'
      BY <1>1, <1>2, <2>4, <3>1, <3>3, <3>4 DEF StreamKeeps, StreamSound
    <3> QED BY <1>6, <2>6, <3>5 DEF PacketsKeep
  <2> QED BY <2>7, <2>8
<1> QED BY <1>6, <1>8, <1>9

\* A stream over a packet has read nothing yet.
LEMMA StreamOpens ==
  ASSUME NEW pkt, NEW c, Keeps(pkt, c), NEW s, s.packet = pkt, s.index = 0,
         s.read = <<>>, s.isEnd = FALSE, s.contents = c
  PROVE  StreamSound(s)
<1>1. PICK a : a = pkt.fragments
  OBVIOUS
<1>2. a \in Seq(AnyFragment) /\ c \in Seq(Chunks) /\ Len(c) \in Nat
  BY <1>1, Parts DEF Keeps
<1>3. PICK place \in [1..Len(c) -> DOMAIN a] : Placed(place, a, c)
  BY <1>1 DEF Keeps, BytesAre
<1>4. SubSeq(c, 1, 0) = <<>> /\ 0 \in 0..Len(c)
  BY <1>2
<1>5. ReadUpTo(s, place, 0)
  BY <1>1, <1>2, <1>3, <1>4 DEF ReadUpTo
<1>6. place \in [1..Len(s.contents) -> DOMAIN s.packet.fragments] /\ 0 \in 0..Len(s.contents)
  BY <1>1, <1>3, <1>4
<1>7. s.contents \in Seq(Chunks) /\ Bare(s.packet) /\ ~s.isEnd
  BY DEF Keeps
<1> QED BY <1>5, <1>6, <1>7 DEF StreamSound

LEMMA BytesStart == PacketInit => BytesInv
<1> SUFFICES ASSUME PacketInit PROVE BytesInv
  OBVIOUS
<1>1. StreamKeeps
  BY EmptyKeeps, StreamOpens DEF PacketInit, StreamKeeps
<1>2. PacketsKeep
  BY EmptyKeeps, NothingGivenOut DEF PacketInit, PacketsKeep
<1> QED BY <1>1, <1>2, PacketStart, BytesParts

\* Every operation keeps the bytes.
LEMMA BytesStep == PacketInv /\ BytesInv /\ [PacketNext]_packetVars => BytesInv'
<1> SUFFICES ASSUME PacketInv, BytesInv, [PacketNext]_packetVars PROVE BytesInv'
  OBVIOUS
<1>1. /\ PacketsKeep /\ StreamKeeps /\ PacketInv'
      /\ \A n \in PacketNames : Keeps(packet[n], contents[n])
  BY BytesParts, PacketStep DEF PacketsKeep
<1>2. PacketsKeep' /\ StreamKeeps' => BytesInv'
  BY <1>1 DEF PacketInv, BytesInv, BytesKept, PacketsKeep, StreamKeeps, StreamSound, Keeps
<1>3. UNCHANGED inputStream => StreamKeeps'
  BY <1>1 DEF StreamKeeps, StreamSound
<1>4. ASSUME NEW n \in PacketNames, NEW chunk \in Chunks, PutString(n, chunk) PROVE BytesInv'
  <2>1. /\ packet' = [packet EXCEPT ![n] = AppendString(packet[n], chunk)]
        /\ contents' = [contents EXCEPT ![n] = contents[n] \o BytesOf(Fragment(chunk))]
        /\ givenOut' = NothingGiven /\ UNCHANGED inputStream
    BY <1>4 DEF PutString
  <2>2. Keeps(AppendString(packet[n], chunk), contents[n] \o BytesOf(Fragment(chunk)))
    BY <1>1, AppendStringKeeps
  <2> QED BY <1>1, <1>2, <1>3, <2>1, <2>2, NothingGivenOut, OneKept
<1>5. ASSUME NEW n \in PacketNames, NEW m \in PacketNames, PutPacket(n, m) PROVE BytesInv'
  <2>1. PICK after : after = AppendPacket(packet[n], packet[m])
    OBVIOUS
  <2>2. /\ n # m /\ packet' = [packet EXCEPT ![n] = after.this, ![m] = after.other]
        /\ contents' = [contents EXCEPT ![n] = contents[n] \o contents[m], ![m] = <<>>]
        /\ givenOut' = NothingGiven /\ UNCHANGED inputStream
    BY <1>5, <2>1 DEF PutPacket
  <2>3. Keeps(after.this, contents[n] \o contents[m]) /\ Keeps(after.other, <<>>)
    BY <1>1, <2>1, AppendPacketKeeps
  <2> QED BY <1>1, <1>2, <1>3, <2>2, <2>3, NothingGivenOut, TwoKept
<1>6. ASSUME NEW n \in PacketNames, NEW m \in PacketNames, MovePacket(n, m) PROVE BytesInv'
  <2>1. /\ n # m /\ packet' = [packet EXCEPT ![n] = packet[m], ![m] = MovedFrom(packet[m])]
        /\ contents' = [contents EXCEPT ![n] = contents[m], ![m] = <<>>]
        /\ givenOut' = NothingGiven /\ UNCHANGED inputStream
    BY <1>6 DEF MovePacket
  <2>2. Keeps(packet[m], contents[m]) /\ Keeps(MovedFrom(packet[m]), <<>>)
    BY <1>1, EmptyKeeps DEF MovedFrom
  <2> QED BY <1>1, <1>2, <1>3, <2>1, <2>2, NothingGivenOut, TwoKept
<1>7. ASSUME NEW n \in PacketNames, ConvertPacket(n) PROVE BytesInv'
  <2>1. /\ packet' = [packet EXCEPT ![n] = GetOrConvertToMultiple(packet[n])]
        /\ contents' = [contents EXCEPT ![n] = contents[n]]
        /\ givenOut' = NothingGiven /\ UNCHANGED inputStream
    BY <1>1, <1>7 DEF ConvertPacket, PacketsKeep
  <2>2. Keeps(GetOrConvertToMultiple(packet[n]), contents[n])
    BY <1>1, ConvertKeeps
  <2> QED BY <1>1, <1>2, <1>3, <2>1, <2>2, NothingGivenOut, OneKept
<1>8. ASSUME NEW n \in PacketNames, MakeString(n) PROVE BytesInv'
  <2>1. UNCHANGED <<packet, contents, inputStream>> /\ givenOut' = StringOf(packet[n], contents[n])
    BY <1>8 DEF MakeString
  <2>2. BytesAre(givenOut'.fragments, givenOut'.contents)
    BY <1>1, <2>1 DEF StringOf, Given, Keeps
  <2> QED BY <1>1, <1>2, <1>3, <2>1, <2>2 DEF PacketsKeep
<1>9. ASSUME NEW n \in PacketNames, SendPacket(n) PROVE BytesInv'
  <2>1. /\ packet' = [packet EXCEPT ![n] = Released(packet[n])]
        /\ contents' = [contents EXCEPT ![n] = <<>>]
        /\ givenOut' = Given(packet[n].fragments, packet[n].deleter, FALSE, contents[n])
        /\ UNCHANGED inputStream
    BY <1>9 DEF SendPacket
  <2>2. Keeps(Released(packet[n]), <<>>)
    <3>1. CASE IsSingle(packet[n]) \/ IsMultiple(packet[n])
      BY <3>1, EmptyKeeps DEF Released
    <3>2. CASE ~IsSingle(packet[n]) /\ ~IsMultiple(packet[n])
      BY <1>1, <3>2, NothingKept DEF Released
    <3> QED BY <3>1, <3>2
  <2>3. BytesAre(givenOut'.fragments, givenOut'.contents)
    BY <1>1, <2>1 DEF Given, Keeps
  <2> QED BY <1>1, <1>2, <1>3, <2>1, <2>2, <2>3, OneKept
<1>10. ASSUME NEW n \in PacketNames, OpenInputStream(n) PROVE BytesInv'
  <2>1. /\ packet' = [packet EXCEPT ![n] = MovedFrom(packet[n])]
        /\ contents' = [contents EXCEPT ![n] = <<>>] /\ givenOut' = NothingGiven
        /\ inputStream' = [packet |-> packet[n], index |-> 0, read |-> <<>>, isEnd |-> FALSE,
                           contents |-> contents[n]]
    BY <1>10 DEF OpenInputStream
  <2>2. Keeps(MovedFrom(packet[n]), <<>>)
    BY EmptyKeeps DEF MovedFrom
  <2>3. PacketsKeep'
    BY <1>1, <2>1, <2>2, NothingGivenOut, OneKept
  <2>4. StreamKeeps'
    <3>1. PICK pkt, c, s : pkt = packet[n] /\ c = contents[n] /\ s = inputStream'
      OBVIOUS
    <3>2. Keeps(pkt, c) /\ s.packet = pkt /\ s.index = 0 /\ s.read = <<>> /\ s.isEnd = FALSE
          /\ s.contents = c
      BY <1>1, <2>1, <3>1
    <3>3. StreamSound(s)
      BY <3>2, StreamOpens
    <3> QED BY <3>1, <3>3 DEF StreamKeeps
  <2> QED BY <1>2, <2>3, <2>4
<1>11. CASE ReadInputStream
  BY <1>1, <1>2, <1>11, ReadKeepsBytes
<1>12. CASE UNCHANGED packetVars
  BY <1>1, <1>2, <1>3, <1>12 DEF packetVars, PacketsKeep
<1> QED BY <1>4, <1>5, <1>6, <1>7, <1>8, <1>9, <1>10, <1>11, <1>12 DEF PacketNext

\* A packet, whatever it was made of, has the bytes that were put into it, in order,
\* and a stream over it yields them all.
THEOREM PacketsKeepBytes == PacketSpec => []BytesKept
<1>1. BytesInv => BytesKept
  BY DEF BytesInv
<1> QED BY <1>1, BytesStart, BytesStep, PacketInvariant, PTL DEF PacketSpec

-----------------------------------------------------------------------------
(* JsonText.tla: pieces of a string *)

Byte == 0..255

LEMMA HexDigits ==
  ASSUME NEW c \in Byte
  PROVE  HexDigit(c) \in -1..15
BY DEF HexDigit, Byte

LEMMA ReplacementsAre ==
  /\ DOMAIN Replacements = {34, 92, 47, 98, 102, 110, 114, 116}
  /\ \A c \in DOMAIN Replacements : Replacements[c] \in Byte
BY DEF Replacements, Byte

\* Room for n bytes from the i-th one
Fits(b, i, n) == b \in Seq(Byte) /\ i \in 1..Len(b) /\ n \in Nat /\ i + n - 1 <= Len(b)

LEMMA BytesThere ==
  ASSUME NEW b, NEW i, NEW n, Fits(b, i, n)
  PROVE  \A k \in 0..n - 1 : b[i + k] \in Byte /\ HexDigit(b[i + k]) \in -1..15
<1>1. ASSUME NEW k \in 0..n - 1 PROVE b[i + k] \in Byte
  <2>1. i + k \in 1..Len(b)
    BY DEF Fits
  <2> QED BY <2>1 DEF Fits
<1> QED BY <1>1, HexDigits

LEMMA Hexadecimal ==
  ASSUME NEW a \in 0..15, NEW b \in 0..15, NEW c \in 0..15, NEW d \in 0..15
  PROVE  /\ 4096 * a + 256 * b + 16 * c + d \in Nat
         /\ 4096 * a + 256 * b + 16 * c + d < 65536
<1>1. 4096 * a + 256 * b + 16 * c + d \in Nat
  OBVIOUS
<1>2. 4096 * a + 256 * b + 16 * c + d < 65536
  OBVIOUS
<1> QED BY <1>1, <1>2

LEMMA Unicodes ==
  ASSUME NEW b, NEW i, Fits(b, i, 6), IsUnicode(b, i)
  PROVE  Unicode(b, i) \in Nat /\ Unicode(b, i) < 65536
<1>1. \A k \in 2..5 : HexDigit(b[i + k]) \in 0..15
  BY BytesThere DEF IsUnicode
<1>2. /\ HexDigit(b[i + 2]) \in 0..15 /\ HexDigit(b[i + 3]) \in 0..15
      /\ HexDigit(b[i + 4]) \in 0..15 /\ HexDigit(b[i + 5]) \in 0..15
  BY <1>1
<1>3. PICK h2, h3, h4, h5 \in 0..15 :
         /\ h2 = HexDigit(b[i + 2]) /\ h3 = HexDigit(b[i + 3])
         /\ h4 = HexDigit(b[i + 4]) /\ h5 = HexDigit(b[i + 5])
  BY <1>2
<1>4. Unicode(b, i) = 4096 * h2 + 256 * h3 + 16 * h4 + h5
  BY <1>3 DEF Unicode
<1>5. /\ 4096 * h2 + 256 * h3 + 16 * h4 + h5 \in Nat
      /\ 4096 * h2 + 256 * h3 + 16 * h4 + h5 < 65536
  BY Hexadecimal
<1> QED BY <1>4, <1>5

LEMMA Utf8Bytes ==
  ASSUME NEW u \in Nat, u < 17 * 65536
  PROVE  /\ write_utf8(u) \in Seq(Byte) /\ Len(write_utf8(u)) \in 1..4
         /\ u < 65536 => Len(write_utf8(u)) <= 3
<1>1. \A x \in Int : x % 64 \in 0..63
  OBVIOUS
<1>2. u \div 1 \in Nat /\ u \div 64 \in Nat /\ u \div 4096 \in Nat
  OBVIOUS
<1>3. \A unit \in {1, 64, 4096} : Continuation(u, unit) \in Byte
  BY <1>1, <1>2 DEF Continuation, Byte
<1>4. PICK c1, c2, c3 \in Byte : c1 = Continuation(u, 1) /\ c2 = Continuation(u, 64)
                                 /\ c3 = Continuation(u, 4096)
  BY <1>3
<1>5. CASE u < 128
  BY <1>5 DEF write_utf8, Byte
<1>6. CASE u < 2048 /\ ~(u < 128)
  <2>1. u \div 64 < 32
    BY <1>6
  <2>2. PICK c \in Byte : c = 192 + u \div 64
    BY <1>2, <2>1 DEF Byte
  <2>3. write_utf8(u) = <<c, c1>>
    BY <1>4, <1>6, <2>2 DEF write_utf8
  <2> QED BY <2>3
<1>7. CASE u < 65536 /\ ~(u < 2048)
  <2>1. u \div 4096 < 16
    BY <1>7
  <2>2. PICK c \in Byte : c = 224 + u \div 4096
    BY <1>2, <2>1 DEF Byte
  <2>3. write_utf8(u) = <<c, c2, c1>>
    BY <1>4, <1>7, <2>2 DEF write_utf8
  <2> QED BY <2>3
<1>8. CASE ~(u < 65536)
  <2>1. u \div (64 * 4096) < 5 /\ u \div (64 * 4096) \in Nat
    BY <1>8
  <2>2. PICK c \in Byte : c = 240 + u \div (64 * 4096)
    BY <2>1 DEF Byte
  <2>3. write_utf8(u) = <<c, c3, c2, c1>>
    BY <1>4, <1>8, <2>2 DEF write_utf8
  <2> QED BY <1>8, <2>3
<1> QED BY <1>5, <1>6, <1>7, <1>8

LEMMA PairedUnicode ==
  ASSUME NEW u \in Nat, NEW v \in Nat, Leads(u), Trails(v)
  PROVE  Paired(u, v) \in Nat /\ Paired(u, v) < 17 * 65536
<1>1. u - 55296 \in 0..1023 /\ v - 56320 \in 0..1023
  BY DEF Leads, Trails
<1>2. PICK a \in 0..1023 : a = u - 55296
  BY <1>1
<1> PICK b \in 0..1023 : b = v - 56320
  BY <1>1
<1>3. Paired(u, v) = 65536 + 1024 * a + b
  BY <1>2 DEF Paired
<1>4. 65536 + 1024 * a + b \in Nat /\ 65536 + 1024 * a + b < 17 * 65536
  OBVIOUS
<1> QED BY <1>3, <1>4

-----------------------------------------------------------------------------
(* The same bytes are the same piece *)

Same(b, i, c, j, n) == \A k \in 0..n - 1 : b[i + k] = c[j + k]

LEMMA SameUnicode ==
  ASSUME NEW b, NEW i \in Nat, NEW c, NEW j \in Nat, Same(b, i, c, j, 6)
  PROVE  (IsUnicode(b, i) <=> IsUnicode(c, j)) /\ Unicode(b, i) = Unicode(c, j)
<1>1. /\ b[i] = c[j] /\ b[i + 1] = c[j + 1] /\ b[i + 2] = c[j + 2]
      /\ b[i + 3] = c[j + 3] /\ b[i + 4] = c[j + 4] /\ b[i + 5] = c[j + 5]
  BY DEF Same
<1>2. \A k \in 2..5 : b[i + k] = c[j + k]
  BY DEF Same
<1>3. IsUnicode(b, i) <=> IsUnicode(c, j)
  BY <1>1, <1>2 DEF IsUnicode
<1>4. /\ HexDigit(b[i + 2]) = HexDigit(c[j + 2]) /\ HexDigit(b[i + 3]) = HexDigit(c[j + 3])
      /\ HexDigit(b[i + 4]) = HexDigit(c[j + 4]) /\ HexDigit(b[i + 5]) = HexDigit(c[j + 5])
  BY <1>1
<1>5. Unicode(b, i) = Unicode(c, j)
  BY <1>4 DEF Unicode
<1> QED BY <1>3, <1>5

LEMMA SameLater ==
  ASSUME NEW b, NEW i \in Nat, NEW c, NEW j \in Nat, Same(b, i, c, j, 12)
  PROVE  /\ Same(b, i, c, j, 6)
         /\ Same(b, i + 6, c, j + 6, 6)
<1>1. ASSUME NEW k \in 0..5 PROVE b[i + k] = c[j + k] /\ b[(i + 6) + k] = c[(j + 6) + k]
  <2>1. k \in 0..11 /\ 6 + k \in 0..11 /\ i + (6 + k) = (i + 6) + k /\ j + (6 + k) = (j + 6) + k
    OBVIOUS
  <2> QED BY <2>1 DEF Same
<1> QED BY <1>1 DEF Same

LEMMA SamePiece ==
  ASSUME NEW b, NEW i \in Nat, NEW c, NEW j \in Nat, NEW n \in Nat \ {0},
         Same(b, i, c, j, n), IsPiece(b, i, n)
  PROVE  IsPiece(c, j, n)
<1>1. b[i] = c[j]
  BY DEF Same
<1>2. CASE n = 1 /\ is_plain_string_character(b[i])
  BY <1>1, <1>2 DEF IsPiece
<1>3. CASE n = 2 /\ b[i] = 92 /\ b[i + 1] \in DOMAIN Replacements
  <2>1. b[i + 1] = c[j + 1]
    BY <1>3 DEF Same
  <2> QED BY <1>1, <1>3, <2>1 DEF IsPiece
<1>4. CASE n = 6 /\ IsUnicode(b, i) /\ ~Leads(Unicode(b, i))
  BY <1>4, SameUnicode DEF IsPiece
<1>5. CASE n = 12 /\ IsUnicode(b, i) /\ Leads(Unicode(b, i))
            /\ IsUnicode(b, i + 6) /\ Trails(Unicode(b, i + 6))
  <2>1. IsUnicode(c, j) /\ Unicode(b, i) = Unicode(c, j)
    BY <1>5, SameLater, SameUnicode
  <2>2. IsUnicode(c, j + 6) /\ Unicode(b, i + 6) = Unicode(c, j + 6)
    BY <1>5, SameLater, SameUnicode
  <2> QED BY <1>5, <2>1, <2>2 DEF IsPiece
<1>6. CASE n \in 2..4 /\ b[i] \in 128..255 /\ Utf8Length(b[i]) = n
                /\ \A k \in 1..(n - 1) : b[i + k] \in 128..191
  <2>1. \A k \in 1..(n - 1) : b[i + k] = c[j + k]
    BY DEF Same
  <2> QED BY <1>1, <1>6, <2>1 DEF IsPiece
<1> QED BY <1>2, <1>3, <1>4, <1>5, <1>6 DEF IsPiece

LEMMA SameMeaning ==
  ASSUME NEW b, NEW i \in Nat, NEW c, NEW j \in Nat, NEW n \in Nat \ {0},
         Same(b, i, c, j, n), IsPiece(b, i, n)
  PROVE  Meaning(b, i, n) = Meaning(c, j, n)
<1>1. b[i] = c[j]
  BY DEF Same
<1>2. CASE b[i] # 92
  <2>1. SubSeq(b, i, i + n - 1) = [k \in 1..n |-> b[i + k - 1]]
    OBVIOUS
  <2>2. SubSeq(c, j, j + n - 1) = [k \in 1..n |-> c[j + k - 1]]
    OBVIOUS
  <2>3. \A k \in 1..n : b[i + k - 1] = c[j + k - 1]
    BY DEF Same
  <2> QED BY <1>1, <1>2, <2>1, <2>2, <2>3 DEF Meaning
<1>3. CASE b[i] = 92 /\ n = 2
  <2>1. b[i + 1] = c[j + 1]
    BY <1>3 DEF Same
  <2> QED BY <1>1, <1>3, <2>1 DEF Meaning
<1>4. CASE b[i] = 92 /\ n = 6
  <2>1. Unicode(b, i) = Unicode(c, j)
    BY <1>4, SameUnicode
  <2> QED BY <1>1, <1>4, <2>1 DEF Meaning
<1>5. CASE b[i] = 92 /\ n \notin {2, 6}
  <2>1. n = 12
    BY <1>5 DEF IsPiece, is_plain_string_character
  <2>2. Unicode(b, i) = Unicode(c, j) /\ Unicode(b, i + 6) = Unicode(c, j + 6)
    BY <2>1, SameLater, SameUnicode
  <2> QED BY <1>1, <1>5, <2>2 DEF Meaning
<1> QED BY <1>2, <1>3, <1>4, <1>5

(* At most one piece starts at a byte, none at a quote                       *)
LEMMA OnePiece ==
  ASSUME NEW b, NEW i, NEW n, NEW m, IsPiece(b, i, n), IsPiece(b, i, m)
  PROVE  n = m
<1>1. CASE b[i] = 92
  <2>1. ~is_plain_string_character(b[i]) /\ b[i] \notin 128..255
    BY <1>1 DEF is_plain_string_character
  <2>2. /\ n = 2 => b[i + 1] \in DOMAIN Replacements
        /\ m = 2 => b[i + 1] \in DOMAIN Replacements
        /\ n # 2 => IsUnicode(b, i) /\ n \in {6, 12} /\ (n = 12 <=> Leads(Unicode(b, i)))
        /\ m # 2 => IsUnicode(b, i) /\ m \in {6, 12} /\ (m = 12 <=> Leads(Unicode(b, i)))
    BY <2>1 DEF IsPiece
  <2>3. IsUnicode(b, i) => b[i + 1] \notin DOMAIN Replacements
    BY ReplacementsAre DEF IsUnicode
  <2> QED BY <2>2, <2>3
<1>2. CASE b[i] \in 128..255
  <2>1. ~is_plain_string_character(b[i]) /\ b[i] # 92
    BY <1>2 DEF is_plain_string_character
  <2>2. n = Utf8Length(b[i]) /\ m = Utf8Length(b[i])
    BY <2>1 DEF IsPiece, IsUnicode
  <2> QED BY <2>2
<1>3. CASE b[i] # 92 /\ b[i] \notin 128..255
  <2>1. n = 1 /\ m = 1
    BY <1>3 DEF IsPiece, IsUnicode
  <2> QED BY <2>1
<1> QED BY <1>1, <1>2, <1>3

LEMMA NoPieceAtQuote ==
  ASSUME NEW b, NEW i, NEW n, b[i] = 34
  PROVE  ~IsPiece(b, i, n)
BY DEF IsPiece, IsUnicode, is_plain_string_character

LEMMA PieceLength ==
  ASSUME NEW b, NEW i, NEW n, IsPiece(b, i, n)
  PROVE  n \in 1..12
BY DEF IsPiece

(* What a piece means takes no more bytes than the piece                     *)
LEMMA MeaningFits ==
  ASSUME NEW b, NEW i, NEW n, Fits(b, i, n), IsPiece(b, i, n)
  PROVE  /\ Meaning(b, i, n) \in Seq(Byte)
         /\ Len(Meaning(b, i, n)) <= n
<1>1. b[i] \in Byte /\ i \in Nat /\ n \in 1..12
  BY PieceLength DEF Fits
<1>2. CASE b[i] # 92
  <2>1. Meaning(b, i, n) = SubSeq(b, i, i + n - 1)
    BY <1>2 DEF Meaning
  <2>2. \A j \in i..i + n - 1 : b[j] \in Byte
    BY DEF Fits
  <2>3. /\ SubSeq(b, i, i + n - 1) \in Seq(Byte)
        /\ Len(SubSeq(b, i, i + n - 1)) = IF i <= i + n - 1 THEN (i + n - 1) - i + 1 ELSE 0
    BY <1>1, <2>2, SubSeqProperties
  <2> QED BY <1>1, <2>1, <2>3
<1>3. CASE b[i] = 92 /\ n = 2
  <2>1. Meaning(b, i, n) = <<Replacements[b[i + 1]]>>
    BY <1>3 DEF Meaning
  <2>2. b[i + 1] \in DOMAIN Replacements
    BY <1>3 DEF IsPiece, is_plain_string_character
  <2>3. PICK c \in Byte : c = Replacements[b[i + 1]]
    BY <2>2, ReplacementsAre
  <2>4. <<c>> \in Seq(Byte) /\ Len(<<c>>) = 1
    OBVIOUS
  <2>5. Meaning(b, i, n) = <<c>> /\ n = 2 /\ 1 <= 2
    BY <1>3, <2>1, <2>3
  <2> QED BY <2>4, <2>5
<1>4. CASE b[i] = 92 /\ n = 6
  <2>1. Meaning(b, i, n) = write_utf8(Unicode(b, i))
    BY <1>4 DEF Meaning
  <2>2. IsUnicode(b, i) /\ Fits(b, i, 6)
    BY <1>4 DEF IsPiece, Fits
  <2>3. Unicode(b, i) \in Nat /\ Unicode(b, i) < 65536
    BY <2>2, Unicodes
  <2>4. /\ write_utf8(Unicode(b, i)) \in Seq(Byte)
        /\ Len(write_utf8(Unicode(b, i))) \in 1..4
    BY <2>3, Utf8Bytes
  <2>5. Len(write_utf8(Unicode(b, i))) <= n
    <3>1. PICK l \in 1..4 : l = Len(write_utf8(Unicode(b, i)))
      BY <2>4
    <3>2. n = 6 /\ l <= 6
      BY <1>4
    <3> QED BY <3>1, <3>2
  <2> QED BY <2>1, <2>4, <2>5
<1>5. CASE b[i] = 92 /\ n \notin {2, 6}
  <2>1. /\ n = 12 /\ IsUnicode(b, i) /\ Leads(Unicode(b, i))
        /\ IsUnicode(b, i + 6) /\ Trails(Unicode(b, i + 6))
    BY <1>5 DEF IsPiece, is_plain_string_character
  <2>2. Meaning(b, i, n) = write_utf8(Paired(Unicode(b, i), Unicode(b, i + 6)))
    BY <1>5, Zenon DEF Meaning
  <2>3. Fits(b, i, 6) /\ Fits(b, i + 6, 6)
    BY <2>1 DEF Fits
  <2>4. Unicode(b, i) \in Nat /\ Unicode(b, i + 6) \in Nat
    BY <2>1, <2>3, Unicodes
  <2>5. PICK u : u = Paired(Unicode(b, i), Unicode(b, i + 6))
    OBVIOUS
  <2>6. u \in Nat /\ u < 17 * 65536
    BY <2>1, <2>4, <2>5, PairedUnicode
  <2>7. write_utf8(u) \in Seq(Byte) /\ Len(write_utf8(u)) \in 1..4
    BY <2>6, Utf8Bytes
  <2>8. Len(write_utf8(u)) <= n
    <3>1. PICK l \in 1..4 : l = Len(write_utf8(u))
      BY <2>7
    <3>2. n = 12 /\ l <= 12
      BY <2>1
    <3> QED BY <3>1, <3>2
  <2> QED BY <2>2, <2>5, <2>7, <2>8
<1> QED BY <1>2, <1>3, <1>4, <1>5

-----------------------------------------------------------------------------
(* A step of the parser takes the piece that is there, or refuses *)

Takes(n) == Fits(text, p, n) /\ IsPiece(text, p, n) /\ Decode(n, Meaning(text, p, n))
NoPiece ==
  /\ p <= Len(text) => text[p] # 34
  /\ \A n \in Nat : Fits(text, p, n) => ~IsPiece(text, p, n)

TakesOrRefuses == (\E n \in 1..12 : Takes(n)) \/ (FailText /\ NoPiece)

LEMMA ReadHex ==
  ASSUME NEW i, Fits(text, i, 6)
  PROVE  read_hex(i + 2) = IF \A k \in 2..5 : HexDigit(text[i + k]) # -1 THEN Unicode(text, i) ELSE -1
<1>1. PICK h : h = [k \in 0..3 |-> HexDigit(text[(i + 2) + k])]
  OBVIOUS
<1>2. read_hex(i + 2) = IF \E k \in 0..3 : h[k] = -1 THEN -1
                        ELSE 4096 * h[0] + 256 * h[1] + 16 * h[2] + h[3]
  BY <1>1 DEF read_hex
<1>3. /\ h[0] = HexDigit(text[i + 2]) /\ h[1] = HexDigit(text[i + 3])
      /\ h[2] = HexDigit(text[i + 4]) /\ h[3] = HexDigit(text[i + 5])
  BY <1>1 DEF Fits
<1>4. 4096 * h[0] + 256 * h[1] + 16 * h[2] + h[3] = Unicode(text, i)
  BY <1>3 DEF Unicode
<1>5. (\E k \in 0..3 : h[k] = -1) <=> ~(\A k \in 2..5 : HexDigit(text[i + k]) # -1)
  <2>1. (\E k \in 0..3 : h[k] = -1) <=> h[0] = -1 \/ h[1] = -1 \/ h[2] = -1 \/ h[3] = -1
    OBVIOUS
  <2>2. (\A k \in 2..5 : HexDigit(text[i + k]) # -1)
          <=> /\ HexDigit(text[i + 2]) # -1 /\ HexDigit(text[i + 3]) # -1
              /\ HexDigit(text[i + 4]) # -1 /\ HexDigit(text[i + 5]) # -1
    OBVIOUS
  <2> QED BY <1>3, <2>1, <2>2
<1> QED BY <1>2, <1>4, <1>5


LEMMA AtUnicode ==
  ASSUME NEW n, text[p] = 92, text[p + 1] = 117, IsPiece(text, p, n)
  PROVE  /\ IsUnicode(text, p)
         /\ \/ n = 6 /\ ~Leads(Unicode(text, p))
            \/ n = 12 /\ Leads(Unicode(text, p))
               /\ IsUnicode(text, p + 6) /\ Trails(Unicode(text, p + 6))
<1>1. ~is_plain_string_character(text[p]) /\ text[p] \notin 128..255
      /\ text[p + 1] \notin DOMAIN Replacements
  BY ReplacementsAre DEF is_plain_string_character
<1> QED BY <1>1 DEF IsPiece

LEMMA UnicodeStep ==
  ASSUME text \in Seq(Byte), p \in Nat \ {0}, text[p] = 92, text[p + 1] = 117,
         has_remaining_characters(p + 2, 4), DecodeUnicode
  PROVE  TakesOrRefuses
<1>1. Fits(text, p, 6)
  BY DEF has_remaining_characters, Fits
<1>2. PICK u, v : u = read_hex(p + 2) /\ v = read_hex(p + 8)
  OBVIOUS
<1>3. CASE ~IsUnicode(text, p)
  <2>1. \E k \in 2..5 : HexDigit(text[p + k]) = -1
    BY <1>3 DEF IsUnicode
  <2>2. u = -1
    BY <1>1, <1>2, <2>1, ReadHex
  <2>3. FailText
    BY <1>2, <2>2 DEF DecodeUnicode
  <2>4. NoPiece
    BY <1>3, AtUnicode DEF NoPiece
  <2> QED BY <2>3, <2>4 DEF TakesOrRefuses
<1>4. CASE IsUnicode(text, p)
  <2>1. u = Unicode(text, p) /\ u \in Nat
    <3>1. Unicode(text, p) \in Nat
      BY <1>1, <1>4, Unicodes
    <3>2. \A k \in 2..5 : HexDigit(text[p + k]) # -1
      BY <1>4 DEF IsUnicode
    <3>3. read_hex(p + 2) = IF \A k \in 2..5 : HexDigit(text[p + k]) # -1
                            THEN Unicode(text, p) ELSE -1
      BY <1>1, ReadHex
    <3> QED BY <1>2, <3>1, <3>2, <3>3
  <2>2. u # -1
    BY <2>1
  <2>3. CASE ~Leads(u)
    <3>1. Decode(6, write_utf8(u))
      BY <1>2, <2>2, <2>3 DEF DecodeUnicode, Leads
    <3>2. IsPiece(text, p, 6) /\ Meaning(text, p, 6) = write_utf8(u)
      BY <1>4, <2>1, <2>3 DEF IsPiece, Meaning
    <3>3. Takes(6)
      BY <1>1, <3>1, <3>2 DEF Takes
    <3> QED BY <3>3 DEF TakesOrRefuses
  <2>4. CASE Leads(u)
    <3>1. IF ~has_remaining_characters(p + 6, 6) \/ text[p + 6] # 92 \/ text[p + 7] # 117
          THEN FailText
          ELSE IF v < 56320 \/ v > 57343 THEN FailText
               ELSE Decode(12, write_utf8(Paired(u, v)))
      BY <1>2, <2>2, <2>4 DEF DecodeUnicode, Leads, Paired
    <3>2. CASE ~has_remaining_characters(p + 6, 6)
      <4>1. ~Fits(text, p, 12)
        BY <3>2 DEF has_remaining_characters, Fits
      <4>2. NoPiece
        BY <2>1, <2>4, <4>1, AtUnicode DEF NoPiece
      <4> QED BY <3>1, <3>2, <4>2 DEF TakesOrRefuses
    <3>3. CASE has_remaining_characters(p + 6, 6)
      <4>1. Fits(text, p, 12) /\ Fits(text, p + 6, 6)
        BY <3>3 DEF has_remaining_characters, Fits
      <4>2. CASE ~IsUnicode(text, p + 6)
        <5>1. NoPiece
          BY <2>1, <2>4, <4>2, AtUnicode DEF NoPiece
        <5>2. CASE text[p + 6] # 92 \/ text[p + 7] # 117
          BY <3>1, <5>1, <5>2 DEF TakesOrRefuses
        <5>3. CASE text[p + 6] = 92 /\ text[p + 7] = 117
          <6>1. (p + 6) + 1 = p + 7 /\ (p + 6) + 2 = p + 8
            OBVIOUS
          <6>2. \E k \in 2..5 : HexDigit(text[(p + 6) + k]) = -1
            BY <4>2, <5>3, <6>1 DEF IsUnicode
          <6>3. v = -1
            BY <1>2, <4>1, <6>1, <6>2, ReadHex
          <6> QED BY <3>1, <5>1, <6>3 DEF TakesOrRefuses
        <5> QED BY <5>2, <5>3
      <4>3. CASE IsUnicode(text, p + 6)
        <5>1. (p + 6) + 1 = p + 7 /\ (p + 6) + 2 = p + 8
          OBVIOUS
        <5>2. text[p + 6] = 92 /\ text[p + 7] = 117
          BY <4>3, <5>1 DEF IsUnicode
        <5>3. v = Unicode(text, p + 6) /\ v \in Nat
          <6>1. PICK i : i = p + 6
            OBVIOUS
          <6>2. Fits(text, i, 6) /\ IsUnicode(text, i) /\ i + 2 = p + 8
            BY <4>1, <4>3, <5>1, <6>1
          <6>3. Unicode(text, i) \in Nat
            BY <6>2, Unicodes
          <6>4. \A k \in 2..5 : HexDigit(text[i + k]) # -1
            BY <6>2 DEF IsUnicode
          <6>5. read_hex(i + 2) = IF \A k \in 2..5 : HexDigit(text[i + k]) # -1
                                  THEN Unicode(text, i) ELSE -1
            BY <6>2, ReadHex
          <6> QED BY <1>2, <6>1, <6>2, <6>3, <6>4, <6>5
        <5>4. CASE ~Trails(v)
          <6>1. NoPiece
            BY <2>1, <2>4, <5>3, <5>4, AtUnicode DEF NoPiece
          <6>2. FailText
            BY <3>1, <5>3, <5>4 DEF Trails
          <6> QED BY <6>1, <6>2 DEF TakesOrRefuses
        <5>5. CASE Trails(v)
          <6>1. Decode(12, write_utf8(Paired(u, v)))
            BY <3>1, <3>3, <5>2, <5>3, <5>5 DEF Trails
          <6>2. IsPiece(text, p, 12)
            BY <1>4, <2>1, <2>4, <4>3, <5>3, <5>5 DEF IsPiece
          <6>3. Meaning(text, p, 12) = write_utf8(Paired(u, v))
            BY <2>1, <5>3 DEF Meaning
          <6>4. Takes(12)
            BY <4>1, <6>1, <6>2, <6>3 DEF Takes
          <6> QED BY <6>4 DEF TakesOrRefuses
        <5> QED BY <5>4, <5>5
      <4> QED BY <4>2, <4>3
    <3> QED BY <3>2, <3>3
  <2> QED BY <2>3, <2>4
<1> QED BY <1>3, <1>4

LEMMA EscapeStep ==
  ASSUME text \in Seq(Byte), p \in Nat \ {0}, SlowEscape
  PROVE  TakesOrRefuses
<1>1. p <= Len(text) /\ text[p] = 92
  BY DEF SlowEscape, at_eof
<1>2. CASE at_eof(p + 1)
  <2>1. FailText
    BY <1>2 DEF SlowEscape
  <2>2. ASSUME NEW n \in Nat, Fits(text, p, n), IsPiece(text, p, n) PROVE FALSE
    <3>1. n = 1
      BY <1>2, <2>2, PieceLength DEF at_eof, Fits
    <3> QED BY <1>1, <2>2, <3>1 DEF IsPiece, is_plain_string_character
  <2> QED BY <1>1, <2>1, <2>2 DEF TakesOrRefuses, NoPiece
<1>3. CASE ~at_eof(p + 1) /\ text[p + 1] = 117
  <2>1. CASE has_remaining_characters(p + 2, 4)
    <3>1. DecodeUnicode
      BY <1>3, <2>1 DEF SlowEscape
    <3> QED BY <1>1, <1>3, <2>1, <3>1, UnicodeStep
  <2>2. CASE ~has_remaining_characters(p + 2, 4)
    <3>1. FailText
      BY <1>3, <2>2 DEF SlowEscape
    <3>2. ASSUME NEW n \in Nat, Fits(text, p, n), IsPiece(text, p, n) PROVE FALSE
      <4>1. n \in {6, 12}
        BY <1>1, <1>3, <3>2, AtUnicode
      <4> QED BY <2>2, <3>2, <4>1 DEF has_remaining_characters, Fits
    <3> QED BY <1>1, <3>1, <3>2 DEF TakesOrRefuses, NoPiece
  <2> QED BY <2>1, <2>2
<1>4. CASE ~at_eof(p + 1) /\ text[p + 1] # 117
  <2>1. IF text[p + 1] \in DOMAIN Replacements
        THEN Decode(2, <<Replacements[text[p + 1]]>>) ELSE FailText
    BY <1>4 DEF SlowEscape
  <2>2. CASE text[p + 1] \in DOMAIN Replacements
    <3>1. IsPiece(text, p, 2) /\ Fits(text, p, 2)
      BY <1>1, <1>4, <2>2 DEF IsPiece, Fits, at_eof
    <3>2. Meaning(text, p, 2) = <<Replacements[text[p + 1]]>>
      BY <1>1 DEF Meaning
    <3>3. Takes(2)
      BY <2>1, <2>2, <3>1, <3>2 DEF Takes
    <3> QED BY <3>3 DEF TakesOrRefuses
  <2>3. CASE text[p + 1] \notin DOMAIN Replacements
    <3>1. ASSUME NEW n \in Nat PROVE ~IsPiece(text, p, n)
      BY <1>1, <1>4, <2>3 DEF IsPiece, IsUnicode, is_plain_string_character
    <3> QED BY <1>1, <2>1, <2>3, <3>1 DEF TakesOrRefuses, NoPiece
  <2> QED BY <2>2, <2>3
<1> QED BY <1>2, <1>3, <1>4

LEMMA Utf8Lengths ==
  ASSUME NEW c \in Byte
  PROVE  /\ Utf8Length(c) \in 0..4 /\ (Utf8Length(c) = 1 <=> c < 128)
         /\ Utf8Length(c) > 1 => c \in 128..255
<1>1. CASE c < 128
  BY <1>1 DEF Utf8Length, Byte
<1>2. CASE c \in 128..223
  BY <1>2 DEF Utf8Length
<1>3. CASE c \in 224..239
  BY <1>3 DEF Utf8Length
<1>4. CASE c \in 240..247
  BY <1>4 DEF Utf8Length
<1>5. CASE c \in 248..255
  BY <1>5 DEF Utf8Length
<1> QED BY <1>1, <1>2, <1>3, <1>4, <1>5 DEF Byte

LEMMA ByteStep ==
  ASSUME text \in Seq(Byte), p \in Nat \ {0}, SlowByte
  PROVE  TakesOrRefuses
<1>1. p \in 1..Len(text) /\ text[p] \notin {34, 92}
  BY DEF SlowByte, at_eof
<1>2. PICK c \in Byte : c = text[p]
  BY <1>1
<1>3. PICK n : n = Utf8Length(c)
  OBVIOUS
<1>4. /\ n \in 0..4 /\ (n = 1 <=> c < 128) /\ (n > 1 => c \in 128..255)
  BY <1>3, Utf8Lengths
<1>5. has_remaining_characters(p, n) <=> p + n - 1 <= Len(text)
  BY <1>1, <1>4 DEF has_remaining_characters
<1> DEFINE Bad == \/ c < 32
                  \/ n = 0
                  \/ ~has_remaining_characters(p, n)
                  \/ \E k \in 1..(n - 1) : text[p + k] \notin 128..191
<1>6. IF Bad THEN FailText ELSE Decode(n, SubSeq(text, p, p + n - 1))
  BY <1>2, <1>3 DEF SlowByte
<1>7. CASE ~Bad
  <2>1. Fits(text, p, n) /\ n \in 1..4
    BY <1>1, <1>4, <1>5, <1>7 DEF Fits
  <2>2. c >= 32 /\ \A k \in 1..(n - 1) : text[p + k] \in 128..191
    BY <1>7 DEF Byte
  <2>3. IsPiece(text, p, n)
    <3>1. CASE n = 1
      <4>1. is_plain_string_character(text[p])
        <5>1. c \in 32..127 \ {34, 92}
          <6>1. c < 128
            BY <1>4, <3>1
          <6>2. c >= 32 /\ c \notin {34, 92}
            BY <1>1, <1>2, <2>2
          <6>3. c \in 0..255
            BY DEF Byte
          <6> QED BY <6>1, <6>2, <6>3
        <5> QED BY <1>2, <5>1 DEF is_plain_string_character
      <4> QED BY <3>1, <4>1 DEF IsPiece
    <3>2. CASE n # 1
      <4>1. n \in 2..4 /\ text[p] \in 128..255 /\ Utf8Length(text[p]) = n
        BY <1>2, <1>3, <1>4, <2>1, <3>2
      <4> QED BY <2>2, <4>1 DEF IsPiece
    <3> QED BY <3>1, <3>2
  <2>4. Meaning(text, p, n) = SubSeq(text, p, p + n - 1)
    BY <1>1 DEF Meaning
  <2>5. Decode(n, SubSeq(text, p, p + n - 1))
    BY <1>6, <1>7
  <2>6. Takes(n) /\ n \in 1..12
    BY <2>1, <2>3, <2>4, <2>5 DEF Takes
  <2> QED BY <2>6 DEF TakesOrRefuses
<1>8. CASE Bad
  <2>1. FailText
    BY <1>6, <1>8
  <2>2. ASSUME NEW m \in Nat, Fits(text, p, m), IsPiece(text, p, m) PROVE FALSE
    <3>1. CASE m = 1 /\ is_plain_string_character(text[p])
      <4>1. c \in 32..127
        BY <1>2, <3>1 DEF is_plain_string_character
      <4>2. n = 1
        BY <1>4, <4>1
      <4>3. ~has_remaining_characters(p, n)
        BY <1>8, <4>1, <4>2
      <4> QED BY <1>1, <1>5, <4>2, <4>3
    <3>2. CASE m \in 2..4 /\ text[p] \in 128..255 /\ Utf8Length(text[p]) = m
               /\ \A k \in 1..(m - 1) : text[p + k] \in 128..191
      <4>1. m = n /\ c \in 128..255
        BY <1>2, <1>3, <3>2
      <4>2. p + n - 1 <= Len(text)
        BY <2>2, <4>1 DEF Fits
      <4>3. ~has_remaining_characters(p, n)
        <5>1. ~(c < 32) /\ n # 0 /\ \A k \in 1..(n - 1) : text[p + k] \in 128..191
          BY <3>2, <4>1
        <5> QED BY <1>8, <5>1
      <4> QED BY <1>5, <4>2, <4>3
    <3> QED BY <1>1, <2>2, <3>1, <3>2 DEF IsPiece, IsUnicode
  <2> QED BY <1>1, <2>1, <2>2 DEF TakesOrRefuses, NoPiece
<1> QED BY <1>7, <1>8

-----------------------------------------------------------------------------
(* The string that is read *)

(* f has what the first k of the parts put together are, for every k         *)
HasPrefixes(f, parts) ==
  /\ parts \in Seq(Seq(Byte))
  /\ f \in [0..Len(parts) -> Seq(Byte)] /\ Joins(f, parts)
  /\ f[Len(parts)] = FlattenSeq(parts)

LEMMA PrefixesExist ==
  ASSUME NEW parts \in Seq(Seq(Byte))
  PROVE  \E f : HasPrefixes(f, parts)
BY FlattenJoins DEF HasPrefixes

LEMMA PrefixAt ==
  ASSUME NEW f, NEW parts, HasPrefixes(f, parts)
  PROVE  /\ Len(parts) \in Nat
         /\ \A i \in 0..Len(parts) : f[i] \in Seq(Byte)
         /\ \A i \in 1..Len(parts) : parts[i] \in Seq(Byte)
<1>1. parts \in Seq(Seq(Byte)) /\ f \in [0..Len(parts) -> Seq(Byte)]
  BY DEF HasPrefixes
<1>2. \A i \in 0..Len(parts) : f[i] \in Seq(Byte)
  BY <1>1
<1>3. \A i \in 1..Len(parts) : parts[i] \in Seq(Byte)
  BY <1>1
<1> QED BY <1>1, <1>2, <1>3

(* w begins with u; v is in w after its first q bytes *)
Begins(u, w) == Len(u) <= Len(w) /\ \A j \in 1..Len(u) : w[j] = u[j]
StandsAt(v, w, q) == q + Len(v) <= Len(w) /\ \A j \in 1..Len(v) : w[q + j] = v[j]

LEMMA JoinBegins ==
  ASSUME NEW u \in Seq(Byte), NEW v \in Seq(Byte), NEW w, IsJoin(w, u, v)
  PROVE  Begins(u, w) /\ StandsAt(v, w, Len(u))
BY DEF IsJoin, Begins, StandsAt

LEMMA BeginsOn ==
  ASSUME NEW u \in Seq(Byte), NEW v \in Seq(Byte), NEW w \in Seq(Byte),
         Begins(u, v), Begins(v, w)
  PROVE  Begins(u, w)
BY DEF Begins

LEMMA InsideOn ==
  ASSUME NEW u \in Seq(Byte), NEW v \in Seq(Byte), NEW w \in Seq(Byte), NEW q \in Nat,
         StandsAt(u, v, q), Begins(v, w)
  PROVE  StandsAt(u, w, q)
<1>1. PICK l \in Nat, m \in Nat, n \in Nat : l = Len(u) /\ m = Len(v) /\ n = Len(w)
  OBVIOUS
<1>2. q + l <= m /\ m <= n
  BY <1>1 DEF StandsAt, Begins
<1>3. ASSUME NEW j \in 1..l PROVE w[q + j] = u[j]
  <2>1. q + j \in 1..m
    BY <1>2
  <2> QED BY <1>1, <2>1 DEF StandsAt, Begins
<1> QED BY <1>1, <1>2, <1>3 DEF StandsAt

(* One part more                                                             *)
LEMMA NextPrefix ==
  ASSUME NEW f, NEW parts, HasPrefixes(f, parts),
         NEW m \in 1..Len(parts), NEW k \in 0..Len(parts), k = m - 1
  PROVE  IsJoin(f[m], f[k], parts[m])
<1>1. f[k] \in Seq(Byte) /\ parts[m] \in Seq(Byte)
  BY PrefixAt
<1>2. f[m] = f[k] \o parts[m]
  BY DEF HasPrefixes, Joins
<1> QED BY <1>1, <1>2, Joined

(* All of the parts begin with the first of them                             *)
LEMMA PrefixOfAll ==
  ASSUME NEW f, NEW parts, HasPrefixes(f, parts), NEW k \in 0..Len(parts)
  PROVE  Begins(f[k], FlattenSeq(parts)) /\ FlattenSeq(parts) \in Seq(Byte)
<1>1. PICK n \in Nat : n = Len(parts)
  BY PrefixAt
<1>2. PICK S : S = {m \in 0..n : m < k \/ Begins(f[k], f[m])}
  OBVIOUS
<1>3. \A m \in 0..n : f[m] \in Seq(Byte)
  BY <1>1, PrefixAt
<1>4. k \in 0..n /\ Begins(f[k], f[k])
  <2>1. PICK u \in Seq(Byte) : u = f[k]
    BY <1>1, <1>3
  <2>2. Begins(u, u)
    BY DEF Begins
  <2> QED BY <1>1, <2>1, <2>2
<1>5. 0 \in S
  BY <1>2, <1>4
<1>6. ASSUME NEW m \in 1..n, m - 1 \in S PROVE m \in S
  <2>1. CASE m <= k
    BY <1>2, <1>4, <2>1
  <2>2. CASE m > k
    <3>1. PICK l \in 0..n : l = m - 1
      OBVIOUS
    <3>2. Begins(f[k], f[l])
      BY <1>2, <1>4, <1>6, <2>2, <3>1
    <3>3. IsJoin(f[m], f[l], parts[m]) /\ parts[m] \in Seq(Byte)
      BY <1>1, <3>1, NextPrefix, PrefixAt
    <3>4. f[k] \in Seq(Byte) /\ f[l] \in Seq(Byte) /\ f[m] \in Seq(Byte)
      BY <1>3, <1>4
    <3>5. Begins(f[l], f[m])
      BY <3>3, <3>4, JoinBegins
    <3>6. Begins(f[k], f[m])
      BY <3>2, <3>4, <3>5, BeginsOn
    <3> QED BY <1>2, <3>6
  <2> QED BY <1>4, <2>1, <2>2
<1>7. n \in S
  <2>1. 0..n \subseteq S
    BY <1>5, <1>6, UpTo
  <2> QED BY <2>1
<1>8. Begins(f[k], f[n])
  BY <1>2, <1>4, <1>7
<1>9. f[n] = FlattenSeq(parts)
  BY <1>1 DEF HasPrefixes
<1> QED BY <1>3, <1>8, <1>9

(* Where the parts are when they are put together and more follows            *)
LEMMA PartInside ==
  ASSUME NEW f, NEW parts, HasPrefixes(f, parts), NEW rest \in Seq(Byte),
         NEW m \in 1..Len(parts), NEW k \in 0..Len(parts), k = m - 1
  PROVE  StandsAt(parts[m], FlattenSeq(parts) \o rest, Len(f[k]))
<1>1. PICK all \in Seq(Byte) : all = FlattenSeq(parts)
  BY PrefixOfAll
<1>2. all \o rest \in Seq(Byte) /\ Begins(all, all \o rest)
  BY Joined, JoinBegins
<1>3. m \in 0..Len(parts)
  BY PrefixAt
<1>4. PICK u \in Seq(Byte), v \in Seq(Byte), w \in Seq(Byte) : u = f[k] /\ v = f[m] /\ w = parts[m]
  BY <1>3, PrefixAt
<1>5. IsJoin(v, u, w)
  BY <1>4, NextPrefix
<1>6. StandsAt(w, v, Len(u))
  BY <1>5, JoinBegins
<1>7. Begins(v, all)
  BY <1>1, <1>3, <1>4, PrefixOfAll
<1>8. Begins(v, all \o rest)
  BY <1>2, <1>7, BeginsOn
<1>9. StandsAt(w, all \o rest, Len(u))
  <2>1. Len(u) \in Nat
    OBVIOUS
  <2> QED BY <1>2, <1>6, <1>8, <2>1, InsideOn
<1> QED BY <1>1, <1>4, <1>9

(* Where the parser is in a string: the first k pieces have been read         *)
IsRead(J, H) ==
  /\ HasPrefixes(J, given.pieces) /\ HasPrefixes(H, Meanings(given.pieces))
  /\ Len(Meanings(given.pieces)) = Len(given.pieces)

Unread(q) == \A j \in q..Len(text) : text[j] = given.bytes[j]

Reached(J, H, k) ==
  /\ k \in 0..Len(given.pieces)
  /\ p = Len(J[k]) + 1 /\ end = Len(H[k]) + 1 /\ end <= p
  /\ Unread(p) /\ Begins(H[k], text)

StringTypes ==
  /\ given \in StringTexts /\ IsSpelt(given)
  /\ given.bytes \in Seq(Byte) /\ text \in Seq(Byte) /\ Len(text) = Len(given.bytes)
  /\ p \in Nat \ {0} /\ end \in Nat \ {0} /\ end <= p

StringInv ==
  /\ given \in StringTexts \cup NumberTexts
  /\ IsString(given) =>
       /\ StringTypes
       /\ at \in {"fast", "slow", "decoded", "refused"}
       /\ at \in {"fast", "slow"} =>
            \E J, H, k : IsRead(J, H) /\ Reached(J, H, k) /\ (at = "fast" => end = p)
       /\ at = "decoded" => SubSeq(text, 1, end - 1) = given.means
       /\ at = "refused" => given.means = Refused
  /\ ~IsString(given) => end = 1 /\ p \in Nat \ {0} /\ at \notin {"fast", "slow", "decoded"}

LEMMA GivenString ==
  ASSUME NEW t \in StringTexts
  PROVE  /\ IsSpelt(t) /\ t.pieces \in Seq(Seq(Byte)) /\ t.ending \in Seq(Byte)
         /\ t.bytes = FlattenSeq(t.pieces) \o t.ending
         /\ \A i \in 1..Len(t.pieces) : IsPiece(t.pieces[i], 1, Len(t.pieces[i]))
BY TextAssumption, ZenonT(30) DEF IsSpelt, Byte

LEMMA PieceMeaning ==
  ASSUME NEW b \in Seq(Byte), IsPiece(b, 1, Len(b))
  PROVE  /\ Len(b) \in 1..12 /\ Meaning(b, 1, Len(b)) \in Seq(Byte)
         /\ Len(Meaning(b, 1, Len(b))) <= Len(b)
<1>1. PICK n \in Nat : n = Len(b)
  OBVIOUS
<1>2. n \in 1..12
  BY <1>1, PieceLength
<1>3. Fits(b, 1, n)
  BY <1>1, <1>2 DEF Fits
<1> QED BY <1>1, <1>2, <1>3, MeaningFits

LEMMA MeaningsTypes ==
  ASSUME NEW parts \in Seq(Seq(Byte)), \A i \in 1..Len(parts) : IsPiece(parts[i], 1, Len(parts[i]))
  PROVE  /\ Meanings(parts) \in Seq(Seq(Byte)) /\ Len(Meanings(parts)) = Len(parts)
         /\ \A i \in 1..Len(parts) :
              /\ Meanings(parts)[i] = Meaning(parts[i], 1, Len(parts[i]))
              /\ Len(Meanings(parts)[i]) <= Len(parts[i])
<1>1. PICK n \in Nat : n = Len(parts)
  OBVIOUS
<1>2. PICK m : m = [i \in 1..n |-> Meaning(parts[i], 1, Len(parts[i]))]
  OBVIOUS
<1>3. m = Meanings(parts)
  BY <1>1, <1>2 DEF Meanings
<1>4. ASSUME NEW i \in 1..n
      PROVE  /\ Meaning(parts[i], 1, Len(parts[i])) \in Seq(Byte)
             /\ Len(Meaning(parts[i], 1, Len(parts[i]))) <= Len(parts[i])
  <2>1. parts[i] \in Seq(Byte) /\ IsPiece(parts[i], 1, Len(parts[i]))
    BY <1>1
  <2> QED BY <2>1, PieceMeaning
<1>5. m \in [1..n -> Seq(Byte)]
  BY <1>2, <1>4
<1>6. m \in Seq(Seq(Byte)) /\ Len(m) = n
  BY <1>5
<1>7. \A i \in 1..n : m[i] = Meaning(parts[i], 1, Len(parts[i]))
  BY <1>2
<1> QED BY <1>1, <1>3, <1>4, <1>6, <1>7

LEMMA ReadExists ==
  ASSUME given \in StringTexts
  PROVE  \E J, H : IsRead(J, H) /\ J[0] = <<>> /\ H[0] = <<>>
<1>1. /\ given.pieces \in Seq(Seq(Byte)) /\ Meanings(given.pieces) \in Seq(Seq(Byte))
      /\ Len(Meanings(given.pieces)) = Len(given.pieces)
  BY GivenString, MeaningsTypes
<1>2. PICK J, H : HasPrefixes(J, given.pieces) /\ HasPrefixes(H, Meanings(given.pieces))
  BY <1>1, PrefixesExist
<1>3. J[0] = <<>> /\ H[0] = <<>>
  BY <1>2 DEF HasPrefixes, Joins
<1> QED BY <1>1, <1>2, <1>3 DEF IsRead

(* The piece that follows is where the parser is                              *)
LEMMA PieceThere ==
  ASSUME StringTypes, NEW J, NEW H, NEW k, IsRead(J, H), Reached(J, H, k),
         NEW m \in 1..Len(given.pieces), k = m - 1, NEW b, b = given.pieces[m]
  PROVE  /\ b \in Seq(Byte) /\ Len(b) \in 1..12 /\ IsPiece(b, 1, Len(b))
         /\ Fits(text, p, Len(b)) /\ Same(b, 1, text, p, Len(b)) /\ IsPiece(text, p, Len(b))
<1>1. /\ b \in Seq(Byte) /\ IsPiece(b, 1, Len(b))
      /\ given.bytes = FlattenSeq(given.pieces) \o given.ending /\ given.ending \in Seq(Byte)
  <2>1. given \in StringTexts
    BY DEF StringTypes
  <2>2. /\ given.pieces \in Seq(Seq(Byte)) /\ given.ending \in Seq(Byte)
        /\ given.bytes = FlattenSeq(given.pieces) \o given.ending
        /\ \A i \in 1..Len(given.pieces) : IsPiece(given.pieces[i], 1, Len(given.pieces[i]))
    BY <2>1, GivenString
  <2>3. given.pieces[m] \in Seq(Byte)
    BY <2>2
  <2>4. IsPiece(given.pieces[m], 1, Len(given.pieces[m]))
    BY <2>2
  <2> QED BY <2>2, <2>3, <2>4
<1>2. Len(b) \in 1..12
  BY <1>1, PieceMeaning
<1>3. k \in 0..Len(given.pieces) /\ HasPrefixes(J, given.pieces)
  BY DEF Reached, IsRead
<1>4. PICK u \in Seq(Byte) : u = J[k]
  BY <1>3, PrefixAt
<1>5. StandsAt(b, given.bytes, Len(u))
  BY <1>1, <1>3, <1>4, PartInside
<1>6. PICK q \in Nat, l \in 1..12, n \in Nat :
         q = Len(u) /\ l = Len(b) /\ n = Len(text) /\ n = Len(given.bytes)
  BY <1>2 DEF StringTypes
<1>7. q + l <= n /\ \A j \in 1..l : given.bytes[q + j] = b[j]
  BY <1>5, <1>6 DEF StandsAt
<1>8. p = q + 1 /\ Unread(p)
  BY <1>4, <1>6 DEF Reached
<1>9. ASSUME NEW i \in 0..l - 1 PROVE b[1 + i] = text[p + i]
  <2>1. PICK j \in 1..l : j = 1 + i
    OBVIOUS
  <2>2. p + i = q + j /\ q + j \in p..n
    BY <1>7, <1>8, <2>1
  <2>3. text[q + j] = given.bytes[q + j]
    BY <1>6, <1>8, <2>2 DEF Unread
  <2> QED BY <1>7, <2>1, <2>2, <2>3
<1>10. Same(b, 1, text, p, l)
  BY <1>9 DEF Same
<1>11. Fits(text, p, l)
  <2>1. text \in Seq(Byte)
    BY DEF StringTypes
  <2>2. p \in 1..n /\ p + l - 1 <= n
    BY <1>7, <1>8
  <2> QED BY <1>6, <2>1, <2>2 DEF Fits
<1>12. IsPiece(text, p, l)
  <2>1. IsPiece(b, 1, l)
    BY <1>1, <1>6
  <2>2. p \in Nat /\ l \in Nat \ {0}
    BY <1>8, SMTT(30)
  <2> QED BY <1>10, <2>1, <2>2, SamePiece
<1> QED BY <1>1, <1>2, <1>6, <1>10, <1>11, <1>12

(* When there are no more pieces the ending is there                          *)
LEMMA EndingThere ==
  ASSUME StringTypes, NEW J, NEW H, NEW k, IsRead(J, H), Reached(J, H, k),
         k = Len(given.pieces)
  PROVE  /\ given.ending \in Seq(Byte) /\ Len(text) - p + 1 = Len(given.ending)
         /\ \A n \in Nat : n <= Len(given.ending) => Same(text, p, given.ending, 1, n)
<1>1. PICK e \in Seq(Byte), all \in Seq(Byte) :
        e = given.ending /\ all = FlattenSeq(given.pieces) /\ all = J[k]
  <2>1. given.ending \in Seq(Byte) /\ HasPrefixes(J, given.pieces) /\ k \in 0..Len(given.pieces)
    BY GivenString DEF StringTypes, IsRead, Reached
  <2>2. FlattenSeq(given.pieces) = J[k]
    BY <2>1 DEF HasPrefixes
  <2> QED BY <2>1, <2>2, PrefixAt
<1>2. given.bytes = all \o e
  BY <1>1, GivenString DEF StringTypes
<1>3. IsJoin(given.bytes, all, e)
  BY <1>2, Joined
<1>4. PICK q \in Nat, l \in Nat, n \in Nat :
         q = Len(all) /\ l = Len(e) /\ n = Len(text) /\ n = Len(given.bytes)
  BY DEF StringTypes
<1>5. n = q + l /\ p = q + 1 /\ Unread(p) /\ \A j \in 1..l : given.bytes[q + j] = e[j]
  BY <1>1, <1>3, <1>4 DEF IsJoin, Reached
<1>6. ASSUME NEW i \in 0..l - 1 PROVE text[p + i] = e[1 + i]
  <2>1. PICK j \in 1..l : j = 1 + i
    OBVIOUS
  <2>2. p + i = q + j /\ q + j \in p..n
    <3>1. n = q + l /\ p = q + 1
      BY <1>5
    <3> QED BY <2>1, <3>1
  <2>3. text[q + j] = given.bytes[q + j]
    BY <1>4, <1>5, <2>2 DEF Unread
  <2> QED BY <1>5, <2>1, <2>2, <2>3
<1>7. \A m \in Nat : m <= l => Same(text, p, e, 1, m)
  BY <1>6 DEF Same
<1> QED BY <1>1, <1>4, <1>5, <1>7

-----------------------------------------------------------------------------
(* What the next piece, a quote or neither says of the string *)

LEMMA NextPiece ==
  ASSUME StringTypes, NEW J, NEW H, NEW k, IsRead(J, H), Reached(J, H, k),
         NEW n \in 1..12, Fits(text, p, n), IsPiece(text, p, n)
  PROVE  k # Len(given.pieces)
<1>1. SUFFICES ASSUME k = Len(given.pieces) PROVE FALSE
  OBVIOUS
<1>2. PICK e \in Seq(Byte) : e = given.ending /\ Len(text) - p + 1 = Len(e)
                             /\ \A m \in Nat : m <= Len(e) => Same(text, p, e, 1, m)
  BY <1>1, EndingThere
<1>3. n <= Len(e) /\ p \in Nat
  BY <1>2 DEF Fits
<1>4. Same(text, p, e, 1, n)
  BY <1>2, <1>3
<1>5. IsPiece(e, 1, n)
  BY <1>3, <1>4, SamePiece
<1>6. n \in 1..Len(e)
  BY <1>3
<1>7. e # <<34>>
  BY <1>5, NoPieceAtQuote
<1>8. ~IsBroken(e)
  BY <1>5, <1>6 DEF IsBroken
<1> QED BY <1>2, <1>7, <1>8 DEF StringTypes, IsSpelt

LEMMA NextQuote ==
  ASSUME StringTypes, NEW J, NEW H, NEW k, IsRead(J, H), Reached(J, H, k),
         p <= Len(text), text[p] = 34
  PROVE  k = Len(given.pieces) /\ given.means = FlattenSeq(Meanings(given.pieces))
<1>1. k = Len(given.pieces)
  <2>1. SUFFICES ASSUME k # Len(given.pieces) PROVE FALSE
    OBVIOUS
  <2>2. PICK m \in 1..Len(given.pieces) : k = m - 1
    <3>1. k \in 0..Len(given.pieces) /\ Len(given.pieces) \in Nat
      BY PrefixAt DEF Reached, IsRead
    <3> QED BY <2>1, <3>1
  <2>3. IsPiece(text, p, Len(given.pieces[m]))
    BY <2>2, PieceThere
  <2> QED BY <2>3, NoPieceAtQuote
<1>2. PICK e \in Seq(Byte) : e = given.ending /\ Len(text) - p + 1 = Len(e)
                             /\ \A m \in Nat : m <= Len(e) => Same(text, p, e, 1, m)
  BY <1>1, EndingThere
<1>3. 1 <= Len(e) /\ p \in Nat
  BY <1>2 DEF StringTypes
<1>4. text[p] = e[1]
  <2>1. Same(text, p, e, 1, 1)
    BY <1>2, <1>3
  <2>2. text[p + 0] = e[1 + 0]
    BY <2>1 DEF Same
  <2> QED BY <1>3, <2>2
<1>5. ~IsBroken(e)
  <2>1. 1 \in 1..Len(e)
    BY <1>3
  <2> QED BY <1>4, <2>1 DEF IsBroken
<1> QED BY <1>1, <1>2, <1>5 DEF StringTypes, IsSpelt

LEMMA NextNeither ==
  ASSUME StringTypes, NEW J, NEW H, NEW k, IsRead(J, H), Reached(J, H, k), NoPiece
  PROVE  given.means = Refused
<1>1. k = Len(given.pieces)
  <2>1. SUFFICES ASSUME k # Len(given.pieces) PROVE FALSE
    OBVIOUS
  <2>2. PICK m \in 1..Len(given.pieces) : k = m - 1
    <3>1. k \in 0..Len(given.pieces) /\ Len(given.pieces) \in Nat
      BY PrefixAt DEF Reached, IsRead
    <3> QED BY <2>1, <3>1
  <2>3. PICK l : l = Len(given.pieces[m])
    OBVIOUS
  <2>4. l \in 1..12 /\ Fits(text, p, l) /\ IsPiece(text, p, l)
    BY <2>2, <2>3, PieceThere
  <2> QED BY <2>4 DEF NoPiece
<1>2. PICK e \in Seq(Byte) : e = given.ending /\ Len(text) - p + 1 = Len(e)
                             /\ \A m \in Nat : m <= Len(e) => Same(text, p, e, 1, m)
  BY <1>1, EndingThere
<1>3. e # <<34>>
  <2>1. SUFFICES ASSUME e = << 34 >> PROVE FALSE
    OBVIOUS
  <2>2. Len(e) = 1 /\ e[1] = 34
    BY <2>1
  <2>3. Same(text, p, e, 1, 1) /\ p <= Len(text) /\ p \in Nat
    BY <1>2, <2>2 DEF StringTypes
  <2>4. text[p + 0] = e[1 + 0]
    BY <2>3 DEF Same
  <2> QED BY <2>2, <2>3, <2>4 DEF NoPiece
<1> QED BY <1>2, <1>3 DEF StringTypes, IsSpelt

(* The piece that is taken is the next one, and means what it does            *)
Following(k, m, n) ==
  /\ k = m - 1 /\ n = Len(given.pieces[m])
  /\ Meaning(text, p, n) = Meanings(given.pieces)[m]
  /\ Meanings(given.pieces)[m] \in Seq(Byte) /\ Len(Meanings(given.pieces)[m]) <= n

LEMMA TakenPiece ==
  ASSUME StringTypes, NEW J, NEW H, NEW k, IsRead(J, H), Reached(J, H, k),
         NEW n \in 1..12, Fits(text, p, n), IsPiece(text, p, n)
  PROVE  \E m \in 1..Len(given.pieces) : Following(k, m, n)
<1>1. PICK m \in 1..Len(given.pieces) : k = m - 1
  <2>1. k \in 0..Len(given.pieces) /\ Len(given.pieces) \in Nat
    BY PrefixAt DEF Reached, IsRead
  <2> QED BY <2>1, NextPiece
<1>2. PICK b : b = given.pieces[m]
  OBVIOUS
<1>3. /\ b \in Seq(Byte) /\ Len(b) \in 1..12 /\ IsPiece(b, 1, Len(b))
      /\ Same(b, 1, text, p, Len(b)) /\ IsPiece(text, p, Len(b))
  BY <1>1, <1>2, PieceThere
<1>4. n = Len(b)
  BY <1>3, OnePiece
<1>5. Meaning(b, 1, n) = Meaning(text, p, n)
  <2>1. p \in Nat /\ n \in Nat \ {0}
    BY DEF StringTypes
  <2> QED BY <1>3, <1>4, <2>1, SameMeaning
<1>6. given.pieces \in Seq(Seq(Byte))
      /\ \A i \in 1..Len(given.pieces) : IsPiece(given.pieces[i], 1, Len(given.pieces[i]))
  <2>1. given \in StringTexts
    BY DEF StringTypes
  <2> QED BY <2>1, GivenString
<1>7. /\ Meanings(given.pieces)[m] = Meaning(b, 1, Len(b))
      /\ Len(Meanings(given.pieces)[m]) <= Len(b)
  BY <1>2, <1>6, MeaningsTypes
<1>8. Meanings(given.pieces)[m] \in Seq(Byte)
  BY <1>3, <1>7, PieceMeaning
<1> QED BY <1>1, <1>2, <1>4, <1>5, <1>7, <1>8 DEF Following

-----------------------------------------------------------------------------
(* The steps *)

(* The bytes of a piece go over bytes that have been read                     *)
LEMMA WrittenBytes ==
  ASSUME text \in Seq(Byte), end \in Nat \ {0}, NEW w \in Seq(Byte),
         end + Len(w) <= Len(text) + 1
  PROVE  /\ Written(w) \in Seq(Byte) /\ Len(Written(w)) = Len(text)
         /\ \A j \in 1..end - 1 : Written(w)[j] = text[j]
         /\ \A j \in end + Len(w)..Len(text) : Written(w)[j] = text[j]
         /\ \A j \in 1..Len(w) : Written(w)[end - 1 + j] = w[j]
<1>1. PICK n \in Nat, l \in Nat, e \in Nat \ {0} : n = Len(text) /\ l = Len(w) /\ e = end
  OBVIOUS
<1>2. PICK x : x = [i \in 1..n |-> IF i >= e /\ i < e + l THEN w[i - e + 1] ELSE text[i]]
  OBVIOUS
<1>3. x = Written(w)
  BY <1>1, <1>2 DEF Written
<1>4. ASSUME NEW i \in 1..n PROVE x[i] \in Byte
  <2>1. CASE i >= e /\ i < e + l
    <3>1. i - e + 1 \in 1..l
      BY <2>1
    <3>2. w[i - e + 1] \in Byte
      BY <1>1, <3>1
    <3> QED BY <1>2, <2>1, <3>2
  <2>2. CASE ~(i >= e /\ i < e + l)
    BY <1>1, <1>2, <2>2
  <2> QED BY <2>1, <2>2
<1>5. x \in [1..n -> Byte]
  BY <1>2, <1>4
<1>6. x \in Seq(Byte) /\ Len(x) = n
  BY <1>5
<1>7. \A j \in 1..e - 1 : x[j] = text[j]
  BY <1>1, <1>2
<1>8. \A j \in e + l..n : x[j] = text[j]
  BY <1>2
<1>9. ASSUME NEW j \in 1..l PROVE x[e - 1 + j] = w[j]
  <2>1. PICK i \in 1..n : i = e - 1 + j
    BY <1>1
  <2>2. i >= e /\ i < e + l /\ i - e + 1 = j
    BY <2>1
  <2> QED BY <1>2, <2>1, <2>2
<1> QED BY <1>1, <1>3, <1>6, <1>7, <1>8, <1>9

LEMMA TakingStep ==
  ASSUME StringTypes, NEW J, NEW H, NEW k, IsRead(J, H), Reached(J, H, k),
         NEW n \in 1..12, Takes(n)
  PROVE  StringTypes' /\ \E m : Reached(J, H, m)'
<1>1. Fits(text, p, n) /\ IsPiece(text, p, n)
  BY DEF Takes
<1>2. PICK m \in 1..Len(given.pieces), w \in Seq(Byte) :
        /\ k = m - 1 /\ n = Len(given.pieces[m]) /\ w = Meaning(text, p, n)
        /\ w = Meanings(given.pieces)[m] /\ Len(w) <= n
  <2>1. PICK m \in 1..Len(given.pieces) : Following(k, m, n)
    BY <1>1, TakenPiece
  <2> QED BY <2>1 DEF Following
<1>3. text' = Written(w) /\ p' = p + n /\ end' = end + Len(w) /\ given' = given
  BY <1>2 DEF Takes, Decode, Stays
<1>4. /\ HasPrefixes(J, given.pieces) /\ HasPrefixes(H, Meanings(given.pieces))
      /\ Len(Meanings(given.pieces)) = Len(given.pieces) /\ k \in 0..Len(given.pieces)
  BY DEF IsRead, Reached
<1>5. m \in 0..Len(given.pieces)
  BY <1>4, PrefixAt
<1>6. PICK u \in Seq(Byte), v \in Seq(Byte), x \in Seq(Byte), y \in Seq(Byte), z \in Seq(Byte) :
        u = J[k] /\ v = J[m] /\ x = H[k] /\ y = H[m] /\ z = given.pieces[m]
  BY <1>4, <1>5, PrefixAt
<1>7. IsJoin(v, u, z)
  BY <1>2, <1>4, <1>6, NextPrefix
<1>8. IsJoin(y, x, w)
  BY <1>2, <1>4, <1>6, NextPrefix
<1>9. PICK a \in Nat, b \in Nat, l \in Nat, c \in Nat :
        a = Len(u) /\ b = Len(x) /\ l = Len(w) /\ c = Len(text)
  BY DEF StringTypes
<1>10. /\ p = a + 1 /\ end = b + 1 /\ end <= p /\ l <= n /\ p + n - 1 <= c
       /\ Unread(p) /\ Begins(x, text)
  BY <1>1, <1>2, <1>6, <1>9 DEF Reached, Fits
<1>11. /\ p' = Len(v) + 1 /\ end' = Len(y) + 1 /\ end' <= p'
       /\ p' \in Nat \ {0} /\ end' \in Nat \ {0} /\ end' <= c + 1
  <2>1. Len(v) = a + n /\ Len(y) = b + l
    BY <1>2, <1>6, <1>7, <1>8, <1>9 DEF IsJoin
  <2>2. p' = a + 1 + n /\ end' = b + 1 + l
    BY <1>3, <1>9, <1>10
  <2>3. a + 1 + n \in Nat \ {0} /\ b + 1 + l \in Nat \ {0} /\ b + 1 + l <= a + 1 + n
        /\ b + 1 + l <= c + 1
    BY <1>10
  <2> QED BY <2>1, <2>2, <2>3
<1>12. /\ text' \in Seq(Byte) /\ Len(text') = c
       /\ \A j \in 1..b : text'[j] = text[j]
       /\ \A j \in p'..c : text'[j] = text[j]
       /\ \A j \in 1..l : text'[b + j] = w[j]
  <2>1. text \in Seq(Byte) /\ end \in Nat \ {0} /\ end + Len(w) <= Len(text) + 1
    BY <1>9, <1>10, SMTT(30) DEF StringTypes
  <2>2. /\ Written(w) \in Seq(Byte) /\ Len(Written(w)) = Len(text)
        /\ \A j \in 1..end - 1 : Written(w)[j] = text[j]
        /\ \A j \in end + Len(w)..Len(text) : Written(w)[j] = text[j]
        /\ \A j \in 1..Len(w) : Written(w)[end - 1 + j] = w[j]
    BY <2>1, WrittenBytes
  <2>3. end - 1 = b /\ end + Len(w) <= p'
    BY <1>3, <1>9, <1>10
  <2>4. \A j \in p'..c : j \in end + Len(w)..Len(text)
    BY <1>3, <1>9, <1>10, <2>3
  <2> QED BY <1>3, <1>9, <2>2, <2>3, <2>4
<1>13. StringTypes'
  BY <1>3, <1>9, <1>11, <1>12 DEF StringTypes
<1>14. \A j \in p'..c : text'[j] = given.bytes[j]
  <2>1. ASSUME NEW j \in p'..c PROVE text'[j] = given.bytes[j]
    <3>1. j \in p..c
      BY <1>3, <1>10
    <3> QED BY <1>9, <1>10, <1>12, <3>1 DEF Unread
  <2> QED BY <2>1
<1>15. Begins(y, text')
  <2>1. Len(y) = b + l /\ Len(y) <= Len(text')
    BY <1>8, <1>9, <1>11, <1>12 DEF IsJoin
  <2>2. ASSUME NEW j \in 1..b + l PROVE text'[j] = y[j]
    <3>1. CASE j <= b
      <4>1. text'[j] = text[j] /\ text[j] = x[j] /\ y[j] = x[j]
        BY <1>8, <1>9, <1>10, <1>12, <3>1 DEF Begins, IsJoin
      <4> QED BY <4>1
    <3>2. CASE j > b
      <4>1. PICK i \in 1..l : j = b + i
        <5>1. j - b \in 1..l /\ j = b + (j - b)
          BY <3>2
        <5> QED BY <5>1
      <4>2. text'[b + i] = w[i] /\ y[b + i] = w[i]
        BY <1>8, <1>9, <1>12 DEF IsJoin
      <4> QED BY <4>1, <4>2
    <3> QED BY <3>1, <3>2
  <2> QED BY <2>1, <2>2 DEF Begins
<1>16. Reached(J, H, m)'
  BY <1>3, <1>5, <1>6, <1>11, <1>12, <1>14, <1>15 DEF Reached, Unread
<1> QED BY <1>13, <1>16

LEMMA PlainStep ==
  ASSUME StringTypes, PlainByte, end = p
  PROVE  Takes(1) /\ end' = p' /\ at' = at
<1>1. /\ p \in 1..Len(text) /\ is_plain_string_character(text[p]) /\ text' = text
      /\ p' = p + 1 /\ end' = p + 1 /\ at' = at /\ given' = given /\ number' = number
  BY DEF PlainByte, at_eof, StringTypes, Stays
<1>2. Fits(text, p, 1) /\ IsPiece(text, p, 1)
  BY <1>1 DEF Fits, IsPiece, StringTypes
<1>3. Meaning(text, p, 1) = <<text[p]>>
  <2>1. text[p] # 92
    BY <1>1 DEF is_plain_string_character
  <2>2. Meaning(text, p, 1) = SubSeq(text, p, p + 1 - 1)
    BY <2>1 DEF Meaning
  <2>3. SubSeq(text, p, p + 1 - 1) = <<text[p]>>
    <3>1. p \in 1..Len(text) /\ text \in Seq(Byte) /\ p + 1 - 1 = p
      BY <1>1 DEF StringTypes
    <3>2. PICK x : x = SubSeq(text, p, p)
      OBVIOUS
    <3>3. x \in Seq(Byte) /\ Len(x) = 1 /\ x[1] = text[p]
      BY <3>1, <3>2
    <3>4. x = <<text[p]>>
      BY <3>3
    <3> QED BY <3>1, <3>2, <3>4
  <2> QED BY <2>2, <2>3
<1>4. text = Written(<<text[p]>>)
  <2>1. PICK x : x = Written(<<text[p]>>)
    OBVIOUS
  <2>2. x = [i \in 1..Len(text) |-> IF i >= p /\ i < p + 1 THEN <<text[p]>>[i - p + 1] ELSE text[i]]
    BY <2>1 DEF Written
  <2>3. \A i \in 1..Len(text) : x[i] = text[i]
    BY <1>1, <2>2
  <2>4. text = [i \in 1..Len(text) |-> text[i]]
    BY DEF StringTypes
  <2> QED BY <2>1, <2>2, <2>3, <2>4
<1>5. Decode(1, <<text[p]>>)
  BY <1>1, <1>4 DEF Decode, Stays
<1> QED BY <1>1, <1>2, <1>3, <1>5 DEF Takes

(* What the string means has been written when its quote is found             *)
LEMMA DecodedHere ==
  ASSUME StringTypes, NEW J, NEW H, NEW k, IsRead(J, H), Reached(J, H, k),
         p <= Len(text), text[p] = 34, NEW q \in {p, end},
         text' = [text EXCEPT ![q] = 0], p' = p + 1, end' = end, given' = given
  PROVE  StringTypes' /\ SubSeq(text', 1, end' - 1) = given.means
<1>1. k = Len(given.pieces) /\ given.means = FlattenSeq(Meanings(given.pieces))
  BY NextQuote
<1>2. HasPrefixes(H, Meanings(given.pieces)) /\ k = Len(Meanings(given.pieces)) /\ k \in Nat
  BY <1>1, PrefixAt DEF IsRead
<1>3. PICK all \in Seq(Byte) : all = given.means /\ all = H[k]
  <2>1. H[k] = FlattenSeq(Meanings(given.pieces))
    BY <1>2 DEF HasPrefixes
  <2>2. k \in 0..Len(Meanings(given.pieces))
    BY <1>2
  <2> QED BY <1>1, <1>2, <2>1, <2>2, PrefixAt
<1>4. PICK e \in Nat : e = Len(all) /\ end = e + 1
  BY <1>3 DEF Reached
<1>5. \A j \in 1..e : text[j] = all[j]
  BY <1>3, <1>4 DEF Reached, Begins
<1>6. /\ text \in Seq(Byte) /\ q \in 1..Len(text) /\ q > e /\ p \in Nat \ {0} /\ end <= p
  BY <1>4 DEF StringTypes
<1>7. text' \in Seq(Byte) /\ Len(text') = Len(text) /\ \A j \in 1..e : text'[j] = text[j]
  <2>1. 0 \in Byte
    BY DEF Byte
  <2>2. text' \in [1..Len(text) -> Byte]
    BY <1>6, <2>1
  <2> QED BY <1>6, <2>2
<1>8. SubSeq(text', 1, e) = all
  <2>1. e <= Len(text')
    BY <1>4, <1>6, <1>7
  <2>2. PICK x : x = SubSeq(text', 1, e)
    OBVIOUS
  <2>3. x \in Seq(Byte) /\ Len(x) = e /\ \A j \in 1..e : x[j] = text'[j]
    BY <1>7, <2>1, <2>2
  <2>4. x = all
    BY <1>4, <1>5, <1>7, <2>3, SMTT(30)
  <2> QED BY <2>2, <2>4
<1>9. StringTypes'
  BY <1>6, <1>7 DEF StringTypes
<1>10. end' - 1 = e
  BY <1>4
<1> QED BY <1>3, <1>8, <1>9, <1>10

LEMMA StringStarts == JsonTextInit => StringInv
<1> SUFFICES ASSUME JsonTextInit PROVE StringInv
  OBVIOUS
<1>1. /\ given \in StringTexts \cup NumberTexts /\ text = given.bytes /\ p = 1 /\ end = 1
      /\ at = IF IsString(given) THEN "fast" ELSE "number"
  BY DEF JsonTextInit
<1>2. CASE IsString(given)
  <2>1. given \in StringTexts
    BY <1>1, <1>2, TextAssumption
  <2>2. given.bytes \in Seq(Byte) /\ IsSpelt(given)
    <3>1. PICK e \in Seq(Byte) : e = given.ending
      BY <2>1, GivenString
    <3>2. PICK J : HasPrefixes(J, given.pieces)
      BY <2>1, ReadExists DEF IsRead
    <3>3. PICK all \in Seq(Byte) : all = FlattenSeq(given.pieces)
      <4>1. 0 \in 0..Len(given.pieces)
        BY <3>2, PrefixAt
      <4> QED BY <3>2, <4>1, PrefixOfAll
    <3>4. given.bytes = all \o e
      BY <2>1, <3>1, <3>3, GivenString
    <3> QED BY <2>1, <3>4, GivenString, Joined
  <2>3. StringTypes
    BY <1>1, <2>1, <2>2 DEF StringTypes
  <2>4. PICK J, H : IsRead(J, H) /\ J[0] = <<>> /\ H[0] = <<>>
    BY <2>1, ReadExists
  <2>5. Reached(J, H, 0)
    <3>1. 0 \in 0..Len(given.pieces)
      BY <2>4, PrefixAt DEF IsRead
    <3>2. Len(<<>>) = 0
      OBVIOUS
    <3>3. Begins(<<>>, text)
      BY <1>1, <2>2 DEF Begins
    <3> QED BY <1>1, <2>4, <3>1, <3>2, <3>3 DEF Reached, Unread
  <2> QED BY <1>1, <1>2, <2>3, <2>4, <2>5 DEF StringInv
<1>3. CASE ~IsString(given)
  BY <1>1, <1>3 DEF StringInv
<1> QED BY <1>2, <1>3

(* One step of a string                                                       *)
LEMMA StringTaking ==
  ASSUME IsString(given), StringInv, NEW J, NEW H, NEW k, IsRead(J, H), Reached(J, H, k),
         NEW n \in 1..12, Takes(n), at \in {"fast", "slow"}, at = "fast" => end' = p'
  PROVE  StringInv'
<1>1. StringTypes /\ given \in StringTexts
  BY DEF StringInv, StringTypes
<1>2. given' = given /\ at' = at
  BY DEF Takes, Decode, Stays
<1>3. StringTypes' /\ \E m : Reached(J, H, m)'
  BY <1>1, TakingStep
<1>4. IsRead(J, H)'
  BY <1>2 DEF IsRead
<1> QED BY <1>1, <1>2, <1>3, <1>4 DEF StringInv

LEMMA StringRefusing ==
  ASSUME IsString(given), StringInv, NEW J, NEW H, NEW k, IsRead(J, H), Reached(J, H, k),
         FailText, NoPiece
  PROVE  StringInv'
<1>1. StringTypes /\ given \in StringTexts
  BY DEF StringInv, StringTypes
<1>2. UNCHANGED <<given, text, p, end>> /\ at' = "refused"
  BY DEF FailText, Stays
<1>3. given.means = Refused
  BY <1>1, NextNeither
<1>4. StringTypes'
  BY <1>1, <1>2 DEF StringTypes
<1> QED BY <1>1, <1>2, <1>3, <1>4 DEF StringInv

LEMMA StringStep ==
  ASSUME IsString(given), StringInv, JsonTextNext
  PROVE  StringInv'
<1>1. /\ StringTypes /\ given \in StringTexts /\ at \in {"fast", "slow", "decoded", "refused"}
      /\ text \in Seq(Byte) /\ p \in Nat \ {0} /\ end \in Nat \ {0}
  BY DEF StringInv, StringTypes
<1>2. at \in {"fast", "slow"}
  BY <1>1 DEF JsonTextNext, PlainByte, FoundQuote, FoundOther, SlowQuote, SlowEscape, SlowByte,
       EndOfString, NumberSign, FirstDigit, WholeDigit, Point, FractionDigit, Exponent,
       ExponentSign, ExponentDigit
<1>3. PICK J, H, k : IsRead(J, H) /\ Reached(J, H, k) /\ (at = "fast" => end = p)
  BY <1>2 DEF StringInv
<1>4. ASSUME TakesOrRefuses, at = "slow" PROVE StringInv'
  <2>1. CASE \E n \in 1..12 : Takes(n)
    BY <1>3, <1>4, <2>1, StringTaking
  <2>2. CASE FailText /\ NoPiece
    BY <1>3, <2>2, StringRefusing
  <2> QED BY <1>4, <2>1, <2>2 DEF TakesOrRefuses
<1>5. ASSUME p <= Len(text), text[p] = 34, NEW q \in {p, end}, text' = [text EXCEPT ![q] = 0],
             p' = p + 1, end' = end, UNCHANGED given, at' = "decoded"
      PROVE  StringInv'
  <2>1. StringTypes' /\ SubSeq(text', 1, end' - 1) = given.means
    BY <1>1, <1>3, <1>5, DecodedHere
  <2> QED BY <1>1, <1>5, <2>1 DEF StringInv
<1>6. CASE PlainByte
  <2>1. at = "fast" /\ end = p
    BY <1>3, <1>6 DEF PlainByte
  <2>2. Takes(1) /\ end' = p'
    BY <1>1, <1>6, <2>1, PlainStep
  <2> QED BY <1>3, <2>1, <2>2, StringTaking
<1>7. CASE FoundQuote
  BY <1>1, <1>5, <1>7 DEF FoundQuote, at_eof, Stays
<1>8. CASE FoundOther
  <2>1. /\ p <= Len(text) /\ text[p] # 34 /\ ~is_plain_string_character(text[p])
        /\ at = "fast"
    BY <1>1, <1>8 DEF FoundOther, at_eof
  <2>2. CASE text[p] < 32
    <3>1. text[p] # 92 /\ text[p] \notin 128..255
      <4>1. PICK c \in Byte : c = text[p]
        BY <1>1, <2>1
      <4> QED BY <2>2, <4>1 DEF Byte
    <3>2. ASSUME NEW n \in Nat PROVE ~IsPiece(text, p, n)
      BY <2>1, <3>1 DEF IsPiece, IsUnicode
    <3> NoPiece
      BY <2>1, <3>2 DEF NoPiece
    <3>3. FailText
      BY <1>8, <2>2 DEF FoundOther
    <3> QED BY <1>3, <3>3, StringRefusing
  <2>3. CASE ~(text[p] < 32)
    <3>1. at' = "slow" /\ UNCHANGED <<text, p, end, given>>
      BY <1>8, <2>3 DEF FoundOther, Stays
    <3>2. StringTypes' /\ IsRead(J, H)' /\ Reached(J, H, k)'
      BY <1>1, <1>3, <3>1 DEF StringTypes, IsRead, Reached, Unread
    <3> QED BY <1>1, <3>1, <3>2 DEF StringInv
  <2> QED BY <2>2, <2>3
<1>9. CASE SlowQuote
  BY <1>1, <1>5, <1>9 DEF SlowQuote, at_eof, Stays
<1>10. CASE SlowEscape
  BY <1>1, <1>4, <1>10, EscapeStep DEF SlowEscape
<1>11. CASE SlowByte
  BY <1>1, <1>4, <1>11, ByteStep DEF SlowByte
<1>12. CASE EndOfString
  <2>1. FailText /\ p > Len(text)
    BY <1>12 DEF EndOfString, at_eof
  <2>2. NoPiece
    BY <1>1, <2>1 DEF NoPiece, Fits
  <2> QED BY <1>3, <2>1, <2>2, StringRefusing
<1> QED
  BY <1>2, <1>6, <1>7, <1>8, <1>9, <1>10, <1>11, <1>12
     DEF JsonTextNext, NumberSign, FirstDigit, WholeDigit, Point, FractionDigit, Exponent,
         ExponentSign, ExponentDigit

LEMMA OtherStep ==
  ASSUME ~IsString(given), StringInv, JsonTextNext
  PROVE  StringInv'
<1>1. /\ given \in StringTexts \cup NumberTexts /\ end = 1 /\ p \in Nat \ {0}
      /\ at \notin {"fast", "slow", "decoded"}
  BY DEF StringInv
<1>2. given' = given /\ end' = end /\ (p' = p \/ p' = p + 1) /\ at' \notin {"fast", "slow", "decoded"}
  <2>1. ASSUME NEW l \in {"digits", "point", "whole", "fraction_start", "fraction",
                          "exponent_sign", "exponent_start", "exponent"}, NEW n, Advance(l, n)
        PROVE  given' = given /\ end' = end /\ (p' = p \/ p' = p + 1)
               /\ at' \notin {"fast", "slow", "decoded"}
    BY <2>1 DEF Advance, FailText, Stays
  <2>2. ASSUME FailText
        PROVE  given' = given /\ end' = end /\ p' = p /\ at' \notin {"fast", "slow", "decoded"}
    BY <2>2 DEF FailText, Stays
  <2>3. ASSUME NEW n, Store(n)
        PROVE  given' = given /\ end' = end /\ p' = p /\ at' \notin {"fast", "slow", "decoded"}
    BY <2>3 DEF Store, pow10
  <2>4. CASE NumberSign
    BY <2>1, <2>4 DEF NumberSign
  <2>5. CASE FirstDigit
    BY <2>1, <2>2, <2>5 DEF FirstDigit, Stays
  <2>6. CASE WholeDigit
    BY <2>1, <2>6 DEF WholeDigit, Stays
  <2>7. CASE Point
    BY <2>1, <2>7 DEF Point, Stays
  <2>8. CASE FractionDigit
    BY <2>1, <2>2, <2>8 DEF FractionDigit, Stays
  <2>9. CASE Exponent
    BY <2>1, <2>3, <2>9 DEF Exponent
  <2>10. CASE ExponentSign
    BY <2>1, <2>10 DEF ExponentSign, Stays
  <2>11. CASE ExponentDigit
    BY <2>1, <2>2, <2>3, <2>11 DEF ExponentDigit
  <2>12. ~(PlainByte \/ FoundQuote \/ FoundOther \/ SlowQuote \/ SlowEscape \/ SlowByte \/ EndOfString)
    BY <1>1 DEF PlainByte, FoundQuote, FoundOther, SlowQuote, SlowEscape, SlowByte, EndOfString
  <2> QED
    BY <2>4, <2>5, <2>6, <2>7, <2>8, <2>9, <2>10, <2>11, <2>12 DEF JsonTextNext
<1>3. p' \in Nat \ {0}
  BY <1>1, <1>2
<1> QED BY <1>1, <1>2, <1>3 DEF StringInv

LEMMA StringSteps == StringInv /\ [JsonTextNext]_textVars => StringInv'
<1> SUFFICES ASSUME StringInv, [JsonTextNext]_textVars PROVE StringInv'
  OBVIOUS
<1>1. CASE UNCHANGED textVars
  BY <1>1 DEF StringInv, StringTypes, IsRead, Reached, Unread, textVars
<1>2. CASE JsonTextNext
  BY <1>2, StringStep, OtherStep
<1> QED BY <1>1, <1>2

(* A string is decoded where it stands, as what its pieces mean or not at all,  *)
(* by parse_string and parse_string_slow, whatever pieces it has.               *)
THEOREM StringsDecoded == JsonTextSpec => []DecodedInPlace
<1>1. StringInv => DecodedInPlace
  <2> SUFFICES ASSUME StringInv PROVE DecodedInPlace
    OBVIOUS
  <2>1. CASE IsString(given)
    <3>1. StringTypes /\ p \in Nat \ {0} /\ end <= p
      BY <2>1 DEF StringInv, StringTypes
    <3>2. ASSUME at \in {"fast", "slow"}
          PROVE  SubSeq(text, p, Len(text)) = SubSeq(given.bytes, p, Len(text))
      <4>1. Unread(p)
        BY <2>1, <3>2 DEF StringInv, Reached
      <4>2. text \in Seq(Byte) /\ given.bytes \in Seq(Byte) /\ Len(text) = Len(given.bytes)
        BY <3>1 DEF StringTypes
      <4>3. \A j \in p..Len(text) : text[j] = given.bytes[j]
        BY <4>1 DEF Unread
      <4> QED BY <3>1, <4>2, <4>3
    <3> QED BY <2>1, <3>1, <3>2 DEF StringInv, DecodedInPlace
  <2>2. CASE ~IsString(given)
    BY <2>2 DEF StringInv, DecodedInPlace
  <2> QED BY <2>1, <2>2
<1> QED BY <1>1, StringStarts, StringSteps, PTL DEF JsonTextSpec

-----------------------------------------------------------------------------
(* JsonText.tla: what jsonEncode writes *)

LEMMA HexReads ==
  ASSUME NEW n \in 0..15
  PROVE  Hex(n) \in Byte /\ HexDigit(Hex(n)) = n
BY DEF Hex, HexDigit, Byte

LEMMA EncodedUnicode ==
  ASSUME NEW c \in 0..31, NEW b, b = <<92, 117, 48, 48, Hex(c \div 16), Hex(c % 16)>>
  PROVE  b \in Seq(Byte) /\ Len(b) = 6 /\ IsPiece(b, 1, 6) /\ Meaning(b, 1, 6) = <<c>>
<1>1. c \div 16 \in 0..15 /\ c % 16 \in 0..15 /\ 16 * (c \div 16) + (c % 16) = c
  OBVIOUS
<1>2. PICK h \in 0..15, l \in 0..15 : h = c \div 16 /\ l = c % 16
  BY <1>1
<1>3. PICK x \in Byte, y \in Byte : x = Hex(h) /\ y = Hex(l) /\ HexDigit(x) = h /\ HexDigit(y) = l
  BY HexReads
<1>4. b = <<92, 117, 48, 48, x, y>>
  BY <1>2, <1>3
<1>5. /\ b \in Seq(Byte) /\ Len(b) = 6 /\ b[1] = 92 /\ b[1 + 1] = 117
      /\ b[1 + 2] = 48 /\ b[1 + 3] = 48 /\ b[1 + 4] = x /\ b[1 + 5] = y
  BY <1>4, SMTT(30) DEF Byte
<1>6. HexDigit(48) = 0
  BY DEF HexDigit
<1>7. \A k \in 2..5 : HexDigit(b[1 + k]) # -1
  BY <1>3, <1>5, <1>6
<1>8. IsUnicode(b, 1)
  BY <1>5, <1>7 DEF IsUnicode
<1>9. Unicode(b, 1) = c
  <2>1. Unicode(b, 1) = 4096 * 0 + 256 * 0 + 16 * h + l
    BY <1>3, <1>5, <1>6 DEF Unicode
  <2> QED BY <1>1, <1>2, <2>1
<1>10. ~Leads(c) /\ write_utf8(c) = <<c>>
  BY DEF Leads, write_utf8
<1> QED BY <1>5, <1>8, <1>9, <1>10 DEF IsPiece, Meaning

(* The encoding of a byte below 128 is a piece, and means that byte           *)
LEMMA EncodedByte ==
  ASSUME NEW c \in 0..127, NEW b, b = JsonEncodeMapping(c)
  PROVE  /\ b \in Seq(Byte) /\ IsPiece(b, 1, Len(b)) /\ Meaning(b, 1, Len(b)) = <<c>>
         /\ Len(b) = 1 => b = <<c>>
<1>1. CASE c \in {8, 9, 10, 12, 13, 34, 92}
  <2>1. PICK x \in DOMAIN Replacements : b = <<92, x>> /\ Replacements[x] = c
    <3>1. CASE c = 8
      <4>1. b = <<92, 98>> /\ 98 \in DOMAIN Replacements /\ Replacements[98] = 8
        BY <3>1 DEF JsonEncodeMapping, Replacements
      <4> QED BY <3>1, <4>1
    <3>2. CASE c = 9
      <4>1. b = <<92, 116>> /\ 116 \in DOMAIN Replacements /\ Replacements[116] = 9
        BY <3>2 DEF JsonEncodeMapping, Replacements
      <4> QED BY <3>2, <4>1
    <3>3. CASE c = 10
      <4>1. b = <<92, 110>> /\ 110 \in DOMAIN Replacements /\ Replacements[110] = 10
        BY <3>3 DEF JsonEncodeMapping, Replacements
      <4> QED BY <3>3, <4>1
    <3>4. CASE c = 12
      <4>1. b = <<92, 102>> /\ 102 \in DOMAIN Replacements /\ Replacements[102] = 12
        BY <3>4 DEF JsonEncodeMapping, Replacements
      <4> QED BY <3>4, <4>1
    <3>5. CASE c = 13
      <4>1. b = <<92, 114>> /\ 114 \in DOMAIN Replacements /\ Replacements[114] = 13
        BY <3>5 DEF JsonEncodeMapping, Replacements
      <4> QED BY <3>5, <4>1
    <3>6. CASE c = 34 \/ c = 92
      <4>1. b = <<92, c>> /\ c \in DOMAIN Replacements /\ Replacements[c] = c
        BY <3>6 DEF JsonEncodeMapping, Replacements
      <4> QED BY <4>1
    <3> QED BY <1>1, <3>1, <3>2, <3>3, <3>4, <3>5, <3>6
  <2>2. x \in Byte
    BY ReplacementsAre DEF Byte
  <2>3. b \in Seq(Byte) /\ Len(b) = 2 /\ b[1] = 92 /\ b[1 + 1] = x
    BY <2>1, <2>2 DEF Byte
  <2> QED BY <2>1, <2>3 DEF IsPiece, Meaning
<1>2. CASE c \in 0..31 \ {8, 9, 10, 12, 13}
  <2>1. b = <<92, 117, 48, 48, Hex(c \div 16), Hex(c % 16)>>
    BY <1>2 DEF JsonEncodeMapping
  <2>2. b \in Seq(Byte) /\ Len(b) = 6 /\ IsPiece(b, 1, 6) /\ Meaning(b, 1, 6) = <<c>>
    BY <1>2, <2>1, EncodedUnicode
  <2> QED BY <2>2
<1>3. CASE c \in 32..127 \ {34, 92}
  <2>1. b = <<c>>
    BY <1>3 DEF JsonEncodeMapping
  <2>2. b \in Seq(Byte) /\ Len(b) = 1 /\ b[1] = c
    BY <2>1 DEF Byte
  <2>3. IsPiece(b, 1, 1)
    BY <1>3, <2>2 DEF IsPiece, is_plain_string_character
  <2>4. Meaning(b, 1, 1) = SubSeq(b, 1, 1 + 1 - 1)
    BY <1>3, <2>2 DEF Meaning
  <2>5. SubSeq(b, 1, 1 + 1 - 1) = <<c>>
    <3>1. PICK x : x = SubSeq(b, 1, 1 + 1 - 1)
      OBVIOUS
    <3>2. x \in Seq(Byte) /\ Len(x) = 1 /\ x[1] = c
      BY <2>2, <3>1
    <3>3. x = <<c>>
      BY <3>2
    <3> QED BY <3>1, <3>3
  <2> QED BY <2>1, <2>2, <2>3, <2>4, <2>5
<1> QED BY <1>1, <1>2, <1>3

(* A sequence put together from its elements                                  *)
LEMMA FlattenOnes ==
  ASSUME NEW s \in Seq(Byte)
  PROVE  FlattenSeq([i \in 1..Len(s) |-> <<s[i]>>]) = s
<1>1. PICK n \in Nat : n = Len(s)
  OBVIOUS
<1>2. PICK ones : ones = [i \in 1..n |-> <<s[i]>>]
  OBVIOUS
<1>3. ASSUME NEW i \in 1..n PROVE <<s[i]>> \in Seq(Byte) /\ Len(<<s[i]>>) = 1 /\ <<s[i]>>[1] = s[i]
  <2>1. s[i] \in Byte
    BY <1>1
  <2> QED BY <2>1
<1>4. ones \in Seq(Seq(Byte)) /\ Len(ones) = n
  <2>1. ones \in [1..n -> Seq(Byte)]
    BY <1>2, <1>3
  <2> QED BY <2>1
<1>5. PICK f : HasPrefixes(f, ones)
  BY <1>4, PrefixesExist
<1>6. \A m \in 1..n : ones[m] \in Seq(Byte) /\ Len(ones[m]) = 1 /\ ones[m][1] = s[m]
  BY <1>2, <1>3
<1>7. \A k \in 0..n : f[k] \in Seq(Byte)
  BY <1>4, <1>5, PrefixAt
<1>8. PICK S : S = {k \in 0..n : Len(f[k]) = k}
  OBVIOUS
<1>9. 0 \in S
  <2>1. f[0] = <<>>
    BY <1>5 DEF HasPrefixes, Joins
  <2> QED BY <1>8, <2>1
<1>10. ASSUME NEW m \in 1..n, m - 1 \in S PROVE m \in S
  <2>1. PICK k \in 0..n : k = m - 1
    OBVIOUS
  <2>2. IsJoin(f[m], f[k], ones[m])
    BY <1>4, <1>5, <2>1, NextPrefix
  <2>3. Len(f[m]) = Len(f[k]) + Len(ones[m])
    BY <2>2 DEF IsJoin
  <2>4. Len(f[k]) = k
    BY <1>8, <1>10, <2>1
  <2>5. Len(ones[m]) = 1
    BY <1>6
  <2>6. Len(f[m]) = m
    BY <2>1, <2>3, <2>4, <2>5
  <2> QED BY <1>8, <2>6
<1>11. \A k \in 0..n : Len(f[k]) = k
  <2>1. 0..n \subseteq S
    BY <1>9, <1>10, UpTo
  <2> QED BY <1>8, <2>1
<1>12. PICK all \in Seq(Byte) : all = FlattenSeq(ones) /\ all = f[n]
  <2>1. f[n] = FlattenSeq(ones)
    BY <1>4, <1>5 DEF HasPrefixes
  <2> QED BY <1>7, <2>1
<1>13. ASSUME NEW m \in 1..n PROVE all[m] = s[m]
  <2>1. PICK k \in 0..n : k = m - 1
    OBVIOUS
  <2>2. IsJoin(f[m], f[k], ones[m])
    BY <1>4, <1>5, <2>1, NextPrefix
  <2>3. f[m][Len(f[k]) + 1] = ones[m][1]
    BY <1>6, <2>2 DEF IsJoin
  <2>4. f[m][m] = s[m]
    BY <1>6, <1>11, <2>1, <2>3, SMTT(30)
  <2>5. Begins(f[m], all)
    <3>1. m \in 0..Len(ones)
      BY <1>4
    <3> QED BY <1>4, <1>5, <1>12, <3>1, PrefixOfAll
  <2>6. all[m] = f[m][m]
    BY <1>11, <2>5 DEF Begins
  <2> QED BY <2>4, <2>6
<1>14. Len(all) = n
  BY <1>11, <1>12
<1>15. all = s
  BY <1>1, <1>13, <1>14
<1> QED BY <1>1, <1>2, <1>12, <1>15

(* What jsonEncode writes for bytes below 128 is a string that means them: by   *)
(* StringsDecoded, parse_string reads back what was encoded.                    *)
THEOREM EncodedIsSpelt ==
  ASSUME NEW s \in Seq(0..127)
  PROVE  IsSpelt([pieces |-> [i \in 1..Len(s) |-> JsonEncodeMapping(s[i])], ending |-> <<34>>,
                  bytes |-> jsonEncode(s) \o <<34>>, means |-> s])
<1>1. PICK n \in Nat : n = Len(s)
  OBVIOUS
<1>2. PICK m : m = [i \in 1..n |-> JsonEncodeMapping(s[i])]
  OBVIOUS
<1>3. ASSUME NEW i \in 1..n
      PROVE  /\ m[i] = JsonEncodeMapping(s[i])
             /\ m[i] \in Seq(Byte) /\ IsPiece(m[i], 1, Len(m[i])) /\ Meaning(m[i], 1, Len(m[i])) = <<s[i]>>
             /\ Len(m[i]) = 1 => m[i] = <<s[i]>>
  <2>1. s[i] \in 0..127
    BY <1>1
  <2>2. m[i] = JsonEncodeMapping(s[i])
    BY <1>2
  <2> QED BY <2>1, <2>2, EncodedByte
<1>4. m \in Seq(Seq(Byte)) /\ Len(m) = n
  <2>1. m \in [1..n -> Seq(Byte)]
    BY <1>2, <1>3
  <2> QED BY <2>1
<1>5. s \in Seq(Byte)
  <2>1. \A i \in 1..n : s[i] \in Byte
    BY <1>1 DEF Byte
  <2>2. s \in Seq(0..127) /\ DOMAIN s = 1..n
    BY <1>1
  <2>3. s = [i \in 1..n |-> s[i]]
    BY <2>2
  <2>4. s \in [1..n -> Byte]
    BY <2>1, <2>3
  <2> QED BY <1>1, <2>4
<1>6. PICK ones : ones = [i \in 1..n |-> <<s[i]>>]
  OBVIOUS
<1>7. FlattenSeq(ones) = s
  BY <1>1, <1>5, <1>6, FlattenOnes
<1>8. Meanings(m) = ones
  BY <1>3, <1>4, <1>6 DEF Meanings
<1>9. jsonEncode(s) = FlattenSeq(m)
  <2>1. CASE \A i \in 1..n : Len(m[i]) = 1
    <3>1. m = ones
      BY <1>2, <1>3, <1>6, <2>1
    <3>2. jsonEncode(s) = s
      BY <1>1, <1>3, <2>1 DEF jsonEncode
    <3> QED BY <1>7, <3>1, <3>2
  <2>2. CASE ~(\A i \in 1..n : Len(m[i]) = 1)
    <3>1. PICK w : w = [i \in 1..n |-> IF Len(JsonEncodeMapping(s[i])) = 1 THEN <<s[i]>>
                                       ELSE JsonEncodeMapping(s[i])]
      OBVIOUS
    <3>2. w = m
      BY <1>2, <1>3, <3>1
    <3>3. jsonEncode(s) = FlattenSeq(w)
      BY <1>1, <1>3, <2>2, <3>1 DEF jsonEncode
    <3> QED BY <3>2, <3>3
  <2> QED BY <2>1, <2>2
<1>10. <<34>> \in Seq(Byte)
  BY DEF Byte
<1>11. PICK t : t = [pieces |-> m, ending |-> <<34>>, bytes |-> jsonEncode(s) \o <<34>>, means |-> s]
  OBVIOUS
<1>12. /\ t.pieces = m /\ t.ending = <<34>> /\ t.means = s
       /\ t.bytes = FlattenSeq(m) \o <<34>>
  BY <1>9, <1>11
<1>13. IsSpelt(t)
  BY <1>3, <1>4, <1>7, <1>8, <1>10, <1>12 DEF IsSpelt, Byte
<1> QED BY <1>1, <1>2, <1>11, <1>13

-----------------------------------------------------------------------------
(* JsonText.tla: what a prefix of a sequence of digits stands for *)

ValueOfFirst(k, s) == Decimal(SubSeq(s, 1, k))

\* f has the values of the prefixes of s.
Values(f, s) ==
  /\ f \in [0..Len(s) -> Nat] /\ f[0] = 0
  /\ \A i \in 1..Len(s) : f[i] = 10 * f[i - 1] + (s[i] - 48)

LEMMA DecimalByDigits ==
  ASSUME NEW s \in Seq(Digits)
  PROVE  \E f : Values(f, s) /\ Decimal(s) = f[Len(s)]
<1>1. PICK n \in Nat : n = Len(s)
  OBVIOUS
<1>2. \A i \in 1..n : s[i] - 48 \in 0..9
  BY <1>1 DEF Digits
<1>3. PICK step : step = [x \in Nat \X (1..n) |-> 10 * x[1] + (s[x[2]] - 48)]
  OBVIOUS
<1>4. step \in [Nat \X (1..n) -> Nat]
  <2>1. \A x \in Nat \X (1..n) : 10 * x[1] + (s[x[2]] - 48) \in Nat
    <3> SUFFICES ASSUME NEW v \in Nat, NEW i \in 1..n PROVE 10 * v + (s[i] - 48) \in Nat
      OBVIOUS
    <3>1. PICK c \in 0..9 : c = s[i] - 48
      BY <1>2
    <3> QED BY <3>1, SMTT(30)
  <2> QED BY <1>3, <2>1
<1>5. PICK f : Iterates(f, n, Nat, 0, step)
  BY <1>4, Iteration
<1>6. ASSUME NEW i \in 1..n PROVE f[i] = 10 * f[i - 1] + (s[i] - 48)
  <2>1. <<f[i - 1], i>> \in Nat \X (1..n)
    BY <1>5 DEF Iterates
  <2>2. step[<<f[i - 1], i>>] = 10 * f[i - 1] + (s[i] - 48)
    BY <1>3, <2>1
  <2> QED BY <1>5, <2>2 DEF Iterates
<1> DEFINE Recurs(g) == g = [k \in 0..Len(s) |->
              IF k = 0 THEN 0 ELSE 10 * g[k - 1] + (s[k] - 48)]
<1>7. Recurs(f)
  BY <1>1, <1>5, <1>6 DEF Iterates
<1>8. PICK g : g = CHOOSE x : Recurs(x)
  OBVIOUS
<1>9. Recurs(g)
  <2> HIDE DEF Recurs
  <2> QED BY <1>7, <1>8
<1>10. Decimal(s) = g[n]
  BY <1>1, <1>8 DEF Decimal
<1>11. /\ g = [k \in 0..n |-> g[k]] /\ g[0] = 0
       /\ \A k \in 1..n : g[k] = 10 * g[k - 1] + (s[k] - 48)
  BY <1>1, <1>9
<1>12. \A k \in 0..n : g[k] \in Nat
  <2>1. ASSUME NEW k \in 1..n, g[k - 1] \in Nat PROVE g[k] \in Nat
    <3>1. PICK c \in 0..9 : c = s[k] - 48
      BY <1>2
    <3>2. PICK v \in Nat : v = g[k - 1]
      BY <2>1
    <3>3. g[k] = 10 * v + c
      BY <1>11, <3>1, <3>2
    <3>4. 10 * v + c \in Nat
      OBVIOUS
    <3> QED BY <3>3, <3>4
  <2>2. g[0] \in Nat
    BY <1>11
  <2> QED BY <2>1, <2>2, KeptUpTo
<1>13. Values(g, s)
  BY <1>1, <1>11, <1>12 DEF Values
<1> QED BY <1>1, <1>10, <1>13

LEMMA PrefixTypes ==
  ASSUME NEW s \in Seq(Digits), NEW k \in 0..Len(s)
  PROVE  /\ SubSeq(s, 1, k) \in Seq(Digits) /\ Len(SubSeq(s, 1, k)) = k
         /\ \A i \in 1..k : SubSeq(s, 1, k)[i] = s[i]
<1>1. SubSeq(s, 1, k) \in Seq(Digits) /\ Len(SubSeq(s, 1, k)) = k
  BY SubSeqProperties
<1> QED BY <1>1

LEMMA PrefixFull ==
  ASSUME NEW s \in Seq(Digits)
  PROVE  SubSeq(s, 1, Len(s)) = s
<1>1. PICK n \in Nat : n = Len(s)
  OBVIOUS
<1>2. PICK w \in Seq(Digits) : w = SubSeq(s, 1, n)
  BY <1>1, PrefixTypes
<1>3. Len(w) = n /\ \A i \in 1..n : w[i] = s[i]
  BY <1>1, <1>2, PrefixTypes
<1> QED BY <1>1, <1>2, <1>3

\* The values of a prefix are those of the whole.
LEMMA ValueByDigit ==
  ASSUME NEW s \in Seq(Digits)
  PROVE  \E f : Values(f, s) /\ \A k \in 0..Len(s) : ValueOfFirst(k, s) = f[k]
<1>1. PICK f : Values(f, s)
  BY DecimalByDigits
<1>2. ASSUME NEW k \in 0..Len(s) PROVE ValueOfFirst(k, s) = f[k]
  <2>1. PICK t \in Seq(Digits) : t = SubSeq(s, 1, k)
    BY PrefixTypes
  <2>2. Len(t) = k /\ \A i \in 1..k : t[i] = s[i]
    BY <2>1, PrefixTypes
  <2>3. PICK g : Values(g, t) /\ Decimal(t) = g[Len(t)]
    BY DecimalByDigits
  <2>4. PICK Agree : Agree = {i \in 0..k : f[i] = g[i]}
    OBVIOUS
  <2>5. 0 \in Agree
    BY <1>1, <2>3, <2>4 DEF Values
  <2>6. ASSUME NEW i \in 1..k, i - 1 \in Agree PROVE i \in Agree
    <3>1. f[i] = 10 * f[i - 1] + (s[i] - 48) /\ g[i] = 10 * g[i - 1] + (t[i] - 48)
      BY <1>1, <2>2, <2>3, SMTT(30) DEF Values
    <3>2. f[i - 1] = g[i - 1] /\ s[i] = t[i]
      BY <2>2, <2>4, <2>6
    <3> QED BY <2>4, <3>1, <3>2
  <2>7. k \in Agree
    <3>1. k \in Nat
      OBVIOUS
    <3>2. 0..k \subseteq Agree
      BY <2>5, <2>6, <3>1, UpTo
    <3> QED BY <3>1, <3>2
  <2> QED BY <2>1, <2>2, <2>3, <2>4, <2>7 DEF ValueOfFirst
<1> QED BY <1>1, <1>2

LEMMA ValueGrows ==
  ASSUME NEW s \in Seq(Digits)
  PROVE  /\ \A k \in 0..Len(s) : ValueOfFirst(k, s) \in Nat
         /\ ValueOfFirst(0, s) = 0
         /\ \A k \in 1..Len(s) :
              ValueOfFirst(k, s) = 10 * ValueOfFirst(k - 1, s) + (s[k] - 48)
<1>1. PICK f : Values(f, s) /\ \A k \in 0..Len(s) : ValueOfFirst(k, s) = f[k]
  BY ValueByDigit
<1>2. \A k \in 0..Len(s) : f[k] \in Nat
  BY <1>1 DEF Values
<1>3. f[0] = 0 /\ \A k \in 1..Len(s) : f[k] = 10 * f[k - 1] + (s[k] - 48)
  BY <1>1 DEF Values
<1>4. ASSUME NEW k \in 1..Len(s)
      PROVE  ValueOfFirst(k, s) = f[k] /\ ValueOfFirst(k - 1, s) = f[k - 1]
  BY <1>1
<1> QED BY <1>1, <1>2, <1>3, <1>4

LEMMA ValueOfAll ==
  ASSUME NEW s \in Seq(Digits), NEW t \in Seq(Digits)
  PROVE  /\ s \o t \in Seq(Digits) /\ Len(s \o t) = Len(s) + Len(t)
         /\ \A i \in 1..Len(s) : (s \o t)[i] = s[i]
         /\ \A i \in 1..Len(t) : (s \o t)[Len(s) + i] = t[i]
         /\ ValueOfFirst(Len(s), s \o t) = Decimal(s)
         /\ ValueOfFirst(Len(s) + Len(t), s \o t) = Decimal(s \o t)
<1>1. PICK all \in Seq(Digits) : all = s \o t
  BY ConcatProperties
<1>2. Len(all) = Len(s) + Len(t)
  BY <1>1
<1>3. \A i \in 1..Len(s) : all[i] = s[i]
  BY <1>1
<1>4. \A i \in 1..Len(t) : all[Len(s) + i] = t[i]
  BY <1>1
<1>5. PICK m \in 0..Len(all) : m = Len(s)
  BY <1>2
<1>6. PICK u \in Seq(Digits) : u = SubSeq(all, 1, m)
  BY PrefixTypes
<1>7. u = s
  <2>1. Len(u) = m /\ \A i \in 1..m : u[i] = all[i]
    BY <1>6, PrefixTypes
  <2>2. Len(u) = Len(s) /\ \A i \in 1..Len(s) : u[i] = s[i]
    BY <1>3, <1>5, <2>1
  <2> QED BY <2>2
<1>8. PICK w \in Seq(Digits) : w = SubSeq(all, 1, Len(all))
  BY <1>2, PrefixTypes
<1>9. w = all
  <2>1. PICK n \in Nat : n = Len(all)
    OBVIOUS
  <2>2. Len(w) = n /\ \A i \in 1..n : w[i] = all[i]
    BY <1>8, <2>1, PrefixTypes
  <2> QED BY <2>1, <2>2
<1> QED BY <1>1, <1>2, <1>3, <1>4, <1>5, <1>6, <1>7, <1>8, <1>9 DEF ValueOfFirst

-----------------------------------------------------------------------------
\* Where the parts of a numeral are
SignSize(t) == IF t.negative THEN 1 ELSE 0
AfterWhole(t) == SignSize(t) + Len(t.whole)
AfterFraction(t) == AfterWhole(t) + (IF t.fraction = <<>> THEN 0 ELSE 1 + Len(t.fraction))
AfterSign(t) == AfterFraction(t) + 1 + Len(t.sign)

LaidOut(t, b) ==
  /\ t.negative => b[1] = 45
  /\ \A k \in 1..Len(t.whole) : b[SignSize(t) + k] = t.whole[k]
  /\ t.fraction # <<>> =>
       /\ b[AfterWhole(t) + 1] = 46
       /\ \A k \in 1..Len(t.fraction) : b[AfterWhole(t) + 1 + k] = t.fraction[k]
  /\ t.power = <<>> =>
       /\ b[AfterFraction(t) + 1] = t.last
       /\ Len(b) = AfterFraction(t) + 1
  /\ t.power # <<>> =>
       /\ b[AfterFraction(t) + 1] = t.mark
       /\ t.sign # <<>> => b[AfterFraction(t) + 2] = t.sign[1]
       /\ \A k \in 1..Len(t.power) : b[AfterSign(t) + k] = t.power[k]
       /\ b[AfterSign(t) + Len(t.power) + 1] = t.last
       /\ Len(b) = AfterSign(t) + Len(t.power) + 1

LEMMA Widen ==
  ASSUME NEW s \in Seq(Digits)
  PROVE  s \in Seq(Int)
<1>1. PICK n \in Nat : n = Len(s)
  OBVIOUS
<1>2. s \in [1..n -> Digits]
  BY <1>1
<1>3. s \in [1..n -> Int]
  BY <1>2 DEF Digits
<1> QED BY <1>3

\* u is s followed by t.
IntJoin(u, s, t) == u \in Seq(Int) /\ IsJoin(u, s, t)

LEMMA IntJoined ==
  ASSUME NEW s \in Seq(Int), NEW t \in Seq(Int)
  PROVE  IntJoin(s \o t, s, t)
BY Joined DEF IntJoin

\* The byte c stands alone.
LEMMA OneByte ==
  ASSUME NEW c \in Int
  PROVE  <<c>> \in Seq(Int) /\ Len(<<c>>) = 1 /\ <<c>>[1] = c
OBVIOUS

LEMMA NumeralParts ==
  ASSUME NEW t, IsNumeral(t)
  PROVE  /\ t.whole \in Seq(Int) /\ t.fraction \in Seq(Int) /\ t.power \in Seq(Int)
         /\ t.mark \in Int /\ t.last \in Int /\ t.sign \in Seq(Int)
         /\ Len(t.whole) \in Nat \ {0} /\ Len(t.fraction) \in Nat /\ Len(t.power) \in Nat
         /\ t.sign = <<>> => Len(t.sign) = 0
         /\ t.sign # <<>> => Len(t.sign) = 1
         /\ t.fraction = <<>> => Len(t.fraction) = 0
         /\ t.fraction # <<>> => Len(t.fraction) > 0
         /\ t.power = <<>> => Len(t.power) = 0
         /\ t.power # <<>> => Len(t.power) > 0
<1>1. t.whole \in Seq(Int) /\ t.fraction \in Seq(Int) /\ t.power \in Seq(Int)
  BY Widen DEF IsNumeral
<1>2. t.mark \in Int /\ t.last \in Int
  <2>1. t.mark \in {69, 101} /\ t.last \in 0..255
    BY DEF IsNumeral
  <2> QED BY <2>1
<1>3. <<>> \in Seq(Int) /\ <<43>> \in Seq(Int) /\ <<45>> \in Seq(Int)
      /\ Len(<<>>) = 0 /\ Len(<<43>>) = 1 /\ Len(<<45>>) = 1
  OBVIOUS
<1>4. t.sign \in {<<>>, <<43>>, <<45>>}
  BY DEF IsNumeral
<1>5. t.sign \in Seq(Int) /\ (t.sign = <<>> => Len(t.sign) = 0) /\ (t.sign # <<>> => Len(t.sign) = 1)
  BY <1>3, <1>4
<1>6. t.whole # <<>>
  BY DEF IsNumeral
<1>7. ASSUME NEW s \in Seq(Int)
      PROVE  Len(s) \in Nat /\ (s = <<>> => Len(s) = 0) /\ (s # <<>> => Len(s) \in Nat \ {0})
  OBVIOUS
<1>8. /\ Len(t.whole) \in Nat \ {0} /\ Len(t.fraction) \in Nat /\ Len(t.power) \in Nat
      /\ t.fraction = <<>> => Len(t.fraction) = 0
      /\ t.fraction # <<>> => Len(t.fraction) > 0
      /\ t.power = <<>> => Len(t.power) = 0
      /\ t.power # <<>> => Len(t.power) > 0
  BY <1>1, <1>6, <1>7
<1> QED BY <1>1, <1>2, <1>5, <1>8

LEMMA Places ==
  ASSUME NEW t, IsNumeral(t)
  PROVE  /\ SignSize(t) \in {0, 1} /\ (t.negative <=> SignSize(t) = 1)
         /\ AfterWhole(t) = SignSize(t) + Len(t.whole)
         /\ t.fraction = <<>> => AfterFraction(t) = AfterWhole(t)
         /\ t.fraction # <<>> => AfterFraction(t) = AfterWhole(t) + 1 + Len(t.fraction)
         /\ AfterSign(t) = AfterFraction(t) + 1 + Len(t.sign)
         /\ AfterWhole(t) \in Nat /\ AfterFraction(t) \in Nat /\ AfterSign(t) \in Nat
<1>1. SignSize(t) \in {0, 1} /\ (t.negative <=> SignSize(t) = 1)
  BY DEF SignSize
<1>2. AfterWhole(t) = SignSize(t) + Len(t.whole) /\ AfterWhole(t) \in Nat
  BY <1>1, NumeralParts DEF AfterWhole
<1>3. /\ t.fraction = <<>> => AfterFraction(t) = AfterWhole(t)
      /\ t.fraction # <<>> => AfterFraction(t) = AfterWhole(t) + 1 + Len(t.fraction)
      /\ AfterFraction(t) \in Nat
  <2>1. PICK w \in Nat : w = AfterWhole(t)
    BY <1>2
  <2>2. PICK f \in Nat : f = Len(t.fraction)
    BY NumeralParts
  <2> QED BY <2>1, <2>2, SMTT(30) DEF AfterFraction
<1>4. AfterSign(t) = AfterFraction(t) + 1 + Len(t.sign) /\ AfterSign(t) \in Nat
  <2>1. Len(t.sign) \in {0, 1}
    BY NumeralParts
  <2> QED BY <1>3, <2>1 DEF AfterSign
<1> QED BY <1>1, <1>2, <1>3, <1>4

\* The parts, one after another
LEMMA PartsJoined ==
  ASSUME NEW t, IsNumeral(t)
  PROVE  \E sgn, frac, pow, a, b, c, l :
           /\ sgn \in Seq(Int) /\ Len(sgn) = SignSize(t) /\ (t.negative => sgn[1] = 45)
           /\ t.fraction = <<>> => Len(frac) = 0
           /\ t.fraction # <<>> => \E point : IntJoin(frac, point, t.fraction)
                                              /\ Len(point) = 1 /\ point[1] = 46
           /\ t.power = <<>> => Len(pow) = 0
           /\ t.power # <<>> => \E m, ms : /\ IntJoin(ms, m, t.sign) /\ IntJoin(pow, ms, t.power)
                                           /\ Len(m) = 1 /\ m[1] = t.mark
           /\ IntJoin(a, sgn, t.whole) /\ IntJoin(b, a, frac) /\ IntJoin(c, b, pow)
           /\ Len(l) = 1 /\ l[1] = t.last /\ IntJoin(t.bytes, c, l)
<1> USE NumeralParts
<1>1. PICK sgn : sgn = IF t.negative THEN <<45>> ELSE <<>>
  OBVIOUS
<1>2. sgn \in Seq(Int) /\ Len(sgn) = SignSize(t) /\ (t.negative => sgn[1] = 45)
  <2>1. CASE t.negative
    BY <1>1, <2>1, OneByte DEF SignSize
  <2>2. CASE ~t.negative
    BY <1>1, <2>2 DEF SignSize
  <2> QED BY <2>1, <2>2
<1>3. PICK frac : frac = IF t.fraction = <<>> THEN <<>> ELSE <<46>> \o t.fraction
  OBVIOUS
<1>4. /\ frac \in Seq(Int) /\ (t.fraction = <<>> => Len(frac) = 0)
      /\ t.fraction # <<>> => \E point : IntJoin(frac, point, t.fraction)
                                         /\ Len(point) = 1 /\ point[1] = 46
  <2>1. CASE t.fraction = <<>>
    BY <1>3, <2>1
  <2>2. CASE t.fraction # <<>>
    <3>1. PICK point : point = <<46>>
      OBVIOUS
    <3>2. point \in Seq(Int) /\ Len(point) = 1 /\ point[1] = 46
      BY <3>1, OneByte
    <3>3. frac = point \o t.fraction
      BY <1>3, <2>2, <3>1
    <3>4. IntJoin(frac, point, t.fraction)
      BY <3>2, <3>3, IntJoined
    <3> QED BY <2>2, <3>2, <3>4 DEF IntJoin, IsJoin
  <2> QED BY <2>1, <2>2
<1>5. PICK pow : pow = IF t.power = <<>> THEN <<>> ELSE <<t.mark>> \o t.sign \o t.power
  OBVIOUS
<1>6. /\ pow \in Seq(Int) /\ (t.power = <<>> => Len(pow) = 0)
      /\ t.power # <<>> => \E m, ms : /\ IntJoin(ms, m, t.sign) /\ IntJoin(pow, ms, t.power)
                                      /\ Len(m) = 1 /\ m[1] = t.mark
  <2>1. CASE t.power = <<>>
    BY <1>5, <2>1
  <2>2. CASE t.power # <<>>
    <3>1. PICK m : m = <<t.mark>>
      OBVIOUS
    <3>2. m \in Seq(Int) /\ Len(m) = 1 /\ m[1] = t.mark
      BY <3>1, OneByte
    <3>3. PICK ms : ms = m \o t.sign
      OBVIOUS
    <3>4. IntJoin(ms, m, t.sign)
      BY <3>2, <3>3, IntJoined
    <3>5. pow = ms \o t.power
      BY <1>5, <2>2, <3>1, <3>3
    <3>6. ms \in Seq(Int)
      BY <3>4 DEF IntJoin, IsJoin
    <3>7. IntJoin(pow, ms, t.power)
      BY <3>5, <3>6, IntJoined
    <3>8. pow \in Seq(Int)
      BY <3>7 DEF IntJoin, IsJoin
    <3> QED BY <2>2, <3>2, <3>4, <3>7, <3>8
  <2> QED BY <2>1, <2>2
<1>7. t.bytes = (((sgn \o t.whole) \o frac) \o pow) \o <<t.last>>
  BY <1>1, <1>3, <1>5 DEF IsNumeral, Spelt
<1>8. PICK a : a = sgn \o t.whole
  OBVIOUS
<1>9. IntJoin(a, sgn, t.whole)
  BY <1>2, <1>8, IntJoined
<1>10. PICK b : b = a \o frac
  OBVIOUS
<1>11. IntJoin(b, a, frac)
  <2>1. a \in Seq(Int)
    BY <1>9 DEF IntJoin, IsJoin
  <2> QED BY <1>4, <1>10, <2>1, IntJoined
<1>12. PICK c : c = b \o pow
  OBVIOUS
<1>13. IntJoin(c, b, pow)
  <2>1. b \in Seq(Int)
    BY <1>11 DEF IntJoin, IsJoin
  <2> QED BY <1>6, <1>12, <2>1, IntJoined
<1>14. PICK l : l = <<t.last>>
  OBVIOUS
<1>15. l \in Seq(Int) /\ Len(l) = 1 /\ l[1] = t.last
  BY <1>14, OneByte
<1>16. t.bytes = c \o l
  BY <1>7, <1>8, <1>10, <1>12, <1>14
<1>17. IntJoin(t.bytes, c, l)
  <2>1. c \in Seq(Int)
    BY <1>13 DEF IntJoin, IsJoin
  <2> QED BY <1>15, <1>16, <2>1, IntJoined
<1> HIDE NumeralParts
<1> QED BY <1>2, <1>4, <1>6, <1>9, <1>11, <1>13, <1>15, <1>17

LEMMA NumeralLaidOut ==
  ASSUME NEW t, IsNumeral(t)
  PROVE  LaidOut(t, t.bytes)
<1>1. PICK sgn, frac, pow, a, b, c, l :
        /\ sgn \in Seq(Int) /\ Len(sgn) = SignSize(t) /\ (t.negative => sgn[1] = 45)
        /\ t.fraction = <<>> => Len(frac) = 0
        /\ t.fraction # <<>> => \E point : IntJoin(frac, point, t.fraction)
                                           /\ Len(point) = 1 /\ point[1] = 46
        /\ t.power = <<>> => Len(pow) = 0
        /\ t.power # <<>> => \E m, ms : /\ IntJoin(ms, m, t.sign) /\ IntJoin(pow, ms, t.power)
                                        /\ Len(m) = 1 /\ m[1] = t.mark
        /\ IntJoin(a, sgn, t.whole) /\ IntJoin(b, a, frac) /\ IntJoin(c, b, pow)
        /\ Len(l) = 1 /\ l[1] = t.last /\ IntJoin(t.bytes, c, l)
  BY PartsJoined
<1>2. PICK d : d = t.bytes
  OBVIOUS
<1>3. PICK n \in Nat, w \in Nat \ {0}, f \in Nat, e \in Nat, s \in Nat :
        /\ n = SignSize(t) /\ w = Len(t.whole) /\ f = Len(t.fraction)
        /\ e = Len(t.power) /\ s = Len(t.sign)
  <2>1. SignSize(t) \in Nat
    BY Places
  <2>2. Len(t.sign) \in Nat
    BY NumeralParts
  <2> QED BY <2>1, <2>2, NumeralParts
<1>4. /\ n \in {0, 1} /\ (t.negative <=> n = 1)
      /\ t.fraction = <<>> => f = 0
      /\ t.fraction # <<>> => f > 0
      /\ t.power = <<>> => e = 0
      /\ t.power # <<>> => e > 0
      /\ t.sign = <<>> => s = 0
      /\ t.sign # <<>> => s = 1
  BY <1>3, NumeralParts, Places
<1>5. PICK x \in Nat, y \in Nat, z \in Nat :
        /\ x = AfterWhole(t) /\ y = AfterFraction(t) /\ z = AfterSign(t)
        /\ x = n + w /\ (f = 0 => y = x) /\ (f # 0 => y = x + 1 + f) /\ z = y + 1 + s
  <2>1. /\ AfterWhole(t) = n + w /\ (f = 0 => AfterFraction(t) = AfterWhole(t))
        /\ f # 0 => AfterFraction(t) = AfterWhole(t) + 1 + f
        /\ AfterSign(t) = AfterFraction(t) + 1 + s
    BY <1>3, <1>4, Places
  <2> QED BY <2>1, Places
<1>6. Len(a) = x /\ (\A i \in 1..n : a[i] = sgn[i]) /\ \A k \in 1..w : a[n + k] = t.whole[k]
  BY <1>1, <1>3, <1>5 DEF IntJoin, IsJoin
<1>7. /\ f = 0 => Len(frac) = 0
      /\ f # 0 => /\ Len(frac) = 1 + f /\ frac[1] = 46
                  /\ \A k \in 1..f : frac[1 + k] = t.fraction[k]
  <2>1. CASE f = 0
    BY <1>1, <1>4, <2>1
  <2>2. CASE f # 0
    <3>1. PICK point : IntJoin(frac, point, t.fraction) /\ Len(point) = 1 /\ point[1] = 46
      BY <1>1, <1>4, <2>2
    <3>2. Len(frac) = 1 + f /\ (\A i \in 1..1 : frac[i] = point[i])
          /\ \A k \in 1..f : frac[1 + k] = t.fraction[k]
      BY <1>3, <3>1 DEF IntJoin, IsJoin
    <3> QED BY <2>2, <3>1, <3>2
  <2> QED BY <2>1, <2>2
<1>8. PICK g \in Nat : g = Len(frac)
  BY <1>7
<1>9. /\ Len(b) = y /\ (\A i \in 1..x : b[i] = a[i]) /\ \A i \in 1..g : b[x + i] = frac[i]
  <2>1. Len(b) = x + g /\ (\A i \in 1..x : b[i] = a[i]) /\ \A i \in 1..g : b[x + i] = frac[i]
    BY <1>1, <1>6, <1>8 DEF IntJoin, IsJoin
  <2>2. y = x + g
    BY <1>5, <1>7, <1>8, SMTT(30)
  <2> QED BY <2>1, <2>2
<1>10. /\ e = 0 => Len(pow) = 0
       /\ e # 0 => /\ Len(pow) = 1 + s + e /\ pow[1] = t.mark /\ (s = 1 => pow[2] = t.sign[1])
                   /\ \A k \in 1..e : pow[1 + s + k] = t.power[k]
  <2>1. CASE e = 0
    BY <1>1, <1>4, <2>1
  <2>2. CASE e # 0
    <3>1. PICK m, ms : /\ IntJoin(ms, m, t.sign) /\ IntJoin(pow, ms, t.power)
                       /\ Len(m) = 1 /\ m[1] = t.mark
      BY <1>1, <1>4, <2>2
    <3>2. Len(ms) = 1 + s /\ (\A i \in 1..1 : ms[i] = m[i]) /\ \A i \in 1..s : ms[1 + i] = t.sign[i]
      BY <1>3, <3>1 DEF IntJoin, IsJoin
    <3>3. /\ Len(pow) = 1 + s + e /\ (\A i \in 1..(1 + s) : pow[i] = ms[i])
          /\ \A k \in 1..e : pow[1 + s + k] = t.power[k]
      BY <1>3, <3>1, <3>2 DEF IntJoin, IsJoin
    <3>4. pow[1] = t.mark
      BY <3>1, <3>2, <3>3
    <3>5. s = 1 => pow[2] = t.sign[1]
      BY <3>2, <3>3
    <3> QED BY <2>2, <3>3, <3>4, <3>5
  <2> QED BY <2>1, <2>2
<1>11. PICK h \in Nat : h = Len(pow)
  BY <1>10
<1>12. Len(c) = y + h /\ (\A i \in 1..y : c[i] = b[i]) /\ \A i \in 1..h : c[y + i] = pow[i]
  BY <1>1, <1>9, <1>11 DEF IntJoin, IsJoin
<1>13. Len(d) = y + h + 1 /\ (\A i \in 1..(y + h) : d[i] = c[i]) /\ d[y + h + 1] = t.last
  <2>1. /\ Len(d) = y + h + 1 /\ (\A i \in 1..(y + h) : d[i] = c[i])
        /\ \A i \in 1..1 : d[y + h + i] = l[i]
    <3>1. IntJoin(d, c, l) /\ Len(c) = y + h /\ Len(l) = 1
      BY <1>1, <1>2, <1>12
    <3> HIDE DEF IntJoin, IsJoin
    <3>2. Len(d) = Len(c) + Len(l) /\ (\A i \in 1..Len(c) : d[i] = c[i])
          /\ \A i \in 1..Len(l) : d[Len(c) + i] = l[i]
      BY <3>1 DEF IntJoin, IsJoin
    <3> QED BY <3>1, <3>2
  <2> QED BY <1>1, <2>1
<1>14. x <= y
  BY <1>5
<1>15. \A i \in 1..y : d[i] = b[i]
  BY <1>12, <1>13
<1>16. \A i \in 1..h : d[y + i] = pow[i]
  <2> SUFFICES ASSUME NEW i \in 1..h PROVE d[y + i] = pow[i]
    OBVIOUS
  <2>1. PICK j \in 1..(y + h) : j = y + i
    OBVIOUS
  <2> QED BY <1>12, <1>13, <2>1
<1>17. \A i \in 1..x : d[i] = a[i]
  BY <1>9, <1>14, <1>15
<1>18. t.negative => d[1] = 45
  BY <1>1, <1>4, <1>5, <1>6, <1>17
<1>19. \A k \in 1..w : d[n + k] = t.whole[k]
  <2> SUFFICES ASSUME NEW k \in 1..w PROVE d[n + k] = t.whole[k]
    OBVIOUS
  <2>1. PICK j \in 1..x : j = n + k
    BY <1>5
  <2> QED BY <1>6, <1>17, <2>1
<1>20. ASSUME f # 0 PROVE d[x + 1] = 46 /\ \A k \in 1..f : d[x + 1 + k] = t.fraction[k]
  <2>1. \A i \in 1..g : d[x + i] = frac[i]
    <3> SUFFICES ASSUME NEW i \in 1..g PROVE d[x + i] = frac[i]
      OBVIOUS
    <3>1. PICK j \in 1..y : j = x + i
      BY <1>5, <1>7, <1>8, <1>20
    <3> QED BY <1>9, <1>15, <3>1
  <2>2. g = 1 + f
    BY <1>7, <1>8, <1>20
  <2>3. d[x + 1] = 46
    BY <1>7, <1>20, <2>1, <2>2
  <2>4. ASSUME NEW k \in 1..f PROVE d[x + 1 + k] = t.fraction[k]
    <3>1. PICK j \in 1..g : j = 1 + k
      BY <2>2
    <3>2. d[x + j] = frac[j] /\ frac[j] = t.fraction[k]
      BY <1>7, <1>20, <2>1, <3>1
    <3>3. x + j = x + 1 + k
      BY <3>1
    <3> QED BY <3>2, <3>3
  <2> QED BY <2>3, <2>4
<1>21. ASSUME e = 0 PROVE d[y + 1] = t.last /\ Len(d) = y + 1
  BY <1>10, <1>11, <1>13, <1>21
<1>22. ASSUME e # 0
       PROVE  /\ d[y + 1] = t.mark /\ (s = 1 => d[y + 2] = t.sign[1])
              /\ \A k \in 1..e : d[z + k] = t.power[k]
              /\ d[z + e + 1] = t.last /\ Len(d) = z + e + 1
  <2>1. h = 1 + s + e
    BY <1>10, <1>11, <1>22
  <2>2. d[y + 1] = t.mark
    BY <1>10, <1>16, <1>22, <2>1
  <2>3. s = 1 => d[y + 2] = t.sign[1]
    BY <1>10, <1>16, <1>22, <2>1
  <2>4. ASSUME NEW k \in 1..e PROVE d[z + k] = t.power[k]
    <3>1. PICK j \in 1..h : j = 1 + s + k
      BY <2>1
    <3>2. d[y + j] = pow[j] /\ pow[j] = t.power[k]
      BY <1>10, <1>16, <1>22, <3>1
    <3>3. y + j = z + k
      BY <1>5, <3>1
    <3> QED BY <3>2, <3>3
  <2>5. y + h = z + e
    BY <1>5, <2>1
  <2> QED BY <1>13, <2>2, <2>3, <2>4, <2>5
<1>23. /\ t.negative => d[1] = 45
       /\ \A k \in 1..Len(t.whole) : d[SignSize(t) + k] = t.whole[k]
  BY <1>3, <1>18, <1>19
<1>24. t.fraction # <<>> =>
         /\ d[AfterWhole(t) + 1] = 46
         /\ \A k \in 1..Len(t.fraction) : d[AfterWhole(t) + 1 + k] = t.fraction[k]
  BY <1>3, <1>4, <1>5, <1>20
<1>25. t.power = <<>> =>
         /\ d[AfterFraction(t) + 1] = t.last
         /\ Len(d) = AfterFraction(t) + 1
  BY <1>3, <1>4, <1>5, <1>21
<1>26. t.power # <<>> =>
         /\ d[AfterFraction(t) + 1] = t.mark
         /\ t.sign # <<>> => d[AfterFraction(t) + 2] = t.sign[1]
         /\ \A k \in 1..Len(t.power) : d[AfterSign(t) + k] = t.power[k]
         /\ d[AfterSign(t) + Len(t.power) + 1] = t.last
         /\ Len(d) = AfterSign(t) + Len(t.power) + 1
  <2> SUFFICES ASSUME t.power # <<>>
               PROVE  /\ d[AfterFraction(t) + 1] = t.mark
                      /\ t.sign # <<>> => d[AfterFraction(t) + 2] = t.sign[1]
                      /\ \A k \in 1..Len(t.power) : d[AfterSign(t) + k] = t.power[k]
                      /\ d[AfterSign(t) + Len(t.power) + 1] = t.last
                      /\ Len(d) = AfterSign(t) + Len(t.power) + 1
    OBVIOUS
  <2>1. e # 0
    BY <1>4
  <2>2. /\ d[y + 1] = t.mark /\ (t.sign # <<>> => d[y + 2] = t.sign[1])
        /\ \A k \in 1..e : d[z + k] = t.power[k]
        /\ d[z + e + 1] = t.last /\ Len(d) = z + e + 1
    BY <1>4, <1>22, <2>1
  <2> QED BY <1>3, <1>5, <2>2
<1> QED BY <1>2, <1>23, <1>24, <1>25, <1>26 DEF LaidOut

-----------------------------------------------------------------------------
(* What has been read of a numeral *)

NumberLocals == [negative : BOOLEAN, try_double : BOOLEAN, i : 0..INT_MAX, d : Nat,
                 exponent : Int, negativeExponent : BOOLEAN, exp : 0..INT_MAX]

AllDigits == given.whole \o given.fraction
HasRead(k) == ValueOfFirst(k, AllDigits) = IF number.try_double THEN number.d ELSE number.i
NoPowerRead == number.exp = 0 /\ number.negativeExponent = FALSE
SignRead == number.negative = given.negative
Capped(v) == IF v > INT_MAX THEN INT_MAX ELSE v

InWhole(k) ==
  /\ k \in 0..Len(given.whole) /\ p = SignSize(given) + k + 1
  /\ HasRead(k) /\ number.exponent = 0 /\ NoPowerRead /\ SignRead

InFraction(k) ==
  /\ k \in 0..Len(given.fraction) /\ p = AfterWhole(given) + 2 + k
  /\ given.fraction # <<>> /\ number.try_double /\ number.exponent + k = 0
  /\ HasRead(Len(given.whole) + k) /\ NoPowerRead /\ SignRead

DigitsRead ==
  /\ HasRead(Len(given.whole) + Len(given.fraction)) /\ SignRead
  /\ number.exponent + Len(given.fraction) = 0
  /\ given.fraction # <<>> => number.try_double

InPower(k) ==
  /\ k \in 0..Len(given.power) /\ p = AfterSign(given) + 1 + k
  /\ given.power # <<>> /\ number.try_double /\ DigitsRead
  /\ number.negativeExponent = (given.sign = <<45>>)
  /\ number.exp = Capped(ValueOfFirst(k, given.power))

Reading ==
  /\ number \in NumberLocals
  /\ \/ at = "number" /\ p = 1 /\ number = NewNumber
     \/ at = "digits" /\ given.negative /\ p = 2 /\ number = [NewNumber EXCEPT !.negative = TRUE]
     \/ at = "whole" /\ \E k \in 0..Len(given.whole) : InWhole(k)
     \/ at = "point" /\ InWhole(Len(given.whole))
     \/ at = "fraction_start" /\ InFraction(0)
     \/ at = "fraction" /\ \E k \in 0..Len(given.fraction) : InFraction(k)
     \/ at = "e" /\ p = AfterFraction(given) + 1 /\ DigitsRead /\ NoPowerRead
     \/ at = "exponent_sign" /\ p = AfterFraction(given) + 2 /\ DigitsRead /\ NoPowerRead
                             /\ given.power # <<>> /\ number.try_double
     \/ at = "exponent_start" /\ InPower(0)
     \/ at = "exponent" /\ \E k \in 0..Len(given.power) : InPower(k)

\* A number that has been read is exact.
NumberInv ==
  \/ IsString(given)
  \/ /\ given \in NumberTexts /\ text = given.bytes
     /\ Reading \/ (at \in {"integer", "double", "infinity", "zero"} /\ NumberExact)

LEMMA GivenNumeral ==
  ASSUME given \in NumberTexts
  PROVE  IsNumeral(given)
BY TextAssumption

LEMMA NumberStarts == JsonTextInit => NumberInv
<1> SUFFICES ASSUME JsonTextInit, ~IsString(given) PROVE NumberInv
  BY DEF NumberInv
<1>1. given \in NumberTexts
  BY TextAssumption DEF JsonTextInit
<1>2. NewNumber \in NumberLocals
  BY TextAssumption DEF NewNumber, NumberLocals
<1>3. Reading
  BY <1>2 DEF JsonTextInit, Reading
<1> QED BY <1>1, <1>3 DEF JsonTextInit, NumberInv

\* What the parser sees at p
LEMMA Seen ==
  ASSUME given \in NumberTexts, text = given.bytes
  PROVE  /\ IsNumeral(given) /\ LaidOut(given, text)
         /\ given.whole \in Seq(Digits) /\ given.fraction \in Seq(Digits) /\ given.power \in Seq(Digits)
         /\ AllDigits \in Seq(Digits)
         /\ Len(AllDigits) = Len(given.whole) + Len(given.fraction)
         /\ \A k \in 1..Len(given.whole) : AllDigits[k] = given.whole[k] /\ given.whole[k] \in Digits
         /\ \A k \in 1..Len(given.fraction) :
              AllDigits[Len(given.whole) + k] = given.fraction[k] /\ given.fraction[k] \in Digits
         /\ \A k \in 1..Len(given.power) : given.power[k] \in Digits
<1>1. IsNumeral(given) /\ LaidOut(given, text)
  BY GivenNumeral, NumeralLaidOut
<1>2. given.whole \in Seq(Digits) /\ given.fraction \in Seq(Digits) /\ given.power \in Seq(Digits)
  BY <1>1 DEF IsNumeral
<1>3. /\ \A k \in 1..Len(given.whole) : given.whole[k] \in Digits
      /\ \A k \in 1..Len(given.fraction) : given.fraction[k] \in Digits
      /\ \A k \in 1..Len(given.power) : given.power[k] \in Digits
  BY <1>2
<1> QED BY <1>1, <1>2, <1>3, ValueOfAll, ZenonT(30) DEF AllDigits

LEMMA SeenSign ==
  ASSUME given \in NumberTexts, text = given.bytes
  PROVE  /\ given.negative => text[1] = 45
         /\ ~given.negative => text[1] # 45
         /\ \A k \in 1..Len(given.whole) : /\ text[SignSize(given) + k] = AllDigits[k]
                                           /\ AllDigits[k] \in Digits
<1>1. \A k \in 1..Len(given.whole) : /\ text[SignSize(given) + k] = AllDigits[k]
                                     /\ AllDigits[k] \in Digits
  BY Seen DEF LaidOut
<1>2. given.negative => text[1] = 45
  BY Seen DEF LaidOut
<1>3. ~given.negative => text[1] # 45
  <2> SUFFICES ASSUME ~given.negative PROVE text[1] # 45
    OBVIOUS
  <2>1. SignSize(given) = 0
    BY DEF SignSize
  <2>2. Len(given.whole) \in Nat \ {0}
    BY Seen, NumeralParts
  <2>3. PICK c \in Digits : c = text[SignSize(given) + 1]
    BY <1>1, <2>2
  <2>4. c # 45
    BY DEF Digits
  <2> QED BY <2>1, <2>3, <2>4
<1> QED BY <1>1, <1>2, <1>3

LEMMA SeenFraction ==
  ASSUME given \in NumberTexts, text = given.bytes, given.fraction # <<>>
  PROVE  /\ text[AfterWhole(given) + 1] = 46
         /\ \A k \in 1..Len(given.fraction) :
              /\ text[AfterWhole(given) + 1 + k] = AllDigits[Len(given.whole) + k]
              /\ AllDigits[Len(given.whole) + k] \in Digits
BY Seen DEF LaidOut

LEMMA SeenMark ==
  ASSUME given \in NumberTexts, text = given.bytes
  PROVE  /\ text[AfterFraction(given) + 1] \notin Digits /\ text[AfterFraction(given) + 1] # 46
         /\ text[AfterFraction(given) + 1] \in {69, 101} <=> given.power # <<>>
<1>1. given.mark \in {69, 101} /\ given.last \notin Digits \cup {46, 69, 101}
  BY Seen DEF IsNumeral
<1>2. CASE given.power = <<>>
  BY <1>1, <1>2, Seen DEF LaidOut
<1>3. CASE given.power # <<>>
  <2>1. text[AfterFraction(given) + 1] = given.mark
    BY <1>3, Seen DEF LaidOut
  <2>2. given.mark \notin Digits /\ given.mark # 46
    BY <1>1 DEF Digits
  <2> QED BY <1>1, <1>3, <2>1, <2>2
<1> QED BY <1>2, <1>3

LEMMA SeenPower ==
  ASSUME given \in NumberTexts, text = given.bytes, given.power # <<>>
  PROVE  /\ text[AfterFraction(given) + 2] \in {43, 45} <=> given.sign # <<>>
         /\ text[AfterFraction(given) + 2] = 45 <=> given.sign = <<45>>
         /\ \A k \in 1..Len(given.power) : /\ text[AfterSign(given) + k] = given.power[k]
                                           /\ given.power[k] \in Digits
         /\ text[AfterSign(given) + Len(given.power) + 1] \notin Digits
<1>1. given.sign \in {<<>>, <<43>>, <<45>>} /\ given.last \notin Digits
  BY Seen DEF IsNumeral
<1>2. /\ \A k \in 1..Len(given.power) : text[AfterSign(given) + k] = given.power[k]
      /\ text[AfterSign(given) + Len(given.power) + 1] = given.last
      /\ given.sign # <<>> => text[AfterFraction(given) + 2] = given.sign[1]
  BY Seen DEF LaidOut
<1>3. \A k \in 1..Len(given.power) : given.power[k] \in Digits
  BY Seen
<1>4. CASE given.sign = <<>>
  <2>1. AfterSign(given) + 1 = AfterFraction(given) + 2
    <3>1. Len(given.sign) = 0 /\ AfterFraction(given) \in Nat
      BY <1>4, Seen, NumeralParts, Places
    <3> QED BY <3>1 DEF AfterSign
  <2>2. 1 \in 1..Len(given.power)
    BY Seen, NumeralParts
  <2>3. text[AfterFraction(given) + 2] \in Digits
    BY <1>2, <1>3, <2>1, <2>2
  <2>4. <<>> # <<45>>
    OBVIOUS
  <2>5. text[AfterFraction(given) + 2] \notin {43, 45}
    BY <2>3 DEF Digits
  <2> QED BY <1>1, <1>2, <1>3, <1>4, <2>4, <2>5
<1>5. CASE given.sign # <<>>
  <2>1. given.sign = <<43>> \/ given.sign = <<45>>
    BY <1>1, <1>5
  <2>2. <<43>>[1] = 43 /\ <<45>>[1] = 45
    OBVIOUS
  <2>3. text[AfterFraction(given) + 2] = given.sign[1]
    BY <1>2, <1>5
  <2>4. CASE given.sign = <<43>>
    BY <1>1, <1>2, <1>3, <1>5, <2>2, <2>3, <2>4
  <2>5. CASE given.sign = <<45>>
    BY <1>1, <1>2, <1>3, <1>5, <2>2, <2>3, <2>5
  <2> QED BY <2>1, <2>4, <2>5
<1> QED BY <1>4, <1>5

\* The sizes of the parts of a numeral: its last byte is behind them.
Sized(n, w, f, s, e, y) ==
  /\ n = SignSize(given) /\ (given.negative <=> n = 1)
  /\ w = Len(given.whole) /\ f = Len(given.fraction) /\ (given.fraction = <<>> <=> f = 0)
  /\ e = Len(given.power) /\ (given.power = <<>> <=> e = 0)
  /\ s = Len(given.sign) /\ (given.sign = <<>> <=> s = 0)
  /\ AfterWhole(given) = n + w
  /\ AfterFraction(given) = y /\ (f = 0 => y = n + w) /\ (f # 0 => y = n + w + 1 + f)
  /\ AfterSign(given) = y + 1 + s
  /\ Len(text) \in Nat
  /\ e = 0 => Len(text) = y + 1
  /\ e # 0 => Len(text) = y + s + e + 2
  /\ n + w <= y /\ y + 1 <= Len(text)

LEMMA Sizes ==
  ASSUME given \in NumberTexts, text = given.bytes
  PROVE  \E n \in {0, 1}, w \in Nat \ {0}, f \in Nat, s \in {0, 1}, e \in Nat, y \in Nat :
           Sized(n, w, f, s, e, y)
<1>1. IsNumeral(given) /\ LaidOut(given, text)
  BY Seen
<1>2. PICK n \in {0, 1}, w \in Nat \ {0}, f \in Nat, s \in {0, 1}, e \in Nat, y \in Nat :
        /\ n = SignSize(given) /\ w = Len(given.whole) /\ f = Len(given.fraction)
        /\ s = Len(given.sign) /\ e = Len(given.power) /\ y = AfterFraction(given)
  <2>1. SignSize(given) \in {0, 1} /\ AfterFraction(given) \in Nat
    BY <1>1, Places
  <2>2. Len(given.sign) \in {0, 1} /\ Len(given.whole) \in Nat \ {0}
        /\ Len(given.fraction) \in Nat /\ Len(given.power) \in Nat
    BY <1>1, NumeralParts
  <2> QED BY <2>1, <2>2
<1>3. /\ given.fraction = <<>> <=> f = 0
      /\ given.power = <<>> <=> e = 0
      /\ given.sign = <<>> <=> s = 0
      /\ given.negative <=> n = 1
  <2>1. /\ given.sign = <<>> => s = 0
        /\ given.sign # <<>> => s = 1
        /\ given.fraction = <<>> => f = 0
        /\ given.fraction # <<>> => f > 0
        /\ given.power = <<>> => e = 0
        /\ given.power # <<>> => e > 0
    BY <1>1, <1>2, NumeralParts
  <2>2. given.negative <=> n = 1
    BY <1>1, <1>2, Places
  <2> QED BY <2>1, <2>2
<1>4. AfterWhole(given) = n + w
  BY <1>1, <1>2, Places
<1>5. (f = 0 => y = n + w) /\ (f # 0 => y = n + w + 1 + f)
  BY <1>1, <1>2, <1>3, <1>4, Places
<1>6. AfterSign(given) = y + 1 + s
  BY <1>1, <1>2, Places
<1>7. e = 0 => Len(text) = y + 1
  BY <1>1, <1>2, <1>3 DEF LaidOut
<1>8. e # 0 => Len(text) = y + s + e + 2
  <2> SUFFICES ASSUME e # 0 PROVE Len(text) = y + s + e + 2
    OBVIOUS
  <2>1. Len(text) = AfterSign(given) + Len(given.power) + 1
    BY <1>1, <1>3 DEF LaidOut
  <2>2. Len(text) = y + 1 + s + e + 1
    BY <1>2, <1>6, <2>1
  <2> QED BY <2>2
<1>9. Len(text) \in Nat
  BY <1>7, <1>8
<1>10. AfterFraction(given) = y
  BY <1>2
<1>12. n + w <= y /\ y + 1 <= Len(text)
  BY <1>5, <1>7, <1>8
<1>11. Sized(n, w, f, s, e, y)
  BY <1>12, <1>2, <1>3, <1>4, <1>5, <1>6, <1>7, <1>8, <1>9, <1>10 DEF Sized
<1> QED BY <1>11

-----------------------------------------------------------------------------
(* The steps of parse_number *)

InNumeral ==
  /\ given \in NumberTexts /\ text = given.bytes /\ ~IsString(given)
  /\ Reading

LEMMA SignStep ==
  ASSUME InNumeral, NumberSign
  PROVE  Reading'
<1> USE DEF InNumeral
<1>1. at = "number" /\ p = 1 /\ number = NewNumber /\ text[1] = 45
  BY DEF Reading, NumberSign
<1>2. given.negative /\ 1 < Len(text)
  <2>1. given.negative
    BY <1>1, SeenSign
  <2> QED BY <2>1, Sizes DEF Sized
<1>3. /\ p' = 2 /\ at' = "digits" /\ number' = [NewNumber EXCEPT !.negative = TRUE]
      /\ given' = given
  BY <1>1, <1>2 DEF NumberSign, Advance, at_eof
<1>4. number' \in NumberLocals
  <2>1. number \in NumberLocals /\ number' = [number EXCEPT !.negative = TRUE]
    BY <1>1, <1>3 DEF Reading
  <2> QED BY <2>1 DEF NumberLocals
<1> QED BY <1>2, <1>3, <1>4 DEF Reading

LEMMA DigitsInAll ==
  ASSUME given \in NumberTexts, text = given.bytes,
         NEW n, NEW w, NEW f, NEW s, NEW e, NEW y, Sized(n, w, f, s, e, y)
  PROVE  AllDigits \in Seq(Digits) /\ Len(AllDigits) = w + f
<1>1. AllDigits \in Seq(Digits) /\ Len(AllDigits) = Len(given.whole) + Len(given.fraction)
  BY Seen
<1> QED BY <1>1 DEF Sized

LEMMA DigitStep ==
  ASSUME InNumeral, AtDigit, NEW k \in 1..Len(AllDigits), text[p] = AllDigits[k], HasRead(k - 1)
  PROVE  LET n == WithDigit(number)
         IN /\ digit \in 0..9 /\ n \in NumberLocals
            /\ n = [number EXCEPT !.i = n.i, !.d = n.d, !.try_double = n.try_double]
            /\ ValueOfFirst(k, AllDigits) = IF n.try_double THEN n.d ELSE n.i
<1>1. digit \in 0..9
  BY DEF AtDigit, IS_NUM, digit
<1>2. number \in NumberLocals
  BY DEF InNumeral, Reading
<1>3. PICK v \in Nat, c \in 0..9 : /\ v = ValueOfFirst(k - 1, AllDigits) /\ c = digit
                                   /\ ValueOfFirst(k, AllDigits) = 10 * v + c
  <2>1. AllDigits \in Seq(Digits)
    BY Seen DEF InNumeral
  <2>2. /\ ValueOfFirst(k - 1, AllDigits) \in Nat
        /\ ValueOfFirst(k, AllDigits) = 10 * ValueOfFirst(k - 1, AllDigits) + (AllDigits[k] - 48)
    <3>1. k - 1 \in 0..Len(AllDigits)
      BY <2>1
    <3> QED BY <2>1, <3>1, ValueGrows
  <2> QED BY <1>1, <2>2 DEF digit
<1>4. v = IF number.try_double THEN number.d ELSE number.i
  BY <1>3 DEF HasRead
<1>5. CASE number.try_double
  <2>1. WithDigit(number) = [number EXCEPT !.d = 10 * v + c]
    BY <1>2, <1>3, <1>4, <1>5 DEF WithDigit, NumberLocals
  <2>2. 10 * v + c \in Nat
    OBVIOUS
  <2> QED BY <1>1, <1>2, <1>3, <1>5, <2>1, <2>2 DEF NumberLocals
<1>6. CASE ~number.try_double /\ number.i > INT_MAX \div 10 - 9
  <2>1. WithDigit(number) = [number EXCEPT !.try_double = TRUE, !.d = 10 * v + c]
    BY <1>2, <1>3, <1>4, <1>6 DEF WithDigit, AsDouble, NumberLocals
  <2>2. 10 * v + c \in Nat
    OBVIOUS
  <2> QED BY <1>1, <1>2, <1>3, <1>6, <2>1, <2>2 DEF NumberLocals
<1>7. CASE ~number.try_double /\ ~(number.i > INT_MAX \div 10 - 9)
  <2>1. WithDigit(number) = [number EXCEPT !.i = 10 * v + c]
    BY <1>2, <1>3, <1>4, <1>7 DEF WithDigit, NumberLocals
  <2>2. 10 * v + c \in 0..INT_MAX
    <3>1. v = number.i /\ INT_MAX \in Nat
      BY <1>4, <1>7, TextAssumption
    <3>2. v <= INT_MAX \div 10 - 9
      BY <1>7, <3>1
    <3> QED BY <3>1, <3>2, SMTT(30)
  <2> QED BY <1>1, <1>2, <1>3, <1>7, <2>1, <2>2 DEF NumberLocals
<1> QED BY <1>5, <1>6, <1>7

NothingRead ==
  /\ number \in NumberLocals
  /\ number.i = 0 /\ number.d = 0 /\ number.exponent = 0 /\ ~number.try_double
  /\ NoPowerRead /\ SignRead

LEMMA FirstStep ==
  ASSUME InNumeral, FirstDigit
  PROVE  Reading'
<1>1. PICK n \in {0, 1}, w \in Nat \ {0}, f \in Nat, s \in {0, 1}, e \in Nat, y \in Nat :
        Sized(n, w, f, s, e, y)
  BY Sizes DEF InNumeral
<1>2. p = n + 1 /\ NothingRead
  <2>1. given.negative \in BOOLEAN
    BY Seen DEF InNumeral, IsNumeral
  <2>2. number \in NumberLocals
    BY DEF InNumeral, Reading
  <2>3. CASE at = "digits"
    <3>1. given.negative /\ p = 2 /\ number = [NewNumber EXCEPT !.negative = TRUE]
      BY <2>3 DEF InNumeral, Reading
    <3>2. given.negative = TRUE /\ n = 1 /\ p = n + 1
      BY <1>1, <2>1, <3>1 DEF Sized
    <3> QED BY <2>2, <3>1, <3>2 DEF NewNumber, NothingRead, NoPowerRead, SignRead
  <2>4. CASE at = "number"
    <3>1. p = 1 /\ number = NewNumber /\ text[p] # 45
      BY <2>4 DEF InNumeral, Reading, FirstDigit
    <3>2. ~given.negative
      BY <3>1, SeenSign DEF InNumeral
    <3>3. n = 0 /\ given.negative = FALSE
      BY <1>1, <2>1, <3>2 DEF Sized
    <3>4. SignRead
      BY <3>1, <3>3 DEF NewNumber, SignRead
    <3> QED BY <2>2, <3>1, <3>3, <3>4 DEF NewNumber, NothingRead, NoPowerRead
  <2> QED BY <2>3, <2>4 DEF FirstDigit
<1>3. /\ text[p] = AllDigits[1] /\ AllDigits[1] \in Digits /\ p + 1 <= Len(text)
      /\ AllDigits[1] = given.whole[1]
  <2>1. 1 \in 1..Len(given.whole) /\ p = SignSize(given) + 1 /\ p + 1 <= Len(text)
    <3>1. Len(given.whole) = w /\ SignSize(given) = n /\ n + w + 1 <= Len(text) /\ Len(text) \in Nat
      BY <1>1 DEF Sized
    <3> QED BY <1>2, <3>1
  <2>2. given \in NumberTexts /\ text = given.bytes
    BY DEF InNumeral
  <2>3. text[SignSize(given) + 1] = AllDigits[1] /\ AllDigits[1] \in Digits
    BY <2>1, <2>2, SeenSign
  <2> QED BY <2>1, <2>2, <2>3, Seen
<1>4. AtDigit
  BY <1>2, <1>3 DEF AtDigit, at_eof, IS_NUM, Digits
<1>5. HasRead(0)
  BY <1>2, Seen, ValueGrows DEF InNumeral, HasRead, NothingRead
<1>6. CASE digit = 0
  <2>1. at' = "point" /\ p' = n + 2 /\ number' = number /\ given' = given
    BY <1>2, <1>3, <1>4, <1>6 DEF FirstDigit, Advance, at_eof
  <2>2. w = 1
    BY <1>1, <1>3, <1>6, Seen DEF digit, IsNumeral, Sized, InNumeral
  <2>3. HasRead(1)'
    <3>1. ValueOfFirst(1, AllDigits) = 0
      <4>1. AllDigits \in Seq(Digits) /\ 1 \in 1..Len(AllDigits)
        <5>1. AllDigits \in Seq(Digits) /\ Len(AllDigits) = w + f
          BY <1>1, DigitsInAll DEF InNumeral
        <5> QED BY <5>1
      <4>2. ValueOfFirst(0, AllDigits) = 0 /\ 1 - 1 = 0
        BY <4>1, ValueGrows
      <4>3. ValueOfFirst(1, AllDigits) = 10 * ValueOfFirst(1 - 1, AllDigits) + (AllDigits[1] - 48)
        BY <4>1, ValueGrows
      <4>4. AllDigits[1] - 48 = 0
        BY <1>3, <1>6 DEF digit
      <4> QED BY <4>2, <4>3, <4>4
    <3> QED BY <1>2, <2>1, <3>1 DEF HasRead, AllDigits, NothingRead
  <2>4. InWhole(1)'
    BY <1>1, <1>2, <2>1, <2>2, <2>3 DEF InWhole, Sized, NothingRead, NoPowerRead, SignRead
  <2> QED BY <1>1, <1>2, <2>1, <2>2, <2>4 DEF Reading, Sized, NothingRead
<1>7. CASE digit # 0
  <2>1. at' = "whole" /\ p' = p /\ number' = number /\ given' = given
    BY <1>4, <1>7 DEF FirstDigit, Stays
  <2>2. HasRead(0)'
    BY <1>5, <2>1 DEF HasRead, AllDigits
  <2>3. InWhole(0)'
    BY <1>1, <1>2, <2>1, <2>2 DEF InWhole, Sized, NothingRead, NoPowerRead, SignRead
  <2> QED BY <1>1, <1>2, <2>1, <2>3 DEF Reading, Sized, NothingRead
<1> QED BY <1>6, <1>7

LEMMA WholeStep ==
  ASSUME InNumeral, WholeDigit
  PROVE  Reading'
<1>1. PICK n \in {0, 1}, w \in Nat \ {0}, f \in Nat, s \in {0, 1}, e \in Nat, y \in Nat :
        Sized(n, w, f, s, e, y)
  BY Sizes DEF InNumeral
<1>2. PICK k \in 0..w : InWhole(k)
  BY <1>1 DEF InNumeral, Reading, WholeDigit, Sized
<1>3. p = n + k + 1 /\ number \in NumberLocals
  BY <1>1, <1>2 DEF InNumeral, Reading, InWhole, Sized
<1>4. given \in NumberTexts /\ text = given.bytes
  BY DEF InNumeral
<1>5. CASE k < w
  <2>1. PICK j \in 1..w : j = k + 1
    BY <1>5
  <2>2. text[p] = AllDigits[j] /\ AllDigits[j] \in Digits /\ p + 1 <= Len(text)
    <3>1. j \in 1..Len(given.whole) /\ p = SignSize(given) + j /\ p + 1 <= Len(text)
      <4>1. Len(given.whole) = w /\ SignSize(given) = n /\ n + w + 1 <= Len(text) /\ Len(text) \in Nat
        BY <1>1 DEF Sized
      <4> QED BY <1>3, <2>1, <4>1
    <3> QED BY <1>4, <3>1, SeenSign
  <2>3. AtDigit
    BY <1>3, <2>2 DEF AtDigit, at_eof, IS_NUM, Digits
  <2>4. j \in 1..Len(AllDigits) /\ HasRead(j - 1)
    <3>1. j \in 1..Len(AllDigits)
      <4>1. Len(AllDigits) = w + f
        BY <1>1, <1>4, DigitsInAll
      <4> QED BY <4>1
    <3>2. HasRead(k) /\ j - 1 = k
      BY <1>2, <2>1 DEF InWhole
    <3> QED BY <3>1, <3>2
  <2>5. PICK m \in NumberLocals :
          /\ m = WithDigit(number)
          /\ m = [number EXCEPT !.i = m.i, !.d = m.d, !.try_double = m.try_double]
          /\ ValueOfFirst(j, AllDigits) = IF m.try_double THEN m.d ELSE m.i
    BY <2>2, <2>3, <2>4, DigitStep
  <2>6. at' = "whole" /\ p' = p + 1 /\ number' = m /\ given' = given
    BY <1>3, <2>2, <2>3, <2>5 DEF WholeDigit, Advance, at_eof
  <2>7. HasRead(j)'
    BY <2>5, <2>6 DEF HasRead, AllDigits
  <2>8. /\ m.exponent = number.exponent /\ m.exp = number.exp /\ m.negative = number.negative
        /\ m.negativeExponent = number.negativeExponent
    BY <1>3, <2>5 DEF NumberLocals
  <2>9. p' = SignSize(given) + j + 1 /\ j \in 0..Len(given.whole)
    BY <1>1, <1>3, <2>1, <2>6 DEF Sized
  <2>10. InWhole(j)'
    BY <1>2, <2>6, <2>7, <2>8, <2>9 DEF InWhole, NoPowerRead, SignRead, SignSize
  <2> QED BY <2>5, <2>6, <2>9, <2>10 DEF Reading
<1>6. CASE k = w
  <2>1. ~AtDigit
    <3>1. CASE f = 0
      <4>1. p = AfterFraction(given) + 1
        BY <1>1, <1>3, <1>6, <3>1 DEF Sized
      <4>2. text[p] \notin Digits
        BY <1>4, <4>1, SeenMark
      <4> QED BY <4>2 DEF AtDigit, IS_NUM, Digits
    <3>2. CASE f # 0
      <4>1. p = AfterWhole(given) + 1 /\ given.fraction # <<>>
        BY <1>1, <1>3, <1>6, <3>2 DEF Sized
      <4>2. text[p] = 46
        BY <1>4, <4>1, SeenFraction
      <4> QED BY <4>2 DEF AtDigit, IS_NUM
    <3> QED BY <3>1, <3>2
  <2>2. at' = "point" /\ p' = p /\ number' = number /\ given' = given
    BY <2>1 DEF WholeDigit, Stays
  <2>3. InWhole(w)'
    BY <1>2, <1>6, <2>2 DEF InWhole, HasRead, AllDigits, NoPowerRead, SignRead, SignSize
  <2> QED BY <1>1, <1>3, <2>2, <2>3 DEF Reading, Sized
<1> QED BY <1>5, <1>6

LEMMA DoubleTypes ==
  ASSUME number \in NumberLocals
  PROVE  LET m == AsDouble(number)
         IN /\ m \in NumberLocals /\ m.try_double
            /\ m.d = (IF number.try_double THEN number.d ELSE number.i)
            /\ m.exponent = number.exponent /\ m.exp = number.exp /\ m.negative = number.negative
            /\ m.negativeExponent = number.negativeExponent
<1>1. number.i \in Nat
  BY DEF NumberLocals
<1>2. CASE number.try_double
  BY <1>2 DEF AsDouble, NumberLocals
<1>3. CASE ~number.try_double
  <2>1. AsDouble(number) = [number EXCEPT !.try_double = TRUE, !.d = number.i]
    BY <1>3 DEF AsDouble
  <2> QED BY <1>1, <1>3, <2>1 DEF NumberLocals
<1> QED BY <1>2, <1>3

LEMMA PointStep ==
  ASSUME InNumeral, Point
  PROVE  Reading'
<1>1. PICK n \in {0, 1}, w \in Nat \ {0}, f \in Nat, s \in {0, 1}, e \in Nat, y \in Nat :
        Sized(n, w, f, s, e, y)
  BY Sizes DEF InNumeral
<1>2. InWhole(w)
  BY <1>1 DEF InNumeral, Reading, Point, Sized
<1>3. p = n + w + 1 /\ number \in NumberLocals
  BY <1>1, <1>2 DEF InNumeral, Reading, InWhole, Sized
<1>4. given \in NumberTexts /\ text = given.bytes
  BY DEF InNumeral
<1>5. CASE f = 0
  <2>1. p = AfterFraction(given) + 1
    BY <1>1, <1>3, <1>5 DEF Sized
  <2>2. text[p] # 46
    BY <1>4, <2>1, SeenMark
  <2>3. at' = "e" /\ p' = p /\ number' = number /\ given' = given
    BY <2>2 DEF Point, Stays
  <2>4. HasRead(w + f)' /\ w + f = Len(given.whole) + Len(given.fraction)
    <3>1. w + f = w
      BY <1>5
    <3> QED BY <1>1, <1>2, <2>3, <3>1 DEF InWhole, HasRead, AllDigits, Sized
  <2>5. /\ number.exponent + Len(given.fraction) = 0 /\ given.fraction = <<>>
        /\ SignRead /\ NoPowerRead
    <3>1. Len(given.fraction) = 0 /\ given.fraction = <<>>
      BY <1>1, <1>5 DEF Sized
    <3> QED BY <1>2, <3>1 DEF InWhole
  <2>6. DigitsRead' /\ NoPowerRead'
    BY <2>3, <2>4, <2>5 DEF DigitsRead, SignRead, NoPowerRead
  <2>7. p' = AfterFraction(given)' + 1
    BY <2>1, <2>3 DEF AfterFraction, AfterWhole, SignSize
  <2> QED BY <1>3, <2>3, <2>6, <2>7 DEF Reading
<1>6. CASE f # 0
  <2>1. p = AfterWhole(given) + 1 /\ given.fraction # <<>> /\ p + 1 <= Len(text)
    <3>1. AfterWhole(given) = n + w /\ given.fraction # <<>> /\ n + w + 2 <= Len(text)
          /\ Len(text) \in Nat
      <4>1. /\ AfterWhole(given) = n + w /\ given.fraction # <<>> /\ Len(text) \in Nat
            /\ y = n + w + 1 + f /\ y + 1 <= Len(text)
        BY <1>1, <1>6 DEF Sized
      <4> QED BY <1>6, <4>1
    <3> QED BY <1>3, <3>1
  <2>2. text[p] = 46
    BY <1>4, <2>1, SeenFraction
  <2>3. at' = "fraction_start" /\ p' = p + 1 /\ number' = AsDouble(number) /\ given' = given
    BY <1>3, <2>1, <2>2 DEF Point, Advance, at_eof
  <2>4. PICK m \in NumberLocals :
          /\ m = AsDouble(number) /\ m.try_double
          /\ m.d = (IF number.try_double THEN number.d ELSE number.i)
          /\ m.exponent = number.exponent /\ m.exp = number.exp /\ m.negative = number.negative
          /\ m.negativeExponent = number.negativeExponent
    BY <1>3, DoubleTypes
  <2>5. HasRead(w + 0)'
    BY <1>2, <2>3, <2>4 DEF InWhole, HasRead, AllDigits
  <2>6. p' = AfterWhole(given)' + 2 + 0 /\ 0 \in 0..Len(given.fraction)
    <3>1. AfterWhole(given)' = AfterWhole(given)
      BY <2>3 DEF AfterWhole, SignSize
    <3> QED BY <1>1, <1>3, <2>1, <2>3, <3>1 DEF Sized
  <2>7. m.exponent + 0 = 0
    BY <1>2, <2>4 DEF InWhole
  <2>8. InFraction(0)'
    BY <1>1, <1>2, <2>1, <2>3, <2>4, <2>5, <2>6, <2>7
       DEF InFraction, InWhole, NoPowerRead, SignRead, Sized
  <2> QED BY <2>3, <2>4, <2>8 DEF Reading
<1> QED BY <1>5, <1>6

LEMMA FractionStep ==
  ASSUME InNumeral, FractionDigit
  PROVE  Reading'
<1>1. PICK n \in {0, 1}, w \in Nat \ {0}, f \in Nat, s \in {0, 1}, e \in Nat, y \in Nat :
        Sized(n, w, f, s, e, y)
  BY Sizes DEF InNumeral
<1>2. PICK k \in 0..f : InFraction(k) /\ (at = "fraction_start" => k = 0)
  <2>1. at = "fraction_start" => InFraction(0)
    BY DEF InNumeral, Reading
  <2>2. at = "fraction" => \E k \in 0..f : InFraction(k)
    BY <1>1 DEF InNumeral, Reading, Sized
  <2> QED BY <2>1, <2>2 DEF FractionDigit
<1>3. /\ p = n + w + 2 + k /\ number \in NumberLocals /\ given.fraction # <<>> /\ f # 0
      /\ number.try_double /\ number.exponent + k = 0
  BY <1>1, <1>2 DEF InNumeral, Reading, InFraction, Sized
<1>4. given \in NumberTexts /\ text = given.bytes
  BY DEF InNumeral
<1>5. CASE k < f
  <2>1. PICK j \in 1..f : j = k + 1
    BY <1>5
  <2>2. PICK h \in 1..Len(AllDigits) : h = w + j
    <3>1. Len(AllDigits) = w + f
      BY <1>1, <1>4, DigitsInAll
    <3> QED BY <3>1
  <2>3. text[p] = AllDigits[h] /\ AllDigits[h] \in Digits /\ p + 1 <= Len(text)
    <3>1. /\ AfterWhole(given) = n + w /\ Len(given.fraction) = f /\ Len(given.whole) = w
          /\ n + w + 2 + f <= Len(text) /\ Len(text) \in Nat
      <4>1. /\ AfterWhole(given) = n + w /\ Len(given.fraction) = f /\ Len(given.whole) = w
            /\ y = n + w + 1 + f /\ y + 1 <= Len(text) /\ Len(text) \in Nat
        BY <1>1, <1>3 DEF Sized
      <4> QED BY <4>1
    <3>2. p = AfterWhole(given) + 1 + j /\ p + 1 <= Len(text)
      <4>1. PICK a, l : a = AfterWhole(given) /\ l = Len(text)
        OBVIOUS
      <4>2. a = n + w /\ n + w + 2 + f <= l /\ l \in Nat /\ p = n + w + 2 + k
        BY <1>3, <3>1, <4>1
      <4>3. p = a + 1 + j /\ p + 1 <= l
        BY <2>1, <4>2
      <4> QED BY <4>1, <4>3
    <3>3. /\ text[AfterWhole(given) + 1 + j] = AllDigits[Len(given.whole) + j]
          /\ AllDigits[Len(given.whole) + j] \in Digits
      <4>1. given.fraction # <<>> /\ j \in 1..Len(given.fraction)
        BY <1>3, <3>1
      <4> QED BY <1>4, <4>1, SeenFraction
    <3> QED BY <2>2, <3>1, <3>2, <3>3
  <2>4. AtDigit
    BY <1>3, <2>3 DEF AtDigit, at_eof, IS_NUM, Digits
  <2>5. PICK c \in 0..9 : c = digit /\ AllDigits[h] - 48 = c
    BY <2>3, <2>4 DEF AtDigit, IS_NUM, digit
  <2>6. ValueOfFirst(h, AllDigits) = 10 * number.d + c
    <3>1. AllDigits \in Seq(Digits)
      BY <1>1, <1>4, DigitsInAll
    <3>2. ValueOfFirst(h, AllDigits) = 10 * ValueOfFirst(h - 1, AllDigits) + (AllDigits[h] - 48)
      BY <3>1, ValueGrows
    <3>3. h - 1 = Len(given.whole) + k
      <4>1. Len(given.whole) = w
        BY <1>1 DEF Sized
      <4> QED BY <2>1, <2>2, <4>1
    <3>4. ValueOfFirst(h - 1, AllDigits) = number.d
      BY <1>2, <1>3, <3>3 DEF InFraction, HasRead
    <3> QED BY <2>5, <3>2, <3>4
  <2>7. /\ at' = "fraction" /\ p' = p + 1 /\ given' = given
        /\ number' = [number EXCEPT !.d = 10 * @ + digit, !.exponent = @ - 1]
    BY <1>3, <2>3, <2>4, SMTT(30) DEF FractionDigit, Advance, at_eof
  <2>8. /\ number' \in NumberLocals /\ number'.d = 10 * number.d + c
        /\ number'.exponent = number.exponent - 1 /\ number'.try_double
        /\ number'.exp = number.exp /\ number'.negative = number.negative
        /\ number'.negativeExponent = number.negativeExponent
    <3>1. number.d \in Nat /\ number.exponent \in Int
      BY <1>3 DEF NumberLocals
    <3>2. 10 * number.d + c \in Nat /\ number.exponent - 1 \in Int
      BY <3>1
    <3>3. number' = [number EXCEPT !.d = 10 * number.d + c, !.exponent = number.exponent - 1]
      BY <1>3, <2>5, <2>7 DEF NumberLocals
    <3> QED BY <1>3, <3>2, <3>3 DEF NumberLocals
  <2>9. HasRead(Len(given.whole) + j)'
    <3>1. Len(given.whole) + j = h
      BY <1>1, <2>2 DEF Sized
    <3> QED BY <2>6, <2>7, <2>8, <3>1 DEF HasRead, AllDigits
  <2>10. p' = AfterWhole(given)' + 2 + j /\ j \in 0..Len(given.fraction)
    <3>1. AfterWhole(given)' = n + w /\ Len(given.fraction) = f
      BY <1>1, <2>7 DEF AfterWhole, SignSize, Sized
    <3>2. p' = n + w + 2 + j
      BY <1>3, <2>1, <2>7, SMTT(30)
    <3> QED BY <3>1, <3>2
  <2>11. number'.exponent + j = 0
    <3>1. number.exponent \in Int
      BY <1>3 DEF NumberLocals
    <3> QED BY <1>3, <2>1, <2>8, <3>1
  <2>12. InFraction(j)'
    BY <1>2, <1>3, <2>7, <2>8, <2>9, <2>10, <2>11 DEF InFraction, NoPowerRead, SignRead
  <2> QED BY <2>7, <2>8, <2>10, <2>12 DEF Reading
<1>6. CASE k = f
  <2>1. p = AfterFraction(given) + 1
    <3>1. AfterFraction(given) = n + w + 1 + f
      BY <1>1, <1>3 DEF Sized
    <3> QED BY <1>3, <1>6, <3>1
  <2>2. ~AtDigit
    BY <1>4, <2>1, SeenMark DEF AtDigit, IS_NUM, Digits
  <2>3. at' = "e" /\ p' = p /\ number' = number /\ given' = given
    <3>1. at # "fraction_start"
      BY <1>2, <1>3, <1>6
    <3> QED BY <2>2, <3>1 DEF FractionDigit, Stays
  <2>4. Len(given.fraction) = f /\ p' = AfterFraction(given)' + 1
    BY <1>1, <2>1, <2>3 DEF AfterFraction, AfterWhole, SignSize, Sized
  <2>5. DigitsRead' /\ NoPowerRead'
    BY <1>2, <1>3, <1>6, <2>3, <2>4
       DEF InFraction, DigitsRead, HasRead, AllDigits, NoPowerRead, SignRead
  <2> QED BY <1>3, <2>3, <2>4, <2>5 DEF Reading
<1> QED BY <1>5, <1>6

LEMMA MarkStep ==
  ASSUME InNumeral, Exponent, given.power # <<>>
  PROVE  Reading'
<1>1. PICK n \in {0, 1}, w \in Nat \ {0}, f \in Nat, s \in {0, 1}, e \in Nat, y \in Nat :
        Sized(n, w, f, s, e, y)
  BY Sizes DEF InNumeral
<1>2. p = y + 1 /\ DigitsRead /\ NoPowerRead /\ number \in NumberLocals
  BY <1>1 DEF InNumeral, Reading, Exponent, Sized
<1>3. text[p] \in {69, 101} /\ p + 1 <= Len(text) /\ Len(text) \in Nat
  <2>1. AfterFraction(given) = y /\ y + 2 <= Len(text) /\ Len(text) \in Nat
    <3>1. AfterFraction(given) = y /\ Len(text) \in Nat /\ e # 0 /\ Len(text) = y + s + e + 2
      BY <1>1 DEF Sized
    <3> QED BY <3>1
  <2> QED BY <1>2, <2>1, SeenMark DEF InNumeral
<1>4. at' = "exponent_sign" /\ p' = p + 1 /\ number' = AsDouble(number) /\ given' = given
  BY <1>2, <1>3 DEF Exponent, Advance, at_eof
<1>5. /\ number' \in NumberLocals /\ number'.try_double
      /\ number'.d = (IF number.try_double THEN number.d ELSE number.i)
      /\ number'.exponent = number.exponent /\ number'.exp = number.exp
      /\ number'.negative = number.negative /\ number'.negativeExponent = number.negativeExponent
  BY <1>2, <1>4, DoubleTypes
<1>6. DigitsRead' /\ NoPowerRead'
  BY <1>2, <1>4, <1>5 DEF DigitsRead, HasRead, AllDigits, NoPowerRead, SignRead
<1>7. p' = AfterFraction(given)' + 2
  <2>1. AfterFraction(given)' = y
    BY <1>1, <1>4 DEF AfterFraction, AfterWhole, SignSize, Sized
  <2> QED BY <1>2, <1>4, <2>1
<1> QED BY <1>4, <1>5, <1>6, <1>7 DEF Reading

LEMMA SignOfPowerStep ==
  ASSUME InNumeral, ExponentSign
  PROVE  Reading'
<1>1. PICK n \in {0, 1}, w \in Nat \ {0}, f \in Nat, s \in {0, 1}, e \in Nat, y \in Nat :
        Sized(n, w, f, s, e, y)
  BY Sizes DEF InNumeral
<1>2. /\ p = y + 2 /\ DigitsRead /\ NoPowerRead /\ number \in NumberLocals
      /\ given.power # <<>> /\ number.try_double
  BY <1>1 DEF InNumeral, Reading, ExponentSign, Sized
<1>3. given \in NumberTexts /\ text = given.bytes
  BY DEF InNumeral
<1>4. p = AfterFraction(given) + 2 /\ AfterSign(given) = y + 1 + s /\ p + 1 <= Len(text)
  <2>1. /\ AfterFraction(given) = y /\ AfterSign(given) = y + 1 + s /\ e # 0
        /\ Len(text) = y + s + e + 2
    BY <1>1, <1>2 DEF Sized
  <2> QED BY <1>2, <2>1
<1>5. PICK m : m = [number EXCEPT !.negativeExponent = (given.sign = <<45>>)]
  OBVIOUS
<1>6. at' = "exponent_start" /\ p' = p + s /\ number' = m /\ given' = given
  <2>1. CASE given.sign = <<>>
    <3>1. s = 0
      BY <1>1, <2>1 DEF Sized
    <3>2. text[p] \notin {43, 45}
      BY <1>2, <1>3, <1>4, <2>1, SeenPower
    <3>3. at' = "exponent_start" /\ p' = p /\ number' = number /\ given' = given
      BY <3>2 DEF ExponentSign, Stays
    <3>4. number.negativeExponent = FALSE /\ (given.sign = <<45>>) = FALSE
      BY <1>2, <2>1 DEF NoPowerRead
    <3>5. number = m
      BY <1>2, <1>5, <3>4 DEF NumberLocals
    <3> QED BY <1>2, <3>1, <3>3, <3>5
  <2>2. CASE given.sign # <<>>
    <3>1. s = 1
      BY <1>1, <2>2 DEF Sized
    <3>2. text[p] \in {43, 45} /\ (text[p] = 45 <=> given.sign = <<45>>)
      BY <1>2, <1>3, <1>4, <2>2, SeenPower
    <3>3. (text[p] = 45) = (given.sign = <<45>>)
      BY <3>2
    <3>4. ~at_eof(p + 1)
      BY <1>2, <1>4 DEF at_eof
    <3>5. /\ at' = "exponent_start" /\ p' = p + 1 /\ given' = given
          /\ number' = [number EXCEPT !.negativeExponent = (text[p] = 45)]
      BY <3>2, <3>4 DEF ExponentSign, Advance
    <3> QED BY <1>5, <3>1, <3>3, <3>5
  <2> QED BY <2>1, <2>2
<1>7. /\ m \in NumberLocals /\ m.negativeExponent = (given.sign = <<45>>)
      /\ m.d = number.d /\ m.i = number.i /\ m.try_double = number.try_double
      /\ m.exponent = number.exponent /\ m.exp = number.exp /\ m.negative = number.negative
  <2>1. (given.sign = <<45>>) \in BOOLEAN
    OBVIOUS
  <2> QED BY <1>2, <1>5, <2>1 DEF NumberLocals
<1>8. DigitsRead'
  BY <1>2, <1>6, <1>7 DEF DigitsRead, HasRead, AllDigits, SignRead
<1>9. p' = AfterSign(given)' + 1 + 0
  <2>1. AfterSign(given)' = y + 1 + s
    BY <1>4, <1>6 DEF AfterSign, AfterFraction, AfterWhole, SignSize
  <2> QED BY <1>2, <1>6, <2>1
<1>10. m.exp = Capped(ValueOfFirst(0, given.power)) /\ 0 \in 0..Len(given.power)
  <2>1. given.power \in Seq(Digits) /\ INT_MAX \in Nat
    BY <1>3, Seen, TextAssumption
  <2>2. ValueOfFirst(0, given.power) = 0 /\ 0 \in 0..Len(given.power)
    BY <2>1, ValueGrows
  <2>3. m.exp = 0
    BY <1>2, <1>7 DEF NoPowerRead
  <2> QED BY <2>1, <2>2, <2>3 DEF Capped
<1>11. InPower(0)'
  BY <1>2, <1>6, <1>7, <1>8, <1>9, <1>10 DEF InPower
<1> QED BY <1>6, <1>7, <1>11 DEF Reading

LEMMA CappedDigit ==
  ASSUME NEW v \in Nat, NEW c \in 0..9
  PROVE  /\ Capped(10 * v + c) = IF Capped(v) > (INT_MAX - c) \div 10 THEN INT_MAX
                                 ELSE 10 * Capped(v) + c
         /\ Capped(v) \in 0..INT_MAX /\ Capped(10 * v + c) \in 0..INT_MAX
<1>1. INT_MAX \in Nat /\ INT_MAX >= 100
  BY TextAssumption
<1>2. PICK m \in Nat : m = INT_MAX - c
  BY <1>1
<1>3. PICK q \in Nat : q = m \div 10 /\ 10 * q <= m /\ m <= 10 * q + 9
  OBVIOUS
<1>4. q < INT_MAX
  BY <1>1, <1>2, <1>3
<1>5. CASE v > INT_MAX
  <2>1. Capped(v) = INT_MAX /\ 10 * v + c > INT_MAX
    BY <1>1, <1>5 DEF Capped
  <2>2. Capped(10 * v + c) = INT_MAX
    BY <2>1 DEF Capped
  <2> QED BY <1>1, <1>2, <1>3, <1>4, <2>1, <2>2
<1>6. CASE ~(v > INT_MAX) /\ v > q
  <2>1. Capped(v) = v
    BY <1>6 DEF Capped
  <2>2. 10 * v + c >= INT_MAX
    BY <1>1, <1>2, <1>3, <1>6
  <2>3. Capped(10 * v + c) = INT_MAX
    BY <1>1, <2>2 DEF Capped
  <2> QED BY <1>1, <1>2, <1>3, <1>6, <2>1, <2>3
<1>7. CASE ~(v > INT_MAX) /\ ~(v > q)
  <2>1. Capped(v) = v
    BY <1>7 DEF Capped
  <2>2. 10 * v + c <= INT_MAX
    BY <1>1, <1>2, <1>3, <1>7
  <2>3. Capped(10 * v + c) = 10 * v + c
    BY <1>1, <2>2 DEF Capped
  <2> QED BY <1>1, <1>2, <1>3, <1>7, <2>1, <2>2, <2>3
<1> QED BY <1>5, <1>6, <1>7

LEMMA PowerStep ==
  ASSUME InNumeral, ExponentDigit, AtDigit
  PROVE  Reading'
<1>1. PICK n \in {0, 1}, w \in Nat \ {0}, f \in Nat, s \in {0, 1}, e \in Nat, y \in Nat :
        Sized(n, w, f, s, e, y)
  BY Sizes DEF InNumeral
<1>2. PICK k \in 0..e : InPower(k)
  <2>1. at = "exponent_start" => InPower(0)
    BY DEF InNumeral, Reading
  <2>2. at = "exponent" => \E k \in 0..e : InPower(k)
    BY <1>1 DEF InNumeral, Reading, Sized
  <2> QED BY <2>1, <2>2 DEF ExponentDigit
<1>3. given \in NumberTexts /\ text = given.bytes /\ number \in NumberLocals
  BY DEF InNumeral, Reading
<1>4. /\ p = y + 2 + s + k /\ given.power # <<>> /\ e # 0 /\ Len(text) = y + s + e + 2
      /\ Len(given.power) = e /\ AfterSign(given) = y + 1 + s
  <2>1. /\ e # 0 /\ Len(text) = y + s + e + 2 /\ Len(given.power) = e
        /\ AfterSign(given) = y + 1 + s /\ given.power # <<>> /\ p = AfterSign(given) + 1 + k
    BY <1>1, <1>2 DEF InPower, Sized
  <2> QED BY <2>1
<1>5. k # e
  <2> SUFFICES ASSUME k = e PROVE FALSE
    OBVIOUS
  <2>1. p = AfterSign(given) + Len(given.power) + 1
    BY <1>4
  <2>2. text[p] \notin Digits
    BY <1>3, <1>4, <2>1, SeenPower
  <2> QED BY <2>2 DEF AtDigit, IS_NUM, Digits
<1>6. PICK j \in 1..e : j = k + 1
  BY <1>5
<1>7. text[p] = given.power[j] /\ p + 1 <= Len(text) /\ Len(text) \in Nat
  <2>1. p = AfterSign(given) + j /\ j \in 1..Len(given.power) /\ p + 1 <= Len(text)
    BY <1>4, <1>6
  <2> QED BY <1>3, <1>4, <2>1, SeenPower, SMTT(30)
<1>8. PICK c \in 0..9 : c = digit /\ given.power[j] - 48 = c
  BY <1>7 DEF AtDigit, IS_NUM, digit
<1>9. PICK v \in Nat : /\ v = ValueOfFirst(k, given.power)
                       /\ ValueOfFirst(j, given.power) = 10 * v + c
  <2>1. given.power \in Seq(Digits)
    BY <1>3, Seen
  <2>2. ValueOfFirst(j - 1, given.power) \in Nat /\ j - 1 = k
    BY <1>4, <1>6, <2>1, ValueGrows
  <2>3. ValueOfFirst(j, given.power) = 10 * ValueOfFirst(j - 1, given.power) + (given.power[j] - 48)
    BY <1>4, <2>1, ValueGrows
  <2> QED BY <1>8, <2>2, <2>3
<1>10. PICK x \in 0..INT_MAX : /\ x = Capped(ValueOfFirst(j, given.power))
                               /\ x = IF number.exp > (INT_MAX - c) \div 10 THEN INT_MAX
                                      ELSE 10 * number.exp + c
  <2>1. number.exp = Capped(v)
    BY <1>2, <1>9 DEF InPower
  <2> QED BY <1>9, <2>1, CappedDigit, ZenonT(30)
<1>11. /\ at' = "exponent" /\ p' = p + 1 /\ given' = given
       /\ number' = [number EXCEPT !.exp = x]
  <2>1. WithExponentDigit(number) = [number EXCEPT !.exp = x]
    BY <1>3, <1>8, <1>10 DEF WithExponentDigit, NumberLocals
  <2>2. ~at_eof(p + 1)
    <3>1. p \in Nat
      BY <1>4
    <3> QED BY <1>7, <3>1 DEF at_eof
  <2> QED BY <2>1, <2>2 DEF ExponentDigit, Advance
<1>12. /\ number' \in NumberLocals /\ number'.negativeExponent = number.negativeExponent
       /\ number'.d = number.d /\ number'.i = number.i /\ number'.try_double = number.try_double
       /\ number'.exponent = number.exponent /\ number'.exp = x /\ number'.negative = number.negative
  BY <1>3, <1>11 DEF NumberLocals
<1>13. DigitsRead'
  BY <1>2, <1>11, <1>12 DEF InPower, DigitsRead, HasRead, AllDigits, SignRead
<1>14. p' = AfterSign(given)' + 1 + j /\ j \in 0..Len(given.power)
  <2>1. AfterSign(given)' = y + 1 + s
    BY <1>4, <1>11 DEF AfterSign, AfterFraction, AfterWhole, SignSize
  <2>2. p' = y + 2 + s + j
    <3>1. p = y + 2 + s + k /\ p' = p + 1
      BY <1>4, <1>11
    <3> QED BY <1>6, <3>1
  <2> QED BY <1>4, <2>1, <2>2
<1>15. InPower(j)'
  BY <1>2, <1>10, <1>11, <1>12, <1>13, <1>14 DEF InPower
<1> QED BY <1>11, <1>12, <1>14, <1>15 DEF Reading

\* The power that is applied, when it was read to the largest int only
LEMMA PowerApplies ==
  ASSUME NEW x \in Int, NEW f \in Nat, NEW v \in Nat, NEW negative \in BOOLEAN, f + MAX_POW < INT_MAX,
         x + f = IF negative THEN -Capped(v) ELSE Capped(v)
  PROVE  LET power == (IF negative THEN -v ELSE v) - f
         IN /\ x > MAX_POW => power > MAX_POW
            /\ x < -MIN_POW => power < -MIN_POW
            /\ ~(x > MAX_POW) /\ ~(x < -MIN_POW) => x = power
            /\ x = 0 => power = 0
<1>1. INT_MAX \in Nat /\ MIN_POW \in Nat /\ MAX_POW \in Nat /\ MIN_POW < INT_MAX
  BY TextAssumption
<1>2. CASE v > INT_MAX
  <2>1. Capped(v) = INT_MAX
    BY <1>2 DEF Capped
  <2>2. CASE negative
    BY <1>1, <1>2, <2>1, <2>2
  <2>3. CASE ~negative
    BY <1>1, <1>2, <2>1, <2>3
  <2> QED BY <2>2, <2>3
<1>3. CASE ~(v > INT_MAX)
  <2>1. Capped(v) = v
    BY <1>3 DEF Capped
  <2>2. CASE negative
    BY <1>1, <2>1, <2>2
  <2>3. CASE ~negative
    BY <1>1, <2>1, <2>3
  <2> QED BY <2>2, <2>3
<1> QED BY <1>2, <1>3

LEMMA StoreStep ==
  ASSUME InNumeral, DigitsRead, NEW x \in Int,
         x + Len(given.fraction) = IF given.sign = << 45 >> THEN -Capped(Decimal(given.power))
                                   ELSE Capped(Decimal(given.power)),
         given.power # <<>> => number.try_double,
         Store([number EXCEPT !.exponent = x])
  PROVE  at' \in {"integer", "double", "infinity", "zero"} /\ NumberExact'
<1>1. PICK n \in {0, 1}, w \in Nat \ {0}, f \in Nat, s \in {0, 1}, e \in Nat, y \in Nat :
        Sized(n, w, f, s, e, y)
  BY Sizes DEF InNumeral
<1>2. given \in NumberTexts /\ text = given.bytes /\ number \in NumberLocals /\ given' = given
  BY DEF InNumeral, Reading, Store
<1>3. PICK m \in NumberLocals : m = [number EXCEPT !.exponent = x]
  BY <1>2 DEF NumberLocals
<1>4. /\ m.exponent = x /\ m.d = number.d /\ m.i = number.i /\ m.try_double = number.try_double
      /\ m.negative = number.negative
  BY <1>2, <1>3 DEF NumberLocals
<1>5. given.negative \in BOOLEAN /\ m.negative = given.negative
  BY <1>2, <1>4, Seen DEF IsNumeral, DigitsRead, SignRead
<1>6. PICK v \in Nat : v = Decimal(given.power)
  <2>1. given.power \in Seq(Digits)
    BY <1>2, Seen
  <2>2. PICK g : Values(g, given.power) /\ Decimal(given.power) = g[Len(given.power)]
    BY <2>1, DecimalByDigits
  <2>3. Len(given.power) \in 0..Len(given.power)
    BY <2>1
  <2> QED BY <2>2, <2>3 DEF Values
<1>7. PICK power \in Int : power = PowerOfTen(given) - f
  <2>1. f \in Nat /\ -v \in Int
    OBVIOUS
  <2>2. PowerOfTen(given) = (IF given.sign = <<45>> THEN -v ELSE v)
    BY <1>6 DEF PowerOfTen
  <2>3. PowerOfTen(given) \in Int
    BY <2>1, <2>2
  <2> QED BY <2>1, <2>3
<1>8. f = Len(given.fraction) /\ f + MAX_POW < INT_MAX
  BY <1>1, <1>2, Seen DEF Sized, IsNumeral
<1>9. /\ x > MAX_POW => power > MAX_POW
      /\ x < -MIN_POW => power < -MIN_POW
      /\ ~(x > MAX_POW) /\ ~(x < -MIN_POW) => x = power
      /\ x = 0 => power = 0
  <2>1. PICK negative \in BOOLEAN : negative = (given.sign = <<45>>)
    OBVIOUS
  <2>2. x + f = IF negative THEN -Capped(v) ELSE Capped(v)
    BY <1>6, <1>8, <2>1
  <2>3. power = (IF negative THEN -v ELSE v) - f
    BY <1>6, <1>7, <2>1 DEF PowerOfTen
  <2> QED BY <1>8, <2>2, <2>3, PowerApplies
<1>10. /\ Decimal(given.whole \o given.fraction) = (IF m.try_double THEN m.d ELSE m.i)
       /\ f = 0 => Decimal(given.whole) = (IF m.try_double THEN m.d ELSE m.i)
  <2>1. given.whole \in Seq(Digits) /\ given.fraction \in Seq(Digits)
    BY <1>2, Seen
  <2>2. Decimal(given.whole \o given.fraction) = (IF m.try_double THEN m.d ELSE m.i)
    <3>1. ValueOfFirst(Len(given.whole) + Len(given.fraction), given.whole \o given.fraction)
          = Decimal(given.whole \o given.fraction)
      BY <2>1, ValueOfAll
    <3>2. ValueOfFirst(Len(given.whole) + Len(given.fraction), given.whole \o given.fraction)
          = IF number.try_double THEN number.d ELSE number.i
      BY DEF DigitsRead, HasRead, AllDigits
    <3> QED BY <1>4, <3>1, <3>2
  <2>3. f = 0 => Decimal(given.whole) = (IF m.try_double THEN m.d ELSE m.i)
    <3> SUFFICES ASSUME f = 0 PROVE Decimal(given.whole) = (IF m.try_double THEN m.d ELSE m.i)
      OBVIOUS
    <3>1. Len(given.whole) + Len(given.fraction) = Len(given.whole)
      <4>1. Len(given.whole) = w /\ Len(given.fraction) = 0
        BY <1>1, <1>8 DEF Sized
      <4> QED BY <4>1
    <3>2. ValueOfFirst(Len(given.whole), AllDigits) = Decimal(given.whole)
      BY <2>1, ValueOfAll DEF AllDigits
    <3>3. ValueOfFirst(Len(given.whole) + Len(given.fraction), AllDigits)
          = IF number.try_double THEN number.d ELSE number.i
      BY DEF DigitsRead, HasRead
    <3> QED BY <1>4, <3>1, <3>2, <3>3
  <2> QED BY <2>2, <2>3
<1>11. m.i \in 0..INT_MAX /\ m.d \in Nat /\ INT_MAX \in Nat
  BY TextAssumption DEF NumberLocals
<1>12. ~IsString(given)
  BY DEF InNumeral
<1>13. PICK pow : pow = IF x # 0 /\ m.d # 0 THEN pow10(x) ELSE "finite"
  OBVIOUS
<1>14. /\ at' = IF ~m.try_double THEN "integer" ELSE IF pow = "finite" THEN "double" ELSE pow
       /\ number' = IF ~m.negative THEN m
                    ELSE IF m.try_double THEN [m EXCEPT !.d = -@] ELSE [m EXCEPT !.i = -@]
  BY <1>3, <1>4, <1>13 DEF Store
<1>15. /\ number'.i = (IF given.negative /\ ~m.try_double THEN -m.i ELSE m.i)
       /\ number'.d = (IF given.negative /\ m.try_double THEN -m.d ELSE m.d)
       /\ number'.exponent = x
  BY <1>4, <1>5, <1>14 DEF NumberLocals
<1>16. number'.i \in -INT_MAX..INT_MAX
  BY <1>11, <1>15, SMTT(30)
<1>17. CASE ~m.try_double
  <2>1. at' = "integer"
    <3>1. m.try_double = FALSE
      BY <1>17 DEF NumberLocals
    <3> QED BY <1>14, <3>1
  <2>2. f = 0 /\ given.fraction = <<>> /\ given.power = <<>>
    BY <1>1, <1>4, <1>17 DEF DigitsRead, Sized
  <2>3. number'.i = (IF given.negative THEN -Decimal(given.whole) ELSE Decimal(given.whole))
    BY <1>10, <1>15, <1>17, <2>2
  <2> QED BY <1>2, <1>16, <2>1, <2>2, <2>3 DEF NumberExact
<1>18. CASE m.try_double
  <2>1. number'.d = (IF given.negative THEN -Decimal(given.whole \o given.fraction)
                     ELSE Decimal(given.whole \o given.fraction))
    BY <1>10, <1>15, <1>18
  <2>2. CASE pow = "finite"
    <3>1. at' = "double"
      BY <1>14, <1>18, <2>2
    <3>2. number'.d # 0 => x = power
      <4> SUFFICES ASSUME number'.d # 0 PROVE x = power
        OBVIOUS
      <4>1. m.d # 0
        BY <1>11, <1>15
      <4>2. CASE x = 0
        BY <1>9, <4>2
      <4>3. CASE x # 0
        <5>1. pow10(x) = "finite"
          BY <1>13, <2>2, <4>1, <4>3
        <5>2. ~(x > MAX_POW) /\ ~(x < -MIN_POW)
          BY <5>1 DEF pow10
        <5> QED BY <1>9, <5>2
      <4> QED BY <4>2, <4>3
    <3> QED BY <1>2, <1>7, <1>8, <1>15, <1>16, <2>1, <3>1, <3>2 DEF NumberExact
  <2>3. CASE pow # "finite"
    <3>1. pow = pow10(x)
      BY <1>13, <2>3
    <3>2. CASE x > MAX_POW
      <4>1. pow10(x) = "infinity"
        <5>1. ~(x < -MIN_POW)
          BY <3>2, TextAssumption
        <5> QED BY <3>2, <5>1 DEF pow10
      <4>2. at' = "infinity"
        BY <1>14, <1>18, <2>3, <3>1, <4>1
      <4> QED BY <1>2, <1>7, <1>8, <1>9, <1>16, <3>2, <4>2 DEF NumberExact
    <3>3. CASE ~(x > MAX_POW) /\ x < -MIN_POW
      <4>1. at' = "zero"
        BY <1>14, <1>18, <2>3, <3>1, <3>3 DEF pow10
      <4> QED BY <1>2, <1>7, <1>8, <1>9, <1>16, <3>3, <4>1 DEF NumberExact
    <3>4. CASE ~(x > MAX_POW) /\ ~(x < -MIN_POW)
      BY <2>3, <3>1, <3>4 DEF pow10
    <3> QED BY <3>2, <3>3, <3>4
  <2> QED BY <2>2, <2>3
<1> QED BY <1>17, <1>18

LEMMA EndStep ==
  ASSUME InNumeral, \/ Exponent /\ given.power = <<>>
                    \/ ExponentDigit /\ ~AtDigit
  PROVE  at' \in {"integer", "double", "infinity", "zero"} /\ NumberExact'
<1>1. PICK n \in {0, 1}, w \in Nat \ {0}, f \in Nat, s \in {0, 1}, e \in Nat, y \in Nat :
        Sized(n, w, f, s, e, y)
  BY Sizes DEF InNumeral
<1>2. given \in NumberTexts /\ text = given.bytes /\ number \in NumberLocals
  BY DEF InNumeral, Reading
<1>3. given.power \in Seq(Digits) /\ INT_MAX \in Nat
  BY <1>2, Seen, TextAssumption
<1>4. Decimal(given.power) = ValueOfFirst(Len(given.power), given.power)
      /\ Decimal(given.power) \in Nat
  <2>1. SubSeq(given.power, 1, Len(given.power)) = given.power
    BY <1>3, PrefixFull
  <2>2. ValueOfFirst(Len(given.power), given.power) = Decimal(given.power)
    BY <2>1 DEF ValueOfFirst
  <2>3. Len(given.power) \in 0..Len(given.power)
    BY <1>3
  <2>4. ValueOfFirst(Len(given.power), given.power) \in Nat
    BY <1>3, <2>3, ValueGrows
  <2> QED BY <2>2, <2>4
<1>5. CASE Exponent /\ given.power = <<>>
  <2>1. p = AfterFraction(given) + 1 /\ DigitsRead /\ NoPowerRead
    BY <1>5 DEF InNumeral, Reading, Exponent
  <2>2. text[p] \notin {69, 101}
    BY <1>2, <1>5, <2>1, SeenMark
  <2>3. PICK x \in Int : x = number.exponent
    BY <1>2 DEF NumberLocals
  <2>4. [number EXCEPT !.exponent = x] = number
    BY <1>2, <2>3 DEF NumberLocals
  <2>5. Store([number EXCEPT !.exponent = x])
    BY <1>5, <2>2, <2>4 DEF Exponent
  <2>6. Decimal(given.power) = 0
    <3>1. Len(given.power) = 0
      BY <1>5
    <3> QED BY <1>3, <1>4, <3>1, ValueGrows
  <2>7. Capped(0) = 0 /\ -Capped(0) = 0
    <3>1. Capped(0) = 0
      BY <1>3 DEF Capped
    <3>2. PICK z \in Int : z = Capped(0)
      BY <3>1
    <3>3. z + (-z) = 0 /\ -z \in Int
      OBVIOUS
    <3>4. PICK q \in Int : q = -z
      BY <3>3
    <3>5. q = 0
      BY <3>1, <3>2, <3>3, <3>4
    <3> QED BY <3>1, <3>2, <3>4, <3>5
  <2>8. x + Len(given.fraction) = IF given.sign = <<45>> THEN -Capped(Decimal(given.power))
                                   ELSE Capped(Decimal(given.power))
    BY <2>1, <2>3, <2>6, <2>7 DEF DigitsRead
  <2> QED BY <1>5, <2>1, <2>5, <2>8, StoreStep
<1>6. CASE ExponentDigit /\ ~AtDigit
  <2>1. PICK k \in 0..e : InPower(k)
    <3>1. at = "exponent_start" => InPower(0)
      BY DEF InNumeral, Reading
    <3>2. at = "exponent" => \E k \in 0..e : InPower(k)
      BY <1>1 DEF InNumeral, Reading, Sized
    <3> QED BY <1>6, <3>1, <3>2 DEF ExponentDigit
  <2>2. /\ p = y + 2 + s + k /\ given.power # <<>> /\ e # 0 /\ Len(text) = y + s + e + 2
        /\ Len(given.power) = e /\ AfterSign(given) = y + 1 + s
    <3>1. /\ e # 0 /\ Len(text) = y + s + e + 2 /\ Len(given.power) = e
          /\ AfterSign(given) = y + 1 + s /\ given.power # <<>> /\ p = AfterSign(given) + 1 + k
      BY <1>1, <2>1 DEF InPower, Sized
    <3> QED BY <3>1
  <2>3. k = e
    <3> SUFFICES ASSUME k # e PROVE FALSE
      OBVIOUS
    <3>1. PICK j \in 1..e : j = k + 1
      OBVIOUS
    <3>2. p = AfterSign(given) + j /\ j \in 1..Len(given.power) /\ p <= Len(text) /\ p \in Nat
      <4>1. PICK a, l, m : a = AfterSign(given) /\ l = Len(text) /\ m = Len(given.power)
        OBVIOUS
      <4>2. p = y + 2 + s + k /\ l = y + s + e + 2 /\ m = e /\ a = y + 1 + s
        BY <2>2, <4>1
      <4>3. p = a + j /\ j \in 1..m /\ p <= l /\ p \in Nat
        BY <3>1, <4>2
      <4> QED BY <4>1, <4>3
    <3>3. text[p] \in Digits
      <4>1. given \in NumberTexts /\ text = given.bytes
        BY DEF InNumeral
      <4>2. text[AfterSign(given) + j] \in Digits
        BY <2>2, <3>1, <4>1, SeenPower
      <4> QED BY <3>2, <4>2
    <3> QED BY <1>6, <2>2, <3>2, <3>3 DEF AtDigit, IS_NUM, Digits, at_eof
  <2>4. at # "exponent_start"
    <3> SUFFICES ASSUME at = "exponent_start" PROVE FALSE
      OBVIOUS
    <3>1. InPower(0)
      BY DEF InNumeral, Reading
    <3>2. p = AfterSign(given) + 1 + 0
      BY <3>1 DEF InPower
    <3> QED BY <2>2, <2>3, <3>2
  <2>5. /\ number.exp = Capped(Decimal(given.power)) /\ DigitsRead /\ number.try_double
        /\ number.negativeExponent = (given.sign = <<45>>)
    BY <1>4, <2>1, <2>2, <2>3 DEF InPower
  <2>6. number.exponent \in Int /\ number.exp \in Nat /\ Len(given.fraction) \in Nat
        /\ number.exponent + Len(given.fraction) = 0
    BY <1>1, <1>2, <2>5 DEF NumberLocals, DigitsRead, Sized
  <2>7. PICK x \in Int : x = number.exponent + (IF number.negativeExponent THEN -number.exp ELSE number.exp)
    BY <2>6
  <2>8. Store([number EXCEPT !.exponent = x])
    <3>1. [number EXCEPT !.exponent = @ + (IF number.negativeExponent THEN -number.exp ELSE number.exp)]
          = [number EXCEPT !.exponent = x]
      BY <1>2, <2>7 DEF NumberLocals
    <3> QED BY <1>6, <2>4, <3>1 DEF ExponentDigit
  <2>9. x + Len(given.fraction) = IF given.sign = <<45>> THEN -Capped(Decimal(given.power))
                                   ELSE Capped(Decimal(given.power))
    <3>1. CASE given.sign = <<45>>
      <4>1. x = number.exponent + (-number.exp)
        BY <2>5, <2>7, <3>1
      <4>2. x + Len(given.fraction) = -number.exp
        BY <2>6, <4>1
      <4> QED BY <2>5, <3>1, <4>2
    <3>2. CASE given.sign # <<45>>
      <4>1. x = number.exponent + number.exp
        BY <2>5, <2>7, <3>2
      <4>2. x + Len(given.fraction) = number.exp
        BY <2>6, <4>1
      <4> QED BY <2>5, <3>2, <4>2
    <3> QED BY <3>1, <3>2
  <2> QED BY <2>5, <2>8, <2>9, StoreStep
<1> QED BY <1>5, <1>6

LEMMA NumberSteps == NumberInv /\ [JsonTextNext]_textVars => NumberInv'
<1> SUFFICES ASSUME NumberInv, [JsonTextNext]_textVars PROVE NumberInv'
  OBVIOUS
<1>1. given' = given
  BY DEF JsonTextNext, textVars, PlainByte, FoundQuote, FoundOther, SlowQuote, SlowEscape, SlowByte,
         EndOfString, NumberSign, FirstDigit, WholeDigit, Point, FractionDigit, Exponent, ExponentSign,
         ExponentDigit, Advance, Store, FailText, Decode, DecodeUnicode, Stays
<1>2. CASE IsString(given)
  BY <1>1, <1>2 DEF NumberInv, IsString
<1>3. CASE UNCHANGED textVars
  <2>1. UNCHANGED <<text, given, p, at, number>>
    BY <1>3 DEF textVars
  <2>2. Reading => Reading'
    BY <2>1 DEF Reading, InWhole, InFraction, InPower, DigitsRead, NoPowerRead, HasRead, SignRead,
                AllDigits
  <2>3. NumberExact => NumberExact'
    BY <2>1 DEF NumberExact
  <2> QED BY <2>1, <2>2, <2>3 DEF NumberInv
<1>4. CASE ~IsString(given) /\ JsonTextNext
  <2>1. given \in NumberTexts /\ text = given.bytes
    BY <1>4 DEF NumberInv
  <2>2. Reading \/ at \in {"integer", "double", "infinity", "zero"}
    BY <1>4 DEF NumberInv
  <2>3. at \notin {"fast", "slow"}
    BY <2>2 DEF Reading
  <2>4. \/ NumberSign \/ FirstDigit \/ WholeDigit \/ Point \/ FractionDigit
        \/ Exponent \/ ExponentSign \/ ExponentDigit
    BY <1>4, <2>3 DEF JsonTextNext, PlainByte, FoundQuote, FoundOther, SlowQuote, SlowEscape,
                      SlowByte, EndOfString
  <2>5. InNumeral
    BY <1>4, <2>1, <2>2, <2>4 DEF InNumeral, NumberSign, FirstDigit, WholeDigit, Point, FractionDigit,
                                  Exponent, ExponentSign, ExponentDigit
  <2>6. text' = text
    BY <2>4 DEF NumberSign, FirstDigit, WholeDigit, Point, FractionDigit, Exponent, ExponentSign,
                ExponentDigit, Advance, Store, FailText, Stays
  <2>7. \/ Reading'
        \/ at' \in {"integer", "double", "infinity", "zero"} /\ NumberExact'
    BY <2>4, <2>5, SignStep, FirstStep, WholeStep, PointStep, FractionStep, MarkStep,
       SignOfPowerStep, PowerStep, EndStep
  <2> QED BY <1>1, <2>1, <2>6, <2>7 DEF NumberInv
<1> QED BY <1>2, <1>3, <1>4

THEOREM NumbersExact == JsonTextSpec => []NumberExact
<1>1. NumberInv => NumberExact
  <2> SUFFICES ASSUME NumberInv PROVE NumberExact
    OBVIOUS
  <2>1. CASE Reading
    <3>1. number.i \in -INT_MAX..INT_MAX
      BY <2>1, TextAssumption DEF Reading, NumberLocals
    <3>2. at \notin {"integer", "double", "infinity", "zero", "refused"}
      BY <2>1 DEF Reading
    <3> QED BY <3>1, <3>2 DEF NumberExact
  <2> QED BY <2>1 DEF NumberInv, NumberExact
<1> QED BY <1>1, NumberStarts, NumberSteps, PTL DEF JsonTextSpec
=============================================================================
