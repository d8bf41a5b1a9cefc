---------------------------- MODULE JsonDocument ----------------------------
(* The structure parser of the json deserializer (sajson, parse()) with its   *)
(* single_allocation policy.  One buffer holds one word per byte of the text: *)
(* the parse stack grows up from its bottom, the finished tree grows down     *)
(* from its top, and nothing tests that the two stay apart - the room is      *)
(* argued from the number of bytes that every word cost.                      *)
(*                                                                            *)
(* The text is read as a sequence of pieces, chosen as the parser meets them: *)
(* a piece has a length in bytes and, where it matters, a content.  What the  *)
(* pieces may be (Strings, Numbers) is the contract that module JsonText      *)
(* checks on the bytes.                                                       *)
EXTENDS Integers, Sequences, FiniteSets

CONSTANTS
  MaxLength,     \* the longest text, in bytes
  VALUE_MASK,    \* the largest value an element can carry
  Strings,       \* [taken, content]: a string literal with its quotes, decoded
  Numbers        \* [taken, type, value]: a number literal

ASSUME SizeAssumption ==
  MaxLength \in Nat /\ VALUE_MASK \in Nat /\ VALUE_MASK > MaxLength
ASSUME StringsAssumption ==
  \A s \in Strings : s.taken \in Nat /\ s.taken >= 2 /\ Len(s.content) + 2 <= s.taken
ASSUME NumbersAssumption == \A n \in Numbers : n.taken \in Nat /\ n.taken >= 1

VARIABLES
  length,                  \* size of the text, and of the buffer in words
  used,                    \* bytes before p
  label,                   \* where parse() is
  words,                   \* the buffer
  stack_top,
  write_cursor,
  current_base,
  current_structure_type,
  data,                    \* the decoded strings, in place: offset -> content
  open,                    \* ghost: the structures the text has opened, as read
  meant                    \* ghost: the tree the text describes, once complete

vars == <<length, used, label, words, stack_top, write_cursor, current_base,
          current_structure_type, data, open, meant>>

-----------------------------------------------------------------------------
(* Elements: a type in the low bits, a value above them. *)

TYPE_INTEGER == 0
TYPE_DOUBLE == 1
TYPE_NULL == 2
TYPE_FALSE == 3
TYPE_TRUE == 4
TYPE_STRING == 5
TYPE_ARRAY == 6
TYPE_OBJECT == 7

ROOT_MARKER == VALUE_MASK
make_element(type, value) == type + 8 * value
get_element_type(element) == element % 8
get_element_value(element) == element \div 8

\* parse_null, parse_false and parse_true: a literal has its length and no word.
Literals == { [type |-> TYPE_NULL, taken |-> 4],
              [type |-> TYPE_FALSE, taken |-> 5],
              [type |-> TYPE_TRUE, taken |-> 4] }

get_write_offset(cursor) == length - cursor

-----------------------------------------------------------------------------
(* The order of object keys: shorter first, then byte by byte. *)

KeyOf(start, end) == SubSeq(data[start], 1, end - start)

memcmpLess(a, b) ==
  \E i \in 1..Len(a) : a[i] < b[i] /\ \A j \in 1..(i - 1) : a[j] = b[j]

\* A slip: keys are compared byte by byte only, whatever their lengths.
KeyLessBytes(a, b) ==
  LET shorter == IF Len(a) < Len(b) THEN Len(a) ELSE Len(b)
      x == SubSeq(a, 1, shorter)
      y == SubSeq(b, 1, shorter)
  IN memcmpLess(x, y) \/ (x = y /\ Len(a) < Len(b))

KeyLess(a, b) == \/ Len(a) < Len(b)
                 \/ Len(a) = Len(b) /\ memcmpLess(a, b)

\* std::sort keeps no order among equal keys: every sorted arrangement may come out.
SortedOrders(base, count) ==
  LET key(i) == KeyOf(words[base + 3 * i], words[base + 3 * i + 1])
  IN { order \in [0..(count - 1) -> 0..(count - 1)] :
         /\ \A i, j \in 0..(count - 1) : i # j => order[i] # order[j]
         /\ \A i, j \in 0..(count - 1) : i < j => ~KeyLess(key(order[j]), key(order[i])) }

-----------------------------------------------------------------------------
(* Closing a structure: its elements move from the stack to the tree.  Both   *)
(* loops copy from the last element down, so a source and a target that       *)
(* overlap are read before they are written.                                  *)

\* A slip: an element keeps the offset it had on the stack.
RelocatedNot(element, new_base) == element

\* An element is stored relative to the structure that holds it.
Relocated(element, new_base) ==
  make_element(get_element_type(element),
               (length - get_element_value(element)) - new_base)

install_array(base, top, new_base) ==
  LET count == top - base
  IN [i \in 0..(length - 1) |->
        IF i = new_base THEN count
        ELSE IF i > new_base /\ i <= new_base + count
             THEN Relocated(words[base + (i - new_base - 1)], new_base)
             ELSE words[i]]

install_object(base, top, new_base, order) ==
  LET count == (top - base) \div 3
      from(i) == LET at == i - new_base - 1
                 IN base + 3 * order[at \div 3] + (at % 3)
  IN [i \in 0..(length - 1) |->
        IF i = new_base THEN count
        ELSE IF i > new_base /\ i <= new_base + 3 * count
             THEN IF (i - new_base) % 3 = 0
                  THEN Relocated(words[from(i)], new_base)
                  ELSE words[from(i)]
             ELSE words[i]]

-----------------------------------------------------------------------------
JsonDocumentInit ==
  /\ length \in 0..MaxLength
  /\ used = 0
  /\ label = "root"
  /\ words = [i \in 0..(length - 1) |-> 0]
  /\ stack_top = 0
  /\ write_cursor = length
  /\ current_base = 0
  /\ current_structure_type = TYPE_NULL
  /\ data = [i \in 0..MaxLength |-> <<>>]
  /\ open = <<>>
  /\ meant = <<>>

Take(bytes) == used + bytes <= length /\ used' = used + bytes

\* Ghost: the structure the text opens next, and a value that it completes.
Frame(type) == [type |-> type, key |-> <<>>, items |-> <<>>]
WithValue(frames, value) ==
  LET top == frames[Len(frames)]
      item == IF top.type = TYPE_OBJECT THEN <<top.key, value>> ELSE value
  IN [frames EXCEPT ![Len(frames)].items = Append(@, item)]

\* skip_whitespace
Whitespace ==
  /\ label \notin {"done", "error"}
  /\ Take(1)
  /\ UNCHANGED <<length, label, words, stack_top, write_cursor, current_base,
                 current_structure_type, data, open, meant>>

\* A structure opens: its type and the base of the one around it go on the stack.
Open(type, saved_type, previous_base) ==
  /\ Take(1)
  /\ current_base' = stack_top
  /\ words' = [words EXCEPT ![stack_top] = make_element(saved_type, previous_base)]
  /\ stack_top' = stack_top + 1
  /\ current_structure_type' = type
  /\ label' = IF type = TYPE_ARRAY THEN "array_close_or_element"
                                   ELSE "object_close_or_element"
  /\ open' = Append(open, Frame(type))
  /\ UNCHANGED <<length, write_cursor, data, meant>>

OpenRoot ==
  /\ label = "root"
  /\ \E type \in {TYPE_ARRAY, TYPE_OBJECT} : Open(type, type, ROOT_MARKER)

\* At array_close_or_element a byte that closes nothing starts an element.
AtElement == label \in {"next_element", "array_close_or_element"}

OpenNested ==
  /\ AtElement
  /\ \E type \in {TYPE_ARRAY, TYPE_OBJECT} :
       Open(type, current_structure_type, current_base)

\* The value is complete: its element goes on the stack.
PushValue(type, buffer, top, cursor) ==
  /\ words' = [buffer EXCEPT ![top] = make_element(type, get_write_offset(cursor))]
  /\ stack_top' = top + 1
  /\ write_cursor' = cursor
  /\ label' = "structure_close_or_comma"

Literal ==
  /\ AtElement
  /\ \E l \in Literals :
       /\ Take(l.taken)
       /\ PushValue(l.type, words, stack_top, write_cursor)
       /\ open' = WithValue(open, <<l.type, <<>>>>)
  /\ UNCHANGED <<length, current_base, current_structure_type, data, meant>>

\* parse_number refuses a number at the very end of the text.
Number ==
  /\ AtElement
  /\ \E n \in Numbers :
       /\ Take(n.taken)
       /\ used' < length
       /\ PushValue(n.type, [words EXCEPT ![write_cursor - 1] = n.value],
                    stack_top, write_cursor - 1)
       /\ open' = WithValue(open, <<n.type, n.value>>)
  /\ UNCHANGED <<length, current_base, current_structure_type, data, meant>>

\* parse_string, in place: the tag is where the decoded bytes start and end.
Tagged(at, s) == [words EXCEPT ![at] = used + 1, ![at + 1] = used + 1 + Len(s.content)]

String ==
  /\ AtElement
  /\ \E s \in Strings :
       /\ Take(s.taken)
       /\ PushValue(TYPE_STRING, Tagged(write_cursor - 2, s), stack_top, write_cursor - 2)
       /\ data' = [data EXCEPT ![used + 1] = s.content]
       /\ open' = WithValue(open, <<TYPE_STRING, s.content>>)
  /\ UNCHANGED <<length, current_base, current_structure_type, meant>>

ObjectKey ==
  /\ label \in {"object_key", "object_close_or_element"}
  /\ \E s \in Strings :
       /\ Take(s.taken)
       /\ words' = Tagged(stack_top, s)
       /\ stack_top' = stack_top + 2
       /\ data' = [data EXCEPT ![used + 1] = s.content]
       /\ open' = [open EXCEPT ![Len(open)].key = s.content]
  /\ label' = "object_colon"
  /\ UNCHANGED <<length, write_cursor, current_base, current_structure_type, meant>>

Colon ==
  /\ label = "object_colon"
  /\ Take(1)
  /\ label' = "next_element"
  /\ UNCHANGED <<length, words, stack_top, write_cursor, current_base,
                 current_structure_type, data, open, meant>>

Comma ==
  /\ label = "structure_close_or_comma"
  /\ Take(1)
  /\ label' = IF current_structure_type = TYPE_ARRAY THEN "next_element" ELSE "object_key"
  /\ UNCHANGED <<length, words, stack_top, write_cursor, current_base,
                 current_structure_type, data, open, meant>>

\* pop: the root ends the parse; any other structure is a value of its parent,
\* whose element goes at `top'.
PopTo(top, pop_element, type, buffer, cursor) ==
  LET value == <<type, open[Len(open)].items>>
      parent == get_element_value(pop_element)
  IN IF parent = ROOT_MARKER
     THEN /\ label' = "end"
          /\ words' = buffer
          /\ write_cursor' = cursor
          /\ open' = <<>>
          /\ meant' = value
          /\ UNCHANGED <<stack_top, current_base, current_structure_type>>
     ELSE /\ PushValue(type, buffer, top, cursor)
          /\ current_base' = parent
          /\ current_structure_type' = get_element_type(pop_element)
          /\ open' = WithValue(SubSeq(open, 1, Len(open) - 1), value)
          /\ UNCHANGED meant

\* A slip: the stack is not reset to the base of the closed structure.
PopKeepsStack(pop_element, type, buffer, cursor) ==
  PopTo(stack_top, pop_element, type, buffer, cursor)

Pop(pop_element, type, buffer, cursor) ==
  PopTo(current_base, pop_element, type, buffer, cursor)

\* pop_array: pop_element is read before the tree can reach the stack's words.
CloseArray ==
  /\ \/ label = "array_close_or_element"
     \/ label = "structure_close_or_comma" /\ current_structure_type = TYPE_ARRAY
  /\ Take(1)
  /\ LET base == current_base + 1
         new_base == write_cursor - (stack_top - base) - 1
     IN Pop(words[current_base], TYPE_ARRAY, install_array(base, stack_top, new_base), new_base)
  /\ UNCHANGED <<length, data>>

\* pop_object
CloseObject ==
  /\ \/ label = "object_close_or_element"
     \/ label = "structure_close_or_comma" /\ current_structure_type = TYPE_OBJECT
  /\ Take(1)
  /\ LET base == current_base + 1
         new_base == write_cursor - (stack_top - base) - 1
     IN \E order \in SortedOrders(base, (stack_top - base) \div 3) :
          Pop(words[current_base], TYPE_OBJECT,
              install_object(base, stack_top, new_base, order), new_base)
  /\ UNCHANGED <<length, data>>

\* The text ends after the root: the document is valid.
Finish ==
  /\ label = "end"
  /\ used = length
  /\ label' = "done"
  /\ UNCHANGED <<length, used, words, stack_top, write_cursor, current_base,
                 current_structure_type, data, open, meant>>

\* make_error: at any other byte, in the middle of a piece, or where the text ends
\* too early.  Which error it is, and its line and column, are left out.
Refuse ==
  /\ label \notin {"done", "error"}
  /\ label = "end" => used < length
  /\ label' = "error"
  /\ UNCHANGED <<length, used, words, stack_top, write_cursor, current_base,
                 current_structure_type, data, open, meant>>

JsonDocumentNext ==
  \/ Whitespace \/ OpenRoot \/ OpenNested \/ Literal \/ Number \/ String
  \/ ObjectKey \/ Colon \/ Comma \/ CloseArray \/ CloseObject \/ Finish \/ Refuse

JsonDocumentSpec == JsonDocumentInit /\ [][JsonDocumentNext]_vars

-----------------------------------------------------------------------------
(* Properties *)

\* The words in use never outnumber the bytes that paid for them: an element
\* that was just pushed may be one ahead, and the byte that must follow it pays.
Room ==
  /\ write_cursor \in 0..length
  /\ stack_top \in 0..length
  /\ label \in {"array_close_or_element", "object_close_or_element", "object_key",
                "object_colon", "next_element"}
       => stack_top + (length - write_cursor) <= used
  /\ label = "structure_close_or_comma"
       => stack_top + (length - write_cursor) <= used + 1

\* The words of the stack that say where the structure around another one begins
\* are still there when it closes: following them leads down to the root.
LeadToRoot(bases, buffer) ==
  \A b \in bases :
    /\ buffer[b] \in Nat
    /\ \/ get_element_value(buffer[b]) = ROOT_MARKER
       \/ get_element_value(buffer[b]) \in bases /\ get_element_value(buffer[b]) < b
BasesSound ==
  \E bases \in SUBSET (0..(stack_top - 1)) : current_base \in bases /\ LeadToRoot(bases, words)

\* Inside a structure
Inside == label \in {"array_close_or_element", "object_close_or_element", "object_key",
                     "object_colon", "next_element", "structure_close_or_comma"}

\* Why the parse stays within the buffer: the words are paid for, and a structure
\* that closes takes the stack back to a base below it.
DocumentInv ==
  /\ length \in 0..MaxLength /\ used \in 0..length
  /\ Inside \/ label \in {"root", "end", "done", "error"}
  /\ label = "root" => stack_top = 0 /\ write_cursor = length
  /\ DOMAIN words = 0..(length - 1) /\ current_structure_type \in 0..7
  /\ Room
  /\ Inside => BasesSound

\* Stack and tree share the buffer of single_allocation without a test: they are
\* apart whenever another byte can still be read, so only a parse that can do
\* nothing but fail has ever written over a word of the other.
Apart ==
  /\ 0 <= write_cursor /\ stack_top <= length
  /\ label \notin {"end", "done", "error"} /\ used < length => stack_top <= write_cursor

=============================================================================
