--------------------------- MODULE StringBuilder ---------------------------
(* SharedStringBuilder, the conversions of integers and readAll(), which     *)
(* collects what a stream yields.  Sizes have the width of size_t and wrap;  *)
(* integers are those up to IntMax in two's complement, and wrap.            *)
EXTENDS Integers, Sequences, SequencesExt

CONSTANTS
  SizeMax,              \* numeric_limits<size_t>::max()
  MinCapacityForGrow,
  MaxReservedCapacity,
  IntMax,               \* numeric_limits<intmax_t>::max()
  Characters,
  Views,                \* string views, sequences of characters
  SampleIntegers,       \* integers that are appended
  Sizes,                \* sizes that are reserved, resized to or hinted at
  MaxReads,             \* bound: reads that a stream takes
  MaxText               \* bound: characters of the text, but for append(count, c)

DecimalDigits == <<"0", "1", "2", "3", "4", "5", "6", "7", "8", "9">>

\* IntMax + 1 is a power of two, and so no multiple of ten.  "?" is the character that
\* is read where nothing was written.
ASSUME BuilderAssumption ==
  /\ SizeMax \in Nat /\ MinCapacityForGrow \in Nat /\ MaxReservedCapacity \in Nat
  /\ IntMax \in Nat \ {0} /\ IntMax % 10 # 9
  /\ MaxReads \in Nat /\ MaxText \in 0..SizeMax /\ Sizes \subseteq 0..SizeMax
  /\ {DecimalDigits[d] : d \in 1..10} \cup {"-", "a", "?"} \subseteq Characters
  /\ Views \subseteq Seq(Characters) /\ SampleIntegers \subseteq (-IntMax - 1)..IntMax

VARIABLES
  buffer,     \* the characters of buffer_, its size is the capacity
  builtSize,  \* size_
  text,       \* ghost: what was appended
  handedOut   \* the last string that was handed out, ghost: and what it should be

builderVars == <<buffer, builtSize, text, handedOut>>

-----------------------------------------------------------------------------
Garbage(n) == [i \in 1..n |-> "?"]
SizeSum(a, b) == (a + b) % (SizeMax + 1)
SizeDifference(a, b) == (a - b) % (SizeMax + 1)
Larger(a, b) == IF a > b THEN a ELSE b
Smaller(a, b) == IF a < b THEN a ELSE b

Builder(b, n) == [buffer |-> b, size |-> n]
Current == Builder(buffer, builtSize)

\* The view of a builder; what it would read past its buffer is unknown.
ViewFrom(b, start) ==
  [i \in 1..(b.size - start) |-> IF start + i \in DOMAIN b.buffer THEN b.buffer[start + i] ELSE "?"]
View(b) == ViewFrom(b, 0)

\* A slip: the doubled size alone decides, as if it never wrapped.
ReserveDoubles(b, newSize) ==
  IF newSize <= Len(b.buffer) THEN b
  ELSE IF b.size = 0 THEN Builder(Garbage(newSize), 0)
  ELSE LET capacity == Larger(SizeSum(Len(b.buffer), Len(b.buffer)), MinCapacityForGrow)
       IN Builder([i \in 1..capacity |-> IF i <= b.size THEN View(b)[i] ELSE "?"], b.size)

\* reserve(): an empty builder forgets its buffer, another keeps its characters.
Reserve(b, newSize) ==
  IF newSize <= Len(b.buffer) THEN b
  ELSE IF b.size = 0 THEN Builder(Garbage(newSize), 0)
  ELSE LET doubled == SizeSum(Len(b.buffer), Len(b.buffer))
           capacity == Larger(Larger(newSize, doubled), MinCapacityForGrow)
       IN Builder([i \in 1..capacity |-> IF i <= b.size THEN View(b)[i] ELSE "?"], b.size)

\* grow() throws when the size would overflow.
Overflows(b, appendSize) == SizeMax - b.size < appendSize
Grow(b, appendSize) ==
  [Reserve(b, b.size + appendSize) EXCEPT !.size = b.size + appendSize]

\* Writing where grow() pointed at
WriteAt(b, offset, chars) ==
  [b EXCEPT !.buffer = [i \in DOMAIN @ |-> IF i - offset \in DOMAIN chars
                                           THEN chars[i - offset] ELSE @[i]]]
AppendChars(b, chars) ==
  IF chars = <<>> THEN b ELSE WriteAt(Grow(b, Len(chars)), b.size, chars)

-----------------------------------------------------------------------------
(* Integers *)

IntMin == -IntMax - 1
Wrapped(n) == ((n - IntMin) % (2 * (IntMax + 1))) + IntMin

\* The rest and the quotient of a division that truncates, as in C++
Rest(n) == IF n >= 0 THEN n % 10 ELSE -((-n) % 10)
Quotient(n) == IF n >= 0 THEN n \div 10 ELSE -((-n) \div 10)

\* The digits of a value, the last one first: a loop that runs at least once
Digit(n) == DecimalDigits[(IF Rest(n) >= 0 THEN Rest(n) ELSE -Rest(n)) + 1]
DigitsFrom[n \in IntMin..IntMax] ==
  IF Quotient(n) = 0 THEN <<Digit(n)>> ELSE <<Digit(n)>> \o DigitsFrom[Quotient(n)]

IntText(n) == (IF n < 0 THEN <<"-">> ELSE <<>>) \o Reverse(DigitsFrom[n])

DigitsOfMax[max \in 0..IntMax] == IF max >= 10 THEN 1 + DigitsOfMax[max \div 10] ELSE 1
\* getMaxStringSize(): the digits of the largest value and a sign
MaxIntSize == DigitsOfMax[IntMax] + 1

\* appendImpl(intmax_t): room for the longest integer, then the size that was used
AppendInt(b, n) ==
  [WriteAt(Grow(b, MaxIntSize), b.size, IntText(n)) EXCEPT !.size = b.size + Len(IntText(n))]

\* loadIntFromDec() as toInt() uses it: no value or one; "overflow isn't an error"
ValueOf(digits) ==
  LET value[i \in 0..Len(digits)] ==
        IF i = 0 THEN 0
        ELSE Wrapped(value[i - 1] * 10 + (CHOOSE d \in 0..9 : DecimalDigits[d + 1] = digits[i]))
  IN value[Len(digits)]
LoadIntFromDec(chars) ==
  LET minus == chars # <<>> /\ chars[1] = "-"
      digits == IF minus THEN Tail(chars) ELSE chars
  IN IF \E i \in DOMAIN digits : ~Contains(DecimalDigits, digits[i]) THEN <<>>
     ELSE <<IF minus THEN Wrapped(-ValueOf(digits)) ELSE ValueOf(digits)>>

-----------------------------------------------------------------------------
HandedOut(chars, expected) == [chars |-> chars, expected |-> expected]

NothingOut == HandedOut(<<>>, <<>>)

BuilderInit == buffer = <<>> /\ builtSize = 0 /\ text = <<>> /\ handedOut = NothingOut

\* Nothing reads what is in the buffer past size_, so the model forgets it.
Becomes(b) ==
  /\ buffer' = [i \in DOMAIN b.buffer |-> IF i <= b.size THEN b.buffer[i] ELSE "?"]
  /\ builtSize' = b.size

ReserveTo(n) == Becomes(Reserve(Current, n)) /\ text' = text /\ handedOut' = NothingOut

AppendView(view) ==
  /\ Len(text) + Len(view) <= MaxText
  /\ Becomes(AppendChars(Current, view)) /\ text' = text \o view /\ handedOut' = NothingOut

\* append(count, c), which throws a size that would overflow, as append() of an integer
\* does with MaxIntSize
AppendCopies(count) ==
  /\ ~Overflows(Current, count)
  /\ Becomes(WriteAt(Grow(Current, count), builtSize, [i \in 1..count |-> "a"]))
  /\ text' = text \o [i \in 1..count |-> "a"] /\ handedOut' = NothingOut
AppendThrows(count) == Overflows(Current, count) /\ UNCHANGED builderVars

\* What was written is read back, as fromInt() and toInt() do.
AppendInteger(n) ==
  /\ ~Overflows(Current, MaxIntSize) /\ Len(text) + Len(IntText(n)) <= MaxText
  /\ LET b == AppendInt(Current, n)
         written == ViewFrom(b, builtSize)
     IN /\ Becomes(b) /\ text' = text \o IntText(n)
        /\ handedOut' = HandedOut(LoadIntFromDec(written), <<n>>)

\* resize(): "the size must not greater than the capacity"; only to what was written
ResizeBuilder(n) ==
  /\ n <= builtSize
  /\ Becomes(Builder(buffer, n)) /\ text' = SubSeq(text, 1, n) /\ handedOut' = NothingOut
ClearBuilder == Becomes(Builder(buffer, 0)) /\ text' = <<>> /\ handedOut' = NothingOut

\* build(): the buffer is trimmed and leaves.
BuildString == buffer' = <<>> /\ builtSize' = 0 /\ text' = <<>>
         /\ handedOut' = HandedOut(View(Current), text)

-----------------------------------------------------------------------------
(* readAll(): a stream is the list of what its reads yield, the last of them *)
(* says isEnd; its size hint may be wrong.                                   *)

\* "avoid out-of-memory attack and handle overflow"
ReservedFor(n) == Smaller(n, MaxReservedCapacity)

Collected(b, parts) ==
  LET after[i \in 0..Len(parts)] == IF i = 0 THEN b ELSE AppendChars(after[i - 1], parts[i])
  IN after[Len(parts)]

\* readAll(stream, builder)
ReadInto(parts, hint) ==
  /\ Len(text) + Len(FlattenSeq(parts)) <= MaxText
  /\ Becomes(Collected(IF hint > 0 THEN Reserve(Current, ReservedFor(SizeSum(builtSize, hint)))
                       ELSE Current, parts))
  /\ text' = text \o FlattenSeq(parts) /\ handedOut' = NothingOut

\* readAll(stream): one read may be all there is; the hint may be less than it.
ReadAllOf(parts, hint) ==
  LET empty == Builder(<<>>, 0)
      reserved == IF hint > 0
                  THEN Reserve(empty, ReservedFor(SizeDifference(hint, Len(Head(parts)))))
                  ELSE empty
      all == Collected(reserved, parts)
  IN /\ Len(FlattenSeq(parts)) <= MaxText
     /\ handedOut' = IF Len(parts) = 1 THEN HandedOut(Head(parts), Head(parts))
                 ELSE HandedOut(View(all), FlattenSeq(parts))
     /\ UNCHANGED <<buffer, builtSize, text>>

Streams == UNION { [1..n -> Views \cup {<<>>}] : n \in 1..MaxReads }

BuilderNext ==
  \/ \E n \in Sizes : ReserveTo(n) \/ ResizeBuilder(n)
  \/ \E view \in Views : AppendView(view)
  \/ \E count \in {1, SizeMax} : AppendCopies(count)
  \/ \E count \in {1, MaxIntSize, SizeMax} : AppendThrows(count)
  \/ \E n \in SampleIntegers : AppendInteger(n)
  \/ ClearBuilder \/ BuildString
  \/ \E parts \in Streams, hint \in Sizes : ReadInto(parts, hint) \/ ReadAllOf(parts, hint)

BuilderSpec == BuilderInit /\ [][BuilderNext]_builderVars

-----------------------------------------------------------------------------
\* The builder never says that it is larger than its buffer, the buffer starts with
\* what was appended, through growing, wrapping of the doubled capacity, clearing and
\* reuse, and what is handed out - a built string, a stream that was read, an integer
\* that is read back - is what went in.
BuilderHolds ==
  /\ builtSize <= Len(buffer)
  /\ View(Current) = text
  /\ handedOut.chars = handedOut.expected
=============================================================================
