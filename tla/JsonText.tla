------------------------------ MODULE JsonText ------------------------------
(* The scalars of a json text, byte by byte: strings, which sajson decodes in *)
(* place (parse_string, parse_string_slow), and numbers (parse_number); and   *)
(* jsonEncode, which writes the strings that the first must read back.        *)
(* A text is the bytes after the opening quote, or from a number's first      *)
(* byte, together with what it is supposed to mean.                           *)
EXTENDS Bytes, FiniteSets, SequencesExt

CONSTANTS
  INT_MAX,
  MIN_POW, MAX_POW,   \* the powers of ten a double can hold: -MIN_POW..MAX_POW (323, 308)
  StringTexts,        \* [pieces, ending, bytes, means]: pieces of a string, what ends it, and
                      \* what it means: the decoded bytes, or Refused
  NumberTexts         \* [negative, whole, fraction, mark, sign, power, last, bytes]: a
                      \* numeral and its bytes, to the one that ends it

Refused == <<-1>>

IsString(given_text) == "means" \in DOMAIN given_text

\* A numeral; without digits the fraction, or the power of ten, is absent.
Digits == 48..57
Spelt(t) == (IF t.negative THEN <<45>> ELSE <<>>) \o t.whole
            \o (IF t.fraction = <<>> THEN <<>> ELSE <<46>> \o t.fraction)
            \o (IF t.power = <<>> THEN <<>> ELSE <<t.mark>> \o t.sign \o t.power)
            \o <<t.last>>
PowerOfTen(t) == IF t.sign = <<45>> THEN -Decimal(t.power) ELSE Decimal(t.power)

\* As json has it.  The fraction is shorter than an int can count.
IsNumeral(t) ==
  /\ t.negative \in BOOLEAN
  /\ t.whole \in Seq(Digits) /\ t.whole # <<>> /\ (t.whole[1] = 48 => Len(t.whole) = 1)
  /\ t.fraction \in Seq(Digits) /\ Len(t.fraction) + MAX_POW < INT_MAX
  /\ t.mark \in {69, 101} /\ t.sign \in {<<>>, <<43>>, <<45>>} /\ t.power \in Seq(Digits)
  /\ t.last \in 0..255 \ (Digits \cup {46, 69, 101})
  /\ t.bytes = Spelt(t)

VARIABLES
  text,        \* the bytes, as they are now
  given,       \* ghost: the text as it was given
  p,           \* the byte to be read
  end,         \* where the next decoded byte goes
  at,          \* where in the functions the parser is
  number       \* the locals of parse_number

textVars == <<text, given, p, end, at, number>>

at_eof(i) == i > Len(text)
has_remaining_characters(i, remaining) == Len(text) - i + 1 >= remaining

-----------------------------------------------------------------------------
(* Strings *)

\* The plain bit of parse_flags: printable bytes other than quote and backslash.
is_plain_string_character(c) == c \in 32..127 \ {34, 92}

HexDigit(c) == CASE c \in 48..57 -> c - 48
                 [] c \in 97..102 -> c - 87
                 [] c \in 65..70 -> c - 55
                 [] OTHER -> -1

\* read_hex: four digits, or -1.
read_hex(i) ==
  LET h == [k \in 0..3 |-> HexDigit(text[i + k])]
  IN IF \E k \in 0..3 : h[k] = -1 THEN -1
     ELSE 4096 * h[0] + 256 * h[1] + 16 * h[2] + h[3]

\* The six bits of a codepoint that count `unit'.
Continuation(codepoint, unit) == 128 + ((codepoint \div unit) % 64)

write_utf8(codepoint) ==
  IF codepoint < 128 THEN <<codepoint>>
  ELSE IF codepoint < 2048 THEN <<192 + codepoint \div 64, Continuation(codepoint, 1)>>
  ELSE IF codepoint < 65536
  THEN <<224 + codepoint \div 4096, Continuation(codepoint, 64), Continuation(codepoint, 1)>>
  ELSE <<240 + codepoint \div (64 * 4096), Continuation(codepoint, 4096),
         Continuation(codepoint, 64), Continuation(codepoint, 1)>>

\* The bytes go to `end' and beyond, over what has been read.
Written(bytes) == [i \in 1..Len(text) |->
                     IF i >= end /\ i < end + Len(bytes) THEN bytes[i - end + 1] ELSE text[i]]

Replacements == [c \in {34, 92, 47, 98, 102, 110, 114, 116} |->
                   CASE c = 98 -> 8 [] c = 102 -> 12 [] c = 110 -> 10 [] c = 114 -> 13
                     [] c = 116 -> 9 [] OTHER -> c]

Stays == UNCHANGED <<given, number>>

\* make_error
FailText == at' = "refused" /\ UNCHANGED <<text, p, end>> /\ Stays

\* parse_string's two loops: four bytes at a time, then one by one.
PlainByte ==
  /\ at = "fast"
  /\ ~at_eof(p)
  /\ is_plain_string_character(text[p])
  /\ p' = p + 1
  /\ end' = p + 1
  /\ UNCHANGED <<text, at>> /\ Stays

\* found:
FoundQuote ==
  /\ at = "fast" /\ ~at_eof(p) /\ text[p] = 34
  /\ text' = [text EXCEPT ![p] = 0]
  /\ p' = p + 1
  /\ at' = "decoded"
  /\ UNCHANGED end /\ Stays

FoundOther ==
  /\ at = "fast" /\ ~at_eof(p)
  /\ ~is_plain_string_character(text[p]) /\ text[p] # 34
  /\ IF text[p] < 32 THEN FailText
     ELSE at' = "slow" /\ UNCHANGED <<text, p, end>> /\ Stays

SlowQuote ==
  /\ at = "slow" /\ ~at_eof(p) /\ text[p] = 34
  /\ text' = [text EXCEPT ![end] = 0]
  /\ p' = p + 1
  /\ at' = "decoded"
  /\ UNCHANGED end /\ Stays

\* One piece of the string has been read and its decoded bytes go to `end'.
Decode(taken, bytes) ==
  /\ text' = Written(bytes)
  /\ p' = p + taken
  /\ end' = end + Len(bytes)
  /\ UNCHANGED at /\ Stays

\* A slip: the two halves of a pair are written one by one.
DecodeEachHalf ==
  LET u == read_hex(p + 2) IN IF u = -1 THEN FailText ELSE Decode(6, write_utf8(u))

\* \uXXXX, and a leading surrogate with the \uXXXX that must follow it.
DecodeUnicode ==
  LET u == read_hex(p + 2)
      v == read_hex(p + 8)
  IN CASE u = -1 -> FailText
       [] u >= 55296 /\ u <= 56319 ->
            IF ~has_remaining_characters(p + 6, 6) \/ text[p + 6] # 92 \/ text[p + 7] # 117
            THEN FailText
            ELSE IF v < 56320 \/ v > 57343 THEN FailText
                 ELSE Decode(12, write_utf8(65536 + 1024 * (u - 55296) + (v - 56320)))
       [] OTHER -> Decode(6, write_utf8(u))

SlowEscape ==
  /\ at = "slow" /\ ~at_eof(p) /\ text[p] = 92
  /\ CASE at_eof(p + 1) -> FailText
       [] ~at_eof(p + 1) /\ text[p + 1] = 117 ->
            IF has_remaining_characters(p + 2, 4) THEN DecodeUnicode ELSE FailText
       [] OTHER -> IF text[p + 1] \in DOMAIN Replacements
                   THEN Decode(2, <<Replacements[text[p + 1]]>>) ELSE FailText

Utf8Length(c0) == CASE c0 < 128 -> 1 [] c0 \in 128..223 -> 2 [] c0 \in 224..239 -> 3
                    [] c0 \in 240..247 -> 4 [] OTHER -> 0

SlowByte ==
  /\ at = "slow" /\ ~at_eof(p) /\ text[p] \notin {34, 92}
  /\ LET n == Utf8Length(text[p])
     IN IF \/ text[p] < 32
           \/ n = 0
           \/ ~has_remaining_characters(p, n)
           \/ \E k \in 1..(n - 1) : text[p + k] \notin 128..191
        THEN FailText
        ELSE Decode(n, SubSeq(text, p, p + n - 1))

EndOfString == at \in {"fast", "slow"} /\ at_eof(p) /\ FailText

-----------------------------------------------------------------------------
(* What the strings mean: the pieces of n bytes that start at b[i] are a plain *)
(* byte, an escape, \uXXXX or a pair of these, and a character in utf-8.       *)

IsUnicode(b, i) == b[i] = 92 /\ b[i + 1] = 117 /\ \A k \in 2..5 : HexDigit(b[i + k]) # -1
Unicode(b, i) == 4096 * HexDigit(b[i + 2]) + 256 * HexDigit(b[i + 3])
                 + 16 * HexDigit(b[i + 4]) + HexDigit(b[i + 5])
Leads(u) == u >= 55296 /\ u <= 56319
Trails(u) == u >= 56320 /\ u <= 57343
Paired(u, v) == 65536 + 1024 * (u - 55296) + (v - 56320)

IsPiece(b, i, n) ==
  \/ n = 1 /\ is_plain_string_character(b[i])
  \/ n = 2 /\ b[i] = 92 /\ b[i + 1] \in DOMAIN Replacements
  \/ n = 6 /\ IsUnicode(b, i) /\ ~Leads(Unicode(b, i))
  \/ n = 12 /\ IsUnicode(b, i) /\ Leads(Unicode(b, i))
            /\ IsUnicode(b, i + 6) /\ Trails(Unicode(b, i + 6))
  \/ n \in 2..4 /\ b[i] \in 128..255 /\ Utf8Length(b[i]) = n
                /\ \A k \in 1..(n - 1) : b[i + k] \in 128..191

Meaning(b, i, n) ==
  CASE b[i] # 92 -> SubSeq(b, i, i + n - 1)
    [] b[i] = 92 /\ n = 2 -> <<Replacements[b[i + 1]]>>
    [] b[i] = 92 /\ n = 6 -> write_utf8(Unicode(b, i))
    [] OTHER -> write_utf8(Paired(Unicode(b, i), Unicode(b, i + 6)))

\* Neither a piece nor the quote
IsBroken(b) == \A n \in 1..Len(b) : b[1] # 34 /\ ~IsPiece(b, 1, n)

Meanings(pieces) == [i \in 1..Len(pieces) |-> Meaning(pieces[i], 1, Len(pieces[i]))]

IsSpelt(t) ==
  /\ t.pieces \in Seq(Seq(0..255)) /\ t.ending \in Seq(0..255)
  /\ \A i \in 1..Len(t.pieces) : IsPiece(t.pieces[i], 1, Len(t.pieces[i]))
  /\ t.bytes = FlattenSeq(t.pieces) \o t.ending
  /\ \/ t.ending = <<34>> /\ t.means = FlattenSeq(Meanings(t.pieces))
     \/ IsBroken(t.ending) /\ t.means = Refused

ASSUME TextAssumption ==
  /\ INT_MAX \in Nat /\ INT_MAX >= 100
  /\ MIN_POW \in Nat /\ MIN_POW < INT_MAX /\ MAX_POW \in Nat
  /\ \A t \in StringTexts : IsString(t) /\ IsSpelt(t)
  /\ \A t \in NumberTexts : ~IsString(t) /\ IsNumeral(t)

-----------------------------------------------------------------------------
(* jsonEncode *)

Hex(n) == IF n < 10 THEN 48 + n ELSE 87 + n

JsonEncodeMapping(c) ==
  CASE c = 8 -> <<92, 98>> [] c = 9 -> <<92, 116>> [] c = 10 -> <<92, 110>>
    [] c = 12 -> <<92, 102>> [] c = 13 -> <<92, 114>>
    [] c = 34 -> <<92, 34>> [] c = 92 -> <<92, 92>>
    [] c < 32 /\ c \notin {8, 9, 10, 12, 13} -> <<92, 117, 48, 48, Hex(c \div 16), Hex(c % 16)>>
    [] OTHER -> <<c>>

\* The string itself when no byte grows; else each byte's encoding in turn.
jsonEncode(str) ==
  LET mapped(c) == IF Len(JsonEncodeMapping(c)) = 1 THEN <<c>> ELSE JsonEncodeMapping(c)
  IN IF \A i \in 1..Len(str) : Len(JsonEncodeMapping(str[i])) = 1 THEN str
     ELSE FlattenSeq([i \in 1..Len(str) |-> mapped(str[i])])

-----------------------------------------------------------------------------
(* parse_number.  A double is its decimal digits and a power of ten: what the *)
(* rounding of doubles adds is left out.                                      *)

NewNumber == [negative |-> FALSE, try_double |-> FALSE, i |-> 0, d |-> 0,
              exponent |-> 0, negativeExponent |-> FALSE, exp |-> 0]

AtDigit == ~at_eof(p) /\ IS_NUM(text[p])
digit == text[p] - 48

\* try_double from here on: the value moves from the integer to the double.
AsDouble(n) == IF n.try_double THEN n ELSE [n EXCEPT !.try_double = TRUE, !.d = n.i]

\* p moves to the next byte; a number that reaches the end of the text is refused.
Advance(label, n) ==
  IF at_eof(p + 1) THEN FailText
  ELSE /\ p' = p + 1
       /\ at' = label
       /\ number' = n
       /\ UNCHANGED <<text, given, end>>

NumberSign ==
  /\ at = "number" /\ text[p] = 45
  /\ Advance("digits", [number EXCEPT !.negative = TRUE])

\* A leading zero stands alone: the whole part ends with it.
FirstDigit ==
  /\ at = "digits" \/ (at = "number" /\ text[p] # 45)
  /\ CASE ~AtDigit -> FailText
       [] AtDigit /\ digit = 0 -> Advance("point", number)
       [] OTHER -> at' = "whole" /\ UNCHANGED <<text, p, end>> /\ Stays

\* A slip: the integer takes digits until the next one would not fit.
WithDigitLate(n) ==
  LET m == IF ~n.try_double /\ n.i > INT_MAX \div 10 THEN AsDouble(n) ELSE n
  IN IF m.try_double THEN [m EXCEPT !.d = 10 * @ + digit] ELSE [m EXCEPT !.i = 10 * @ + digit]

\* The integer takes a digit while any digit would fit.
WithDigit(n) ==
  LET m == IF ~n.try_double /\ n.i > INT_MAX \div 10 - 9 THEN AsDouble(n) ELSE n
  IN IF m.try_double THEN [m EXCEPT !.d = 10 * @ + digit] ELSE [m EXCEPT !.i = 10 * @ + digit]

WholeDigit ==
  /\ at = "whole"
  /\ IF AtDigit THEN Advance("whole", WithDigit(number))
     ELSE at' = "point" /\ UNCHANGED <<text, p, end>> /\ Stays

Point ==
  /\ at = "point"
  /\ IF text[p] = 46 THEN Advance("fraction_start", AsDouble(number))
     ELSE at' = "e" /\ UNCHANGED <<text, p, end>> /\ Stays

FractionDigit ==
  /\ at \in {"fraction_start", "fraction"}
  /\ CASE AtDigit -> Advance("fraction", [number EXCEPT !.d = 10 * @ + digit,
                                                        !.exponent = @ - 1])
       [] ~AtDigit /\ at = "fraction_start" -> FailText
       [] OTHER -> at' = "e" /\ UNCHANGED <<text, p, end>> /\ Stays

\* pow10, and no product of zero with an infinite power.
pow10(exponent) == CASE exponent > MAX_POW -> "infinity"
                     [] exponent < -MIN_POW -> "zero"
                     [] OTHER -> "finite"

\* The end of the number: the exponent is applied, then the sign.
Store(n) ==
  LET power == IF n.exponent # 0 /\ n.d # 0 THEN pow10(n.exponent) ELSE "finite"
  IN /\ at' = IF ~n.try_double THEN "integer" ELSE IF power = "finite" THEN "double" ELSE power
     /\ number' = IF ~n.negative THEN n
                  ELSE IF n.try_double THEN [n EXCEPT !.d = -@] ELSE [n EXCEPT !.i = -@]
     /\ UNCHANGED <<text, given, p, end>>

Exponent ==
  /\ at = "e"
  /\ IF text[p] \in {69, 101} THEN Advance("exponent_sign", AsDouble(number)) ELSE Store(number)

ExponentSign ==
  /\ at = "exponent_sign"
  /\ IF text[p] \in {43, 45}
     THEN Advance("exponent_start", [number EXCEPT !.negativeExponent = (text[p] = 45)])
     ELSE at' = "exponent_start" /\ UNCHANGED <<text, p, end>> /\ Stays

\* An exponent that overflows stays at the largest value.
WithExponentDigit(n) ==
  [n EXCEPT !.exp = IF @ > (INT_MAX - digit) \div 10 THEN INT_MAX ELSE 10 * @ + digit]

ExponentDigit ==
  /\ at \in {"exponent_start", "exponent"}
  /\ CASE AtDigit -> Advance("exponent", WithExponentDigit(number))
       [] ~AtDigit /\ at = "exponent_start" -> FailText
       [] OTHER -> Store([number EXCEPT !.exponent =
                            @ + (IF number.negativeExponent THEN -number.exp ELSE number.exp)])

-----------------------------------------------------------------------------
JsonTextInit ==
  /\ given \in StringTexts \cup NumberTexts
  /\ text = given.bytes
  /\ p = 1
  /\ end = 1
  /\ at = IF IsString(given) THEN "fast" ELSE "number"
  /\ number = NewNumber

JsonTextNext ==
  \/ PlainByte \/ FoundQuote \/ FoundOther \/ SlowQuote \/ SlowEscape \/ SlowByte
  \/ EndOfString
  \/ NumberSign \/ FirstDigit \/ WholeDigit \/ Point \/ FractionDigit
  \/ Exponent \/ ExponentSign \/ ExponentDigit

JsonTextSpec == JsonTextInit /\ [][JsonTextNext]_textVars

-----------------------------------------------------------------------------
(* Properties *)

\* A string is decoded where it stands: the decoded bytes never reach a byte that
\* has not been read yet, and what comes out is what the text means - for the
\* texts that jsonEncode writes, the string that was encoded.
DecodedInPlace ==
  /\ end <= p
  /\ at \in {"fast", "slow"} => SubSeq(text, p, Len(text)) = SubSeq(given.bytes, p, Len(text))
  /\ at = "decoded" => SubSeq(text, 1, end - 1) = given.means
  /\ at = "refused" /\ IsString(given) => given.means = Refused

\* A number is exact: the int never leaves its range on the way, what is stored
\* as an int or as a double is the numeral, and an exponent of any length only
\* ever makes a nonzero value infinite or zero.
NumberExact ==
  LET signed(v) == IF given.negative THEN -v ELSE v
      power == PowerOfTen(given) - Len(given.fraction)
  IN IsString(given) \/
     /\ number.i \in -INT_MAX..INT_MAX
     /\ at = "integer" => /\ number.i = signed(Decimal(given.whole))
                          /\ given.fraction = <<>> /\ given.power = <<>>
     /\ at = "double" => /\ number.d = signed(Decimal(given.whole \o given.fraction))
                         /\ number.d # 0 => number.exponent = power
     /\ at = "infinity" => power > MAX_POW
     /\ at = "zero" => power < -MIN_POW
     /\ at # "refused"

=============================================================================
