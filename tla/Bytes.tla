------------------------------- MODULE Bytes -------------------------------
(***************************************************************************)
(* Bytes are numbers below 256 and a buffer is a sequence of them.  The    *)
(* literals of the code are written as TLA+ strings and turned into bytes. *)
(***************************************************************************)
EXTENDS Integers, Sequences

(* The printable ASCII characters but the back quote, in order.            *)
LOCAL BeforeQuote ==
    " !\"#$%&'()*+,-./0123456789:;<=>?@ABCDEFGHIJKLMNOPQRSTUVWXYZ[\\]^_"
LOCAL AfterQuote == "abcdefghijklmnopqrstuvwxyz{|}~"

(* The code of each character that a literal may contain.                  *)
Code ==
    LET Coded(s, first) == {<<SubSeq(s, i, i), first + i - 1>> : i \in 1..Len(s)}
        pairs == Coded(BeforeQuote, 32) \cup Coded(AfterQuote, 97)
                 \cup {<<"\t", 9>>, <<"\n", 10>>, <<"\r", 13>>}
    IN  [c \in {pair[1] : pair \in pairs} |->
            (CHOOSE pair \in pairs : pair[1] = c)[2]]

Text(s) == [i \in 1..Len(s) |-> Code[SubSeq(s, i, i)]]

CR == 13
LF == 10
SP == 32
HT == 9

IS_NUM(c) == c \in 48..57
LOWER(c) == IF (c \div 32) % 2 = 0 THEN c + 32 ELSE c
IS_ALPHA(c) == LOWER(c) \in 97..122
IS_ALPHANUM(c) == IS_ALPHA(c) \/ IS_NUM(c)

(* The number that a sequence of decimal digits stands for.                *)
Decimal(digits) ==
    LET Value[n \in 0..Len(digits)] ==
            IF n = 0 THEN 0 ELSE 10 * Value[n - 1] + (digits[n] - 48)
    IN  Value[Len(digits)]
=============================================================================
