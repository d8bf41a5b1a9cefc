------------------------ MODULE MCStaticFileHandler ------------------------
(* Two requests at a time.  Version 1 is the plain file and 2 the          *)
(* compressed one at the start; what follows is longer or shorter.         *)
EXTENDS StaticFileHandler, TLC

CONSTANTS r1, r2

OneRequest == {r1}
TwoRequests == {r1, r2}
Interchangeable == Permutations(TwoRequests)

Growing == <<3, 2, 5>>
Shrinking == <<5, 2, 3>>
WithEmpty == <<0, 2, 5>>
EmptyCompressed == <<5, 0, 3>>
Stamps == <<1, 2, 3>>

Plainly == [gzip |-> FALSE, range |-> [form |-> "none", from |-> Empty, to |-> Empty], since |-> 0]
Gzip == [Plainly EXCEPT !.gzip = TRUE]
Since(a, time) == [a EXCEPT !.since = time]
Ranged(a, from, to) == [a EXCEPT !.range = [form |-> "bytes", from |-> from, to |-> to]]

Conversations ==
    {Since(Plainly, 1), Gzip, Ranged(Gzip, 1, 9), Ranged(Plainly, Empty, 1), Ranged(Plainly, 2, 102)}
Few == {Plainly, Gzip}
=============================================================================
