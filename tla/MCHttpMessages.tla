--------------------------- MODULE MCHttpMessages ---------------------------
(* Texts of which one is a prefix of the other, so that a shared string can  *)
(* begin where another one does.                                             *)
EXTENDS HttpMessages

PrefixAndWhole == {<<1>>, <<1, 2>>}
=============================================================================
