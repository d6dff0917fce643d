----------------------------- MODULE MCMemArea -----------------------------
EXTENDS MemArea, TLC

(* Two chunks, too few for a dual buffer; three; and one more.             *)
TwoToFour == {2, 3, 4}
=============================================================================
