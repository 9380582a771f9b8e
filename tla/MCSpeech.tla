------------------------------ MODULE MCSpeech ------------------------------
(***************************************************************************)
(* Speech on small instances.  With a lookahead of two, the third word of  *)
(* a reply brings out the first while the other two wait for the drain, so *)
(* frames leave the generator both in the middle of a word and at the      *)
(* close; with a lookahead of one, a reply of two words and a /say of two  *)
(* entries do the same.  Two replies show what one leaves to the next, two *)
(* words what a /say between them does to the second.                      *)
(***************************************************************************)
EXTENDS Speech

CONSTANTS c1, c2, s1, p1, v1, v2, v3

OneConn   == {c1}
TwoConns  == {c1, c2}
OneSayer  == {s1}
OnePicker == {p1}
Nobody    == {}
TwoVoices == {v1, v2}
ThreeVoices == {v1, v2, v3}
=============================================================================
