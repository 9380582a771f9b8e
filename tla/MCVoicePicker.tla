-------------------------- MODULE MCVoicePicker --------------------------
(* Three voices: one found in all lists, one in two of them, one in one. *)
EXTENDS VoicePicker

CONSTANTS ashe, bree, cleo

ThreeVoices == {ashe, bree, cleo}
ThreeLists ==
    [all      |-> <<ashe, bree, cleo>>,
     english  |-> <<bree, cleo>>,
     expresso |-> <<cleo>>]
=============================================================================
