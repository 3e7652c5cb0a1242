----------------------------- MODULE MCReadSide -----------------------------
(***************************************************************************)
(* A hub with up to three peers, changed up to four times, and one read.   *)
(***************************************************************************)
EXTENDS ReadSide, TLC

CONSTANTS ep1, ep2

ThreeInOrder == <<"p", "q", "r">>
TwoTexts     == {ep1, ep2}
Exchange    == Permutations(TwoTexts)
AllReads     == {"relation", "peerAt", "endpoint", "describe", "map"}
=============================================================================
