--------------------------- MODULE MCHubRegistry ---------------------------
(***************************************************************************)
(* HubRegistry and Provisioning with two threads that contend for one      *)
(* address, two hub objects, so that it is used again, and two directories *)
(* for its key files.  Its name is not one a file can have.                *)
(***************************************************************************)
EXTENDS Provisioning, TLC

CONSTANTS t1, t2, a1, h1, h2, d1, d2

TwoThreads == {t1, t2}
OneAddress == {a1}
TwoHubs    == {h1, h2}
TwoDirs    == {d1, d2}
PlainNames == a1 :> "a_b"
Hashes     == a1 :> 1

Symmetry == Permutations(TwoThreads) \cup Permutations(TwoHubs)
=============================================================================
