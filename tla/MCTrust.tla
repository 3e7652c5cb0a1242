------------------------------ MODULE MCTrust ------------------------------
(***************************************************************************)
(* Trust with two hubs that may be linked and one hub elsewhere, whose     *)
(* published key may change.                                               *)
(***************************************************************************)
EXTENDS Trust, TLC

CONSTANTS a, b, r, k1, k2, t1, t2

TwoHubs    == {a, b}
OneHub     == {a}
OneRemote  == {r}
TwoKeys    == {k1, k2}
OneKey     == {k1}
TwoThreads == {t1, t2}
OneThread  == {t1}
OwnOne     == a :> k1
OwnTwo     == a :> k1 @@ b :> k1

\* The inputs of Connect: of two hubs that can be linked only the remote peer is
\* dialled, and its key may have changed since the last time.
PublishedOne == a :> {k1} @@ r :> {k1}
PublishedTwo == a :> {} @@ b :> {} @@ r :> {k1, k2}

Symmetry == Permutations({a, b}) \cup Permutations({t1, t2})
=============================================================================
