----------------------------- MODULE MCHubCons -----------------------------
(***************************************************************************)
(* Small instances of HubCons: each client thread with a peer of its own,  *)
(* and two threads that name the same peer.                                *)
(***************************************************************************)
EXTENDS HubCons, TLC

CONSTANTS p1, p2, t1, t2

TwoPeers    == {p1, p2}
OnePeer     == {p1}
TwoThreads  == {t1, t2}
OneThread   == {t1}

\* Calls on one peer come from one thread only.
OwnEach == t1 :> {p1} @@ t2 :> {p2}
\* One thread does everything.
OwnAll  == t1 :> {p1}
\* Two threads may arm and disconnect the same peer.
OwnShared == t1 :> {p1} @@ t2 :> {p1}

\* The two threads with their peers are interchangeable, as pairs.
SwapPairs == {p1 :> p2 @@ p2 :> p1 @@ t1 :> t2 @@ t2 :> t1}

AllVerbs         == {"listen", "dial", "disconnect", "link"}
ArmAndDisconnect == {"listen", "dial", "disconnect"}
=============================================================================
