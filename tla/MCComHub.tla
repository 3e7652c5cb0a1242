------------------------------ MODULE MCComHub ------------------------------
(* Small instances of ComHub. *)
EXTENDS ComHub

CONSTANTS c1, c2, d, n

OneClient  == {c1}
TwoClients == {c1, c2}

\* Sinks come and go while the hub is used and closed; or clients let go of the
\* hub and of the network.
Sinks    == {"unadvise", "call"}
Teardown == {"release", "sweep"}
=============================================================================
