----------------------------- MODULE MCDelivery -----------------------------
(***************************************************************************)
(* A line of three hubs a - b - c: b is pumped by its client and relays    *)
(* the broadcasts of a to c, and b and c have extended sinks.              *)
(***************************************************************************)
EXTENDS Delivery, TLC

CONSTANTS a, b, c

Line      == {<<a, b>>, <<b, a>>, <<b, c>>, <<c, b>>}
LineKids  == a :> {b} @@ b :> {c} @@ c :> {}
ThreeHubs == {a, b, c}
Declining == {b, c}
OnlyB     == {b}
OnlyA     == {a}
FirstHop  == {<<a, b>>}

ASSUME Tree

Item(kind, src, dst, quiet) == [kind |-> kind, src |-> src, dst |-> dst, quiet |-> quiet]

\* A broadcast, a topic past a relay, an upcast that wants no bounce, a post.
Mixed ==
  {Item("bcast", a, Nowhere, FALSE), Item("topic", a, c, FALSE), Item("ucast", c, b, TRUE),
   Item("post", b, b, FALSE)}
=============================================================================
