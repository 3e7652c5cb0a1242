----------------------------- MODULE MCTopology -----------------------------
(***************************************************************************)
(* Topologies of up to three hubs, brought up while another client makes,  *)
(* arms and closes hubs and edits the map.                                 *)
(***************************************************************************)
EXTENDS Topology, TLC

TwoAddrs == {"a", "b"}

\* The name has the listener's address before the dialler's.
Names == [l \in TwoAddrs |-> [d \in TwoAddrs |-> "P2PF|" \o l \o "|" \o d]]

V6Name  == Text("tcp6", FALSE, "host", 9000, NoName)
V6Any   == Text("tcp6", FALSE, "", 9000, NoName)
AnyBoth == Text("tcp", TRUE, "::", 9000, NoName)
V4Dial  == Text("tcp", FALSE, "10.0.0.7", kPortMax, NoName)
BadPort == Text("tcp", FALSE, "host", kPortMax + 1, NoName)
Dmx     == Text("dmx", FALSE, NoHost, 0, "bus")
Com5    == Text("serial", FALSE, NoHost, 5, NoName)

SomeTexts == {NoText, V6Name, V6Any, AnyBoth, Dmx, Com5}

HubLine(a)      == [verb |-> "hub", addr |-> a, peer |-> a, text |-> NoText]
HubAt(a, t)     == [verb |-> "hub", addr |-> a, peer |-> a, text |-> t]
At(a, t)        == [verb |-> "at", addr |-> a, peer |-> a, text |-> t]
Edge(l, d, t)   == [verb |-> "link", addr |-> l, peer |-> d, text |-> t]
Blank           == [verb |-> "blank", addr |-> "", peer |-> "", text |-> NoText]
Junk            == [verb |-> "frob", addr |-> "", peer |-> "", text |-> NoText]

SomeFiles ==
  { <<HubAt("a", V6Name), HubLine("b"), Edge("a", "b", NoText)>>,
    <<Blank, HubLine("a"), HubLine("b"), Edge("a", "b", Dmx), Edge("b", "a", NoText)>>,
    <<HubLine("a"), Blank, At("b", V4Dial), At("a", BadPort)>>,
    <<Blank, HubLine("b"), Blank, HubAt("a", Com5), At("far", V4Dial)>>,
    <<HubLine("a"), HubLine("b"), HubLine("a")>>,
    <<HubLine("a"), Edge("a", "b", NoText)>>,
    <<At("a", V6Name)>>,
    <<HubLine("a"), Junk>> }

SomeBlocks ==
  { <<At("a", V6Name), Blank, At("b", V4Dial)>>, <<At("a", V6Name), At("b", BadPort)>>, <<>> }
=============================================================================
