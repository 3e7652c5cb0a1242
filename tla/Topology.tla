------------------------------ MODULE Topology ------------------------------
(***************************************************************************)
(* How the two ends of a connection come to agree on where to meet.  The   *)
(* network keeps a map of endpoints by address (SetEndpoint,               *)
(* SetEndpointMap); an arming verb given no endpoint asks the map, and     *)
(* then the hubs of the process (ResolveEndpoint, ResolveDial); Link arms  *)
(* both ends from one spelling; and the Topology of the C++ wrapper        *)
(* creates the hubs of a declared graph and links its edges.               *)
(*                                                                         *)
(* One thread brings up a topology while another client of the network     *)
(* edits the map and makes, arms and closes hubs.  What a hub keeps of its *)
(* connections, and a refusal that leaves half an edge, are in HubCons;    *)
(* security is in Trust.                                                   *)
(***************************************************************************)
EXTENDS Endpoints, Ordered

CONSTANTS
  Files,      \* bound: the topologies there are to bring up
  Texts,      \* bound: the endpoints the other client uses
  Blocks,     \* bound: the maps the other client loads
  MaxCalls    \* bound: how many calls it makes

ASSUME BoundsAssumption ==
  /\ MaxCalls \in Nat
  /\ \A l, d \in Addrs : Service[l][d] # NoName
  /\ \A f \in Files : DOMAIN f = 1 .. Len(f) /\ Len(f) \in Nat

VARIABLES
  map, version,   \* m_mapEndpoints; history: how often it changed
  owner,          \* who made each live hub: the hubs of m_listHubs
  armed,          \* m_mapArmed of each hub, and the connections it stands for
  links,          \* history: the edges Link has armed
  file,           \* what the topology is parsed from
  topo,           \* where the topology's thread is, and what it has
  verb,           \* where the other client is in Listen or Connect
  calls

vars == <<map, version, owner, armed, links, file, topo, verb, calls>>

\* How the endpoint of an end was come by: typed, by Link, out of the map, from
\* the two addresses, or from the listener of a sibling.
Ways == {"none", "typed", "link", "map", "derived", "resolved"}

\* `tag' is the edge Link armed or the version of the map, `via' the listener
\* a dial was resolved from.
End(listen, ep, way, tag, via) ==
  [listen |-> listen, ep |-> ep, way |-> way, tag |-> tag, via |-> via]
NoEnd  == End(FALSE, Refused, "none", 0, Refused)
NoVerb == [at |-> "idle", hub |-> CHOOSE a \in Addrs : TRUE, peer |-> CHOOSE a \in Addrs : TRUE,
           end |-> NoEnd]

Live == {a \in Addrs : owner[a] # "none"}
ConExists(h, p) == armed[h][p].way # "none"

\* What p armed to listen for h, if it did.
ArmedListener(p, h) == IF armed[p][h].listen THEN armed[p][h].ep ELSE Refused

-----------------------------------------------------------------------------
(* Topology::parse *)

HubsBefore(f, i)    == {f[j].addr : j \in {k \in 1 .. i - 1 : f[k].verb = "hub"}}
EntriesBefore(f, i) == {f[j].addr : j \in {k \in 1 .. i - 1 : IsEntry(f[k]) /\ f[k].text # NoText}}

LineBad(f, i) ==
  CASE f[i].verb = "hub"   -> \/ f[i].addr \notin Addrs \/ f[i].addr \in HubsBefore(f, i)
                              \/ f[i].text # NoText /\ f[i].addr \in EntriesBefore(f, i)
    [] f[i].verb = "at"    -> \/ f[i].addr \notin Addrs \/ f[i].text = NoText
                              \/ f[i].addr \in EntriesBefore(f, i)
    [] f[i].verb = "link"  -> \/ f[i].addr = f[i].peer
                              \/ ~({f[i].addr, f[i].peer} \subseteq HubsBefore(f, i))
    [] f[i].verb = "blank" -> FALSE
    [] OTHER -> TRUE

\* m_hubs, m_edges, and m_mapLines, which says where each line of the text
\* handed to SetEndpointMap came from.
HubLines(f)  == InOrder({i \in DOMAIN f : f[i].verb = "hub"})
EdgeLines(f) == InOrder({i \in DOMAIN f : f[i].verb = "link"})
MapLines(f)  == InOrder({i \in DOMAIN f : IsEntry(f[i]) /\ f[i].text # NoText})
MapText(f)   == [k \in DOMAIN MapLines(f) |-> f[MapLines(f)[k]]]

-----------------------------------------------------------------------------
Init ==
  /\ map = [a \in Addrs |-> NoText] /\ version = 0
  /\ owner = [a \in Addrs |-> "none"]
  /\ armed = [h \in Addrs |-> [p \in Addrs |-> NoEnd]]
  /\ links = 0
  /\ file \in Files
  /\ topo = [pc |-> "text", next |-> 1, text |-> NoText, mine |-> {}, badLine |-> 0]
  /\ verb = NoVerb /\ calls = 0

\* A file is taken whole or not at all.
ParseFile ==
  LET bad == FirstOf({i \in DOMAIN file : LineBad(file, i)}) IN
  /\ topo.pc = "text"
  /\ topo' = [topo EXCEPT !.pc = IF bad = 0 THEN "creating" ELSE "refused", !.badLine = bad]
  /\ UNCHANGED <<map, version, owner, armed, links, file, verb, calls>>

\* createHubs: one hub; an address that is taken, or a pump that does not
\* start, makes it close what it has made.
CreateHub ==
  LET i == topo.next
      a == file[HubLines(file)[i]].addr IN
  /\ topo.pc = "creating"
  /\ IF i > Len(HubLines(file))
     THEN /\ topo' = [topo EXCEPT !.pc = "created", !.next = 1]
          /\ UNCHANGED owner
     ELSE \/ /\ a \notin Live
             /\ owner' = [owner EXCEPT ![a] = "topology"]
             /\ topo'  = [topo EXCEPT !.next = i + 1, !.mine = @ \cup {a}]
          \/ /\ topo' = [topo EXCEPT !.pc = "closing", !.next = Len(HubLines(file))]
             /\ UNCHANGED owner
  /\ UNCHANGED <<map, version, armed, links, file, verb, calls>>

\* A hub is gone, with its records; the peers' connections to it redial.
Gone(a) ==
  /\ owner' = [owner EXCEPT ![a] = "none"]
  /\ armed' = [armed EXCEPT ![a] = [p \in Addrs |-> NoEnd]]

\* closeAll: in reverse order of creation, and m_live cleared at the end.
LastToCloseLate == 2
LastToClose == 1

CloseNext ==
  LET i == topo.next
      a == file[HubLines(file)[i]].addr IN
  /\ topo.pc = "closing"
  /\ IF i < LastToClose
     THEN /\ topo' = [topo EXCEPT !.pc = "failed", !.mine = {}]
          /\ UNCHANGED <<owner, armed>>
     ELSE /\ topo' = [topo EXCEPT !.next = i - 1]
          /\ IF a \in topo.mine THEN Gone(a) ELSE UNCHANGED <<owner, armed>>
  /\ UNCHANGED <<map, version, links, file, verb, calls>>

\* arm: the line the DLL counted in the text it was given, in the user's file.
FileLineUntranslated(f, n) == n
FileLine(f, n) == MapLines(f)[n]

PushMap ==
  LET bad == FirstOf(BadMapLines(MapText(file))) IN
  /\ topo.pc = "created"
  /\ IF MapText(file) = <<>>
     THEN /\ topo' = [topo EXCEPT !.pc = "reading"]
          /\ UNCHANGED <<map, version>>
     ELSE IF bad # 0
     THEN /\ topo' = [topo EXCEPT !.pc = "rejected", !.badLine = FileLine(file, bad)]
          /\ UNCHANGED <<map, version>>
     ELSE /\ topo' = [topo EXCEPT !.pc = "reading"]
          /\ map' = EntriesOf(MapText(file)) /\ version' = version + 1
  /\ UNCHANGED <<owner, armed, links, file, verb, calls>>

\* The line's own endpoint, or what the map says about the listener.
ReadEndpoint ==
  LET i == topo.next
      e == file[EdgeLines(file)[i]] IN
  /\ topo.pc = "reading"
  /\ topo' = IF i > Len(EdgeLines(file)) THEN [topo EXCEPT !.pc = "armed"]
             ELSE [topo EXCEPT !.pc = "linking",
                               !.text = IF e.text # NoText THEN e.text ELSE map[e.addr]]
  /\ UNCHANGED <<map, version, owner, armed, links, file, verb, calls>>

-----------------------------------------------------------------------------
(* FacadeNetwork::Link *)

DialOf(l, d, text) == IF text = NoText THEN Derived(l, d) ELSE Parse(text, FALSE)

MayLink(l, d, text) ==
  /\ l # d /\ {l, d} \subseteq Live
  /\ DialOf(l, d, text).kind \notin {"refused", "serial"}
  /\ ~ConExists(l, d) /\ ~ConExists(d, l)

\* Both ends from the one spelling.
ArmEdge(l, d, text) ==
  LET dial == DialOf(l, d, text) IN
  /\ links' = links + 1
  /\ armed' = [armed EXCEPT
       ![l][d] = End(TRUE, ListenOf(dial), "link", links', Refused),
       ![d][l] = End(FALSE, dial, "link", links', Refused)]

\* The kernel may refuse an edge all the same; the first failure ends arm.
LinkEdge ==
  LET i == topo.next
      e == file[EdgeLines(file)[i]] IN
  /\ topo.pc = "linking"
  /\ \/ /\ MayLink(e.addr, e.peer, topo.text)
        /\ ArmEdge(e.addr, e.peer, topo.text)
        /\ topo' = [topo EXCEPT !.pc = "reading", !.next = i + 1]
     \/ /\ topo' = [topo EXCEPT !.pc = "stopped"]
        /\ UNCHANGED <<armed, links>>
  /\ UNCHANGED <<map, version, owner, file, verb, calls>>

-----------------------------------------------------------------------------
(* The other client *)

Call == calls < MaxCalls /\ verb = NoVerb /\ calls' = calls + 1

\* A text that is refused, or serial, leaves the map alone; none at all takes
\* the entry out.
SetEndpoint(a, text) ==
  /\ Call
  /\ text # NoText => Parse(text, FALSE).kind \notin {"refused", "serial"}
  /\ map' = [map EXCEPT ![a] = IF text = NoText THEN NoText ELSE Format(Parse(text, FALSE))]
  /\ version' = version + 1
  /\ UNCHANGED <<owner, armed, links, file, topo, verb>>

SetEndpointMap(block) ==
  /\ Call
  /\ BadMapLines(block) = {}
  /\ map' = EntriesOf(block) /\ version' = version + 1
  /\ UNCHANGED <<owner, armed, links, file, topo, verb>>

MakeHub(a) ==
  /\ Call /\ a \notin Live
  /\ owner' = [owner EXCEPT ![a] = "client"]
  /\ UNCHANGED <<map, version, armed, links, file, topo, verb>>

CloseHub(a) ==
  /\ Call /\ owner[a] = "client"
  /\ Gone(a)
  /\ UNCHANGED <<map, version, links, file, topo, verb>>

Link(l, d, text) ==
  /\ Call /\ MayLink(l, d, text)
  /\ ArmEdge(l, d, text)
  /\ UNCHANGED <<map, version, owner, file, topo, verb>>

\* The record goes first, and the connection a little later.
Disconnect(h, p) ==
  /\ Call /\ owner[h] = "client" /\ ConExists(h, p)
  /\ armed' = [armed EXCEPT ![h][p] = NoEnd]
  /\ UNCHANGED <<map, version, owner, links, file, topo, verb>>

Into(h, p, at, end) == verb' = [at |-> at, hub |-> h, peer |-> p, end |-> end]

\* Listen or Connect on a hub of its own, with an endpoint spelled out ...
ArmTyped(h, p, listen, text) ==
  /\ Call /\ owner[h] = "client" /\ p # h
  /\ text # NoText /\ Parses(text, listen)
  /\ Into(h, p, "arming", End(listen, Parse(text, listen), "typed", 0, Refused))
  /\ UNCHANGED <<map, version, owner, armed, links, file, topo>>

\* ... or without one: a listen asks the map about its own address, a dial
\* about its peer's; a listen the map does not know is derived at once.
LookupEndpoint(h, p, listen) ==
  LET whose == IF listen THEN h ELSE p
      said  == Parse(map[whose], FALSE) IN
  /\ Call /\ owner[h] = "client" /\ p # h
  /\ IF map[whose] # NoText
     THEN Into(h, p, "arming",
               End(listen, IF listen THEN ListenOf(said) ELSE said, "map", version, Refused))
     ELSE IF listen
     THEN Into(h, p, "arming", End(TRUE, Derived(h, p), "derived", 0, Refused))
     ELSE Into(h, p, "resolving", NoEnd)
  /\ UNCHANGED <<map, version, owner, armed, links, file, topo>>

Loopback(family) == IF family = "v6" THEN "::1" ELSE "127.0.0.1"

\* ResolveDial: a listener the peer armed for us, from its recorded spelling,
\* with the loopback of its family for a host.
ResolveDial ==
  LET l == ArmedListener(verb.peer, verb.hub)
      e == Parse(Format(l), TRUE)
      dial == IF e.kind = "tcp" THEN [e EXCEPT !.host = Loopback(e.family)] ELSE e IN
  /\ verb.at = "resolving"
  /\ IF verb.peer \in Live /\ l # Refused
     THEN verb' = [verb EXCEPT !.at = "arming", !.end = End(FALSE, dial, "resolved", 0, l)]
     ELSE verb' = NoVerb
  /\ UNCHANGED <<map, version, owner, armed, links, file, topo, calls>>

\* ArmResolved: one connection per peer and hub.
ArmResolved ==
  /\ verb.at = "arming"
  /\ armed' = IF verb.hub \notin Live \/ ConExists(verb.hub, verb.peer) THEN armed
              ELSE [armed EXCEPT ![verb.hub][verb.peer] = verb.end]
  /\ verb' = NoVerb
  /\ UNCHANGED <<map, version, owner, links, file, topo, calls>>

-----------------------------------------------------------------------------
Topo == ParseFile \/ CreateHub \/ CloseNext \/ PushMap \/ ReadEndpoint \/ LinkEdge

Client ==
  \/ \E block \in Blocks : SetEndpointMap(block)
  \/ \E a \in Addrs, text \in Texts : SetEndpoint(a, text)
  \/ \E a \in Addrs : MakeHub(a) \/ CloseHub(a)
  \/ \E l, d \in Addrs, text \in Texts : Link(l, d, text)
  \/ \E h, p \in Addrs : Disconnect(h, p)
  \/ \E h, p \in Addrs, listen \in BOOLEAN :
       LookupEndpoint(h, p, listen) \/ \E text \in Texts : ArmTyped(h, p, listen, text)
  \/ ResolveDial \/ ArmResolved

Next == Topo \/ Client

Spec == Init /\ [][Next]_vars

-----------------------------------------------------------------------------
(* Properties *)

\* A listening and a dialling end that Link armed together meet; so do the ends
\* of a Listen and a Connect that both left the endpoint to one version of the
\* map; and a dial resolved from a sibling meets the listener it was resolved
\* from.  Not the serial listener of a sibling: see NoSerialIsDerived.
EndsMeet ==
  \A a, b \in Addrs :
    LET l == armed[a][b]
        d == armed[b][a] IN
    /\ /\ l.way \in {"link", "map"} /\ l.way = d.way /\ l.tag = d.tag
       /\ l.listen /\ ~d.listen
       => Meets(l.ep, d.ep)
    /\ d.way = "resolved" /\ d.ep.kind # "serial" => Meets(d.via, d.ep)

\* MakeCon's note: no endpoint is ever derived as serial, so there is no
\* RetryDial232.
NoSerialIsDerived ==
  \A h, p \in Addrs : armed[h][p].way = "resolved" => armed[h][p].ep.kind # "serial"

\* The number arm reports for a map the DLL rejects is a line of the user's
\* file, the first whose endpoint the DLL will not have.
BadLineIsUsers ==
  topo.pc = "rejected" =>
    LET bad(i) == /\ IsEntry(file[i]) /\ file[i].text # NoText
                  /\ Parse(file[i].text, FALSE).kind \in {"refused", "serial"} IN
    /\ topo.badLine \in DOMAIN file /\ bad(topo.badLine)
    /\ \A i \in 1 .. topo.badLine - 1 : ~bad(i)

\* A createHubs that fails leaves no hub it made, whoever else makes hubs of
\* the same addresses meanwhile, and one that succeeds has made them all.
CreateAllOrNone ==
  /\ topo.pc = "failed"  => \A a \in Addrs : owner[a] # "topology"
  /\ topo.pc = "created" => \A i \in DOMAIN HubLines(file) :
                               owner[file[HubLines(file)[i]].addr] = "topology"
=============================================================================
