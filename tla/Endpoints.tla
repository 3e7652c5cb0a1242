----------------------------- MODULE Endpoints ------------------------------
(***************************************************************************)
(* The endpoint grammar (FacadeEndpoint.cpp): what an arming verb is       *)
(* given, what it is parsed to, how it is spelled back, and which pairs of *)
(* a listening and a dialling end meet.  A text is the parts its parser    *)
(* takes it apart into, with a host and a name reduced to what the parser  *)
(* tells apart; case and surrounding blanks, which it ignores, are gone.   *)
(***************************************************************************)
EXTENDS Integers, Sequences

CONSTANTS
  Addrs,      \* hub addresses
  Service     \* Service[l][d]: the Dmx name derived for listener l and dialler d

kPortMax == 65535
kComPortMax == 255

V4Hosts == {"0.0.0.0", "10.0.0.7", "127.0.0.1"}
V6Hosts == {"::", "::1", "fe80::1%eth0"}
AnyHosts == {"", "*"}
NoHost == ""
NoName == "none"

TcpSchemes == {"tcp", "tcp4", "tcp6", "tcp46"}
Families   == {"v4", "v6", "dual"}

\* A text with a scheme and a target; a port that is not a number is -1.
Text(scheme, bracketed, host, num, name) ==
  [scheme |-> scheme, bracketed |-> bracketed, host |-> host, num |-> num, name |-> name]

\* FacadeEndpoint, without bDerived, which is no part of its identity.
Endpoint(kind, family, host, num, name) ==
  [kind |-> kind, family |-> family, host |-> host, num |-> num, name |-> name]

Refused == Endpoint("refused", "v4", NoHost, 0, NoName)
NoText  == Text("", FALSE, NoHost, 0, NoName)

-----------------------------------------------------------------------------
(* ParseFacadeEndpoint *)

\* A bracketed host is an IPv6 literal, with a zone only on a dial; a host that
\* is not bracketed holds no colon.
HostReads(t, listen) ==
  IF t.bracketed THEN /\ t.host \in V6Hosts
                      /\ listen => t.host # "fe80::1%eth0"
                      /\ t.scheme # "tcp4"
                 ELSE t.host \notin V6Hosts

PortReads(t) == t.num \in 1 .. kPortMax

\* tcp:// goes by the host where the host says it, otherwise the scheme does.
FamilyOf(t, listen) ==
  CASE t.scheme = "tcp6"  -> "v6"
    [] t.scheme = "tcp46" -> "dual"
    [] t.scheme = "tcp" /\ t.bracketed -> IF listen THEN "dual" ELSE "v6"
    [] OTHER -> "v4"

\* A listen may name an any-address of its family, and no other.
ListenHostReads(t) ==
  IF t.bracketed THEN t.host = "::"
  ELSE \/ t.host \in AnyHosts
       \/ t.host = "0.0.0.0" /\ t.scheme \in {"tcp", "tcp4"}

\* A dial needs somewhere to go that its socket can reach.
DialHostReads(t) ==
  /\ t.host # NoHost
  /\ ~(FamilyOf(t, FALSE) = "v6" /\ t.host \in V4Hosts)

ParseTcp(t, listen) ==
  IF /\ HostReads(t, listen) /\ PortReads(t)
     /\ IF listen THEN ListenHostReads(t) ELSE DialHostReads(t)
  THEN Endpoint("tcp", FamilyOf(t, listen), IF listen THEN NoHost ELSE t.host, t.num, NoName)
  ELSE Refused

Parse(t, listen) ==
  CASE t.scheme \in TcpSchemes -> ParseTcp(t, listen)
    [] t.scheme \in {"pipe", "dmx"} /\ t.name # NoName ->
         Endpoint(t.scheme, "v4", NoHost, 0, t.name)
    [] t.scheme = "serial" /\ t.num \in 1 .. kComPortMax ->
         Endpoint("serial", "v4", NoHost, t.num, NoName)
    [] OTHER -> Refused

Parses(t, listen) == Parse(t, listen) # Refused

-----------------------------------------------------------------------------
(* FacadeEndpoint::Format *)

SchemeOf(family) ==
  CASE family = "v6" -> "tcp6" [] family = "dual" -> "tcp46" [] OTHER -> "tcp"

\* The family left to the reader: a dial by name comes back as IPv4.
FormatPlain(e) ==
  IF e.kind = "tcp"
  THEN Text("tcp", e.host \in V6Hosts, e.host, e.num, NoName)
  ELSE Text(e.kind, FALSE, NoHost, e.num, e.name)

Format(e) ==
  IF e.kind = "tcp"
  THEN Text(SchemeOf(e.family), e.host \in V6Hosts, e.host, e.num, NoName)
  ELSE Text(e.kind, FALSE, NoHost, e.num, e.name)

\* Link and ResolveEndpoint: the listening end of a dial.
ListenOf(e) == [e EXCEPT !.host = NoHost]

\* DeriveDmxService.
Derived(l, d) == Endpoint("dmx", "v4", NoHost, 0, Service[l][d])

\* Which sockets of a family a dial and a listener have in common.
Sockets(family) == IF family = "dual" THEN {"v4", "v6"} ELSE {family}

\* A dialling end reaches a listening one.  A serial link is two ports, each
\* opened exclusively.
Meets(l, d) ==
  /\ l.kind = d.kind
  /\ CASE l.kind = "tcp" -> /\ l.num = d.num
                            /\ Sockets(l.family) \cap Sockets(d.family) # {}
       [] l.kind = "serial" -> l.num # d.num
       [] OTHER -> l.name = d.name

-----------------------------------------------------------------------------
(* ParseFacadeEndpointMap *)

\* The lines that are no comment; an address with a colon or "//" in it
\* (IsSwappedPeerArgument) is none of Addrs.
IsEntry(line) == line.verb \in {"hub", "at"}

\* What makes a line bad, given that the lines before it were good.
MapLineBad(lines, i) ==
  /\ IsEntry(lines[i])
  /\ \/ lines[i].addr \notin Addrs
     \/ ~Parses(lines[i].text, FALSE)
     \/ Parse(lines[i].text, FALSE).kind = "serial"
     \/ \E j \in 1 .. i - 1 : IsEntry(lines[j]) /\ lines[j].addr = lines[i].addr

BadMapLines(lines) == {i \in DOMAIN lines : MapLineBad(lines, i)}

\* The number reported, 1-based, or 0 when the block is good.
FirstOf(bad) == IF bad = {} THEN 0 ELSE CHOOSE i \in bad : \A j \in bad : i <= j

\* The map a good block stands for: every value as Format spells it.
EntriesOf(lines) ==
  [a \in Addrs |->
    LET at == {i \in DOMAIN lines : IsEntry(lines[i]) /\ lines[i].addr = a} IN
    IF at = {} THEN NoText ELSE Format(Parse(lines[CHOOSE i \in at : TRUE].text, FALSE))]
=============================================================================
