--------------------------- MODULE HubConsProofs ---------------------------
(***************************************************************************)
(* What HubCons promises when calls about one peer come from one thread    *)
(* and no edge is unwound by Link, for any peers, threads and verbs.       *)
(*                                                                         *)
(* Two promises concern a peer no call is about, so the invariant has to   *)
(* say what a call under way still owes: a Disconnect past its signal owes *)
(* the entry in m_setUnretired, an arm past its write owes the record it   *)
(* overwrote, and a Disconnect that saw the peer gone owes nothing because *)
(* nobody else can have put a connection for that peer back.               *)
(*                                                                         *)
(* The drain of a close goes by the rows of m_mapPeers and m_setUnretired, *)
(* not by the kernel's list, so what it leaves depends on what those rows  *)
(* say of a peer no connection of which has ended: that it is down only    *)
(* because a Disconnect marked it, which then remembered the peer.         *)
(***************************************************************************)
EXTENDS HubCons, TLAPS

\* Calls about one peer come from one thread.
Serialised == \A t, u \in Threads : t # u => Owns[t] \cap Owns[u] = {}
NoLink     == "link" \notin Ops

Arming   == {"post", "rollback"}
Retiring == {"readup", "erase", "signal", "wait", "mark", "tell", "settle"}
Told     == {"wait", "mark", "tell", "settle"}   \* DESTROY has been signalled

\* What each thread in a call is about, and what it found.
CallInv ==
  \A t \in Threads :
    /\ call[t].at # "idle" => call[t].peer \in Owns[t]
    /\ call[t].at \in Arming => call[t].op \in {"listen", "dial"}
    /\ call[t].at \in Retiring => call[t].op = "disconnect"
    /\ call[t].at \in {"idle"} \cup Arming \cup Retiring
    /\ call[t].at = "post" => mapArmed[call[t].peer] = ArmRole(call[t].op)
    /\ call[t].gone => call[t].at \in {"mark", "tell", "settle"}
    /\ call[t].gone => \A c \in cons : c.peer # call[t].peer

\* A doomed connection is remembered, or a Disconnect is about to settle it.
DoomedInv ==
  hub = "running" =>
    \A c \in cons : c.doomed =>
      \/ c.peer \in setUnretired
      \/ \E t \in Threads : call[t].peer = c.peer /\ call[t].at \in Told

\* The record of a connection is right, unless an arm has overwritten it, which
\* then holds the right one to put back, or a Disconnect has erased it and is
\* about to signal.
RecordOf(c) ==
  /\ \A t \in Threads :
       (call[t].peer = c.peer /\ call[t].at \in Arming) => call[t].prev = RoleOf(c.kind)
  /\ (\A t \in Threads : call[t].peer = c.peer => call[t].at \notin Arming \cup {"signal"})
       => mapArmed[c.peer] = RoleOf(c.kind)

RecordInv ==
  hub = "running" => \A c \in cons : (c.kind # "clone" /\ ~c.doomed) => RecordOf(c)

Inv == TypeOK /\ CallInv /\ DoomedInv /\ RecordInv

\* A peer no connection of which has ended.
Unbroken(p) == p \notin closedOnce

\* While a peer is unbroken a Disconnect of it still finds its connection, no wait
\* on it ends early, the pump reports no close of it, and a login on it has its
\* listener beside it.
HeldInv ==
  /\ \A t \in Threads :
       (call[t].at \in Retiring /\ Unbroken(call[t].peer)) => ConExists(call[t].peer)
  /\ \A t \in Threads : call[t].gone => ~Unbroken(call[t].peer)
  /\ (pump.at = "mark" /\ ~pump.up) => ~Unbroken(pump.peer)
  /\ \A c \in cons : Unbroken(c.peer) =>
       \E d \in cons : d.peer = c.peer /\ d.kind # "clone"

\* An unbroken peer is down only because a Disconnect marked it, and then it is
\* remembered as not retired or that Disconnect is about to say so.
DownInv ==
  hub = "running" =>
    \A p \in Peers : (Unbroken(p) /\ mapPeers[p] = "down") =>
      \/ p \in setUnretired
      \/ \E t \in Threads : call[t].peer = p /\ call[t].at \in {"tell", "settle"}

\* Once the snapshot is taken, every connection of an unbroken peer is in it.
DrainInv ==
  /\ hub # "running" => \A t \in Threads : call[t].at = "idle"
  /\ hub \in {"draining", "waiting"} => \A c \in cons : c.peer \in aSet \/ ~Unbroken(c.peer)
  /\ hub = "closed" => \A c \in cons : ~Unbroken(c.peer)

-----------------------------------------------------------------------------

\* The initial state satisfies the invariant.
LEMMA InitInv == Init => Inv
  BY PeersAssumption DEF Init, Inv, TypeOK, CallInv, DoomedInv, RecordInv, RecordOf, NoCall, PumpIdle,
     Call, CallStep, Verbs, Roles, Pump, HubStep, Con, Arming, Retiring, Told

\* A call that moves on, and what else the actions write over it.
LEMMA CallMoves ==
  ASSUME NEW k \in Call, NEW s \in CallStep
  PROVE  /\ [k EXCEPT !.at = s] \in Call
         /\ \A b \in BOOLEAN : [k EXCEPT !.at = s, !.wasUp = b] \in Call
         /\ \A b \in BOOLEAN : [k EXCEPT !.at = s, !.gone = b] \in Call
  BY DEF Call

\* What DESTROY does to the list: the same connections, those addressed doomed.
LEMMA SignalDooms ==
  ASSUME NEW ps \in SUBSET Peers, cons \subseteq Con, ConSignal(ps)
  PROVE  /\ cons' \subseteq Con
         /\ \A d \in cons' : \E c \in cons :
              /\ d.peer = c.peer /\ d.kind = c.kind
              /\ ~d.doomed => ~c.doomed /\ c.peer \notin ps
<1> SUFFICES ASSUME NEW d \in cons'
             PROVE  /\ d \in Con
                    /\ \E c \in cons :
                         /\ d.peer = c.peer /\ d.kind = c.kind
                         /\ ~d.doomed => ~c.doomed /\ c.peer \notin ps
  OBVIOUS
<1>1. PICK c \in cons : d = [c EXCEPT !.doomed = c.doomed \/ c.peer \in ps]
  BY DEF ConSignal
<1>2. (c.doomed \/ c.peer \in ps) \in BOOLEAN
  OBVIOUS
<1> QED BY <1>1, <1>2 DEF Con

\* A thread in no call is a call record too.
LEMMA NoCallType == NoCall \in Call
  BY DEF NoCall, Call, CallStep, Verbs, Roles

\* Every step keeps it.
LEMMA NextInv == ASSUME Serialised, NoLink PROVE Inv /\ [Next]_vars => Inv'
<1> SUFFICES ASSUME Inv, [Next]_vars PROVE Inv'
  OBVIOUS
<1> USE PeersAssumption, OwnsAssumption, OpsAssumption DEF Inv, At, Goto, Return
<1>1. ASSUME NEW t \in Threads, NEW p \in Peers, NEW op \in {"listen", "dial"}, Arm(t, p, op) PROVE Inv'
  <2>1. TypeOK'
    BY <1>1 DEF Arm, WriteRecord, NoCall, ArmRole, Running, TypeOK, Con, Kinds, Roles, Verbs, Call, CallStep, Pump, HubStep
  <2>2. CallInv'
    BY <1>1 DEF Arm, WriteRecord, NoCall, ArmRole, Running, CallInv, Arming, Retiring, Serialised, TypeOK, Con, Call
  <2>3. DoomedInv'
    BY <1>1 DEF Arm, WriteRecord, NoCall, ArmRole, Running, DoomedInv, CallInv, Told, Arming, Retiring, TypeOK, Con, Call
  <2>4. RecordInv'
    <3> SUFFICES ASSUME hub' = "running", NEW c \in cons', c.kind # "clone", ~c.doomed
                 PROVE  RecordOf(c)'
      BY DEF RecordInv
    <3>1. /\ c \in cons /\ hub = "running" /\ call[t].at = "idle" /\ p \in Owns[t]
          /\ call' = [call EXCEPT ![t] = [NoCall EXCEPT !.at = "post", !.op = op, !.peer = p,
                                                        !.prev = mapArmed[p]]]
          /\ mapArmed' = [mapArmed EXCEPT ![p] = ArmRole(op)]
      BY <1>1 DEF Arm, WriteRecord
    <3>2. \A u \in Threads : call[u].peer = p => call[u].at \notin Arming \cup {"signal"}
      BY <3>1 DEF CallInv, Serialised, Arming
    <3>3. c.peer = p => mapArmed[p] = RoleOf(c.kind)
      BY <3>1, <3>2 DEF RecordInv, RecordOf
    <3>4. /\ call'[t].peer = p /\ call'[t].at = "post" /\ call'[t].prev = mapArmed[p]
          /\ \A u \in Threads : u # t => call'[u] = call[u]
      BY <3>1 DEF NoCall, TypeOK
    <3>5. CASE c.peer = p
      BY <3>2, <3>3, <3>4, <3>5 DEF RecordOf, Arming
    <3>6. CASE c.peer # p
      <4>1. mapArmed'[c.peer] = mapArmed[c.peer]
        BY <3>1, <3>6 DEF TypeOK, Con
      <4>2. \A u \in Threads : call'[u].peer = c.peer => call'[u] = call[u]
        BY <3>4, <3>6
      <4>3. (\A u \in Threads : call'[u].peer = c.peer
                                => call'[u].at \notin Arming \cup {"signal"})
              => \A u \in Threads : call[u].peer = c.peer
                                => call[u].at \notin Arming \cup {"signal"}
        BY <3>1, <3>4, <3>6 DEF Arming
      <4>4. \A u \in Threads : (call[u].peer = c.peer /\ call[u].at \in Arming)
                                => call[u].prev = RoleOf(c.kind)
        BY <3>1 DEF RecordInv, RecordOf
      <4>5. (\A u \in Threads : call[u].peer = c.peer => call[u].at \notin Arming \cup {"signal"})
              => mapArmed[c.peer] = RoleOf(c.kind)
        BY <3>1 DEF RecordInv, RecordOf
      <4>6. \A u \in Threads : (call'[u].peer = c.peer /\ call'[u].at \in Arming)
                                => call'[u].prev = RoleOf(c.kind)
        BY <4>2, <4>4
      <4> QED BY <4>1, <4>3, <4>5, <4>6 DEF RecordOf
    <3> QED BY <3>5, <3>6
  <2> QED BY <2>1, <2>2, <2>3, <2>4
<1>2. ASSUME NEW t \in Threads, PostCon(t) PROVE Inv'
  <2> DEFINE p == call[t].peer
             d == [peer |-> p, kind |-> KindOf(call[t].op), up |-> FALSE, doomed |-> FALSE]
  <2>1. call[t].op \in {"listen", "dial"} /\ p \in Owns[t] /\ p \in Peers
    BY <1>2 DEF PostCon, CallInv, Arming
  <2>2. CASE ConExists(p)
    <3>1. call' = [call EXCEPT ![t].at = "rollback"] /\ cons' = cons
      BY <1>2, <2>2 DEF PostCon
    <3>2. call'[t] \in Call
      BY <1>2, <3>1, CallMoves DEF PostCon, TypeOK, CallStep
    <3>3. TypeOK'
      BY <1>2, <3>1, <3>2 DEF PostCon, TypeOK
    <3>4. CallInv' /\ DoomedInv' /\ RecordInv'
      BY <1>2, <3>1 DEF PostCon, CallInv, DoomedInv, RecordInv, RecordOf, Arming, Retiring, Told, TypeOK, Call
    <3> QED BY <3>3, <3>4
  <2>3. CASE ~ConExists(p)
    <3>1. call' = [call EXCEPT ![t] = NoCall] /\ cons' = cons \cup {d}
      BY <1>2, <2>1, <2>3 DEF PostCon
    <3>2. d \in Con /\ NoCall \in Call
      BY <2>1, NoCallType DEF Con, Kinds, KindOf
    <3>3. TypeOK'
      BY <1>2, <3>1, <3>2 DEF PostCon, TypeOK
    <3>4. CallInv'
      BY <1>2, <2>1, <3>1 DEF PostCon, CallInv, NoCall, Arming, Retiring, Serialised, TypeOK
    <3>5. DoomedInv'
      BY <1>2, <3>1 DEF PostCon, DoomedInv, NoCall, Told, TypeOK
    <3>6. mapArmed[p] = RoleOf(d.kind)
      BY <1>2, <2>1 DEF PostCon, CallInv, ArmRole, RoleOf, KindOf
    <3>7. \A c \in cons : c.peer # p
      BY <2>3 DEF ConExists
    <3>8. RecordInv'
      <4> SUFFICES ASSUME hub' = "running", NEW c \in cons', c.kind # "clone", ~c.doomed
                   PROVE  RecordOf(c)'
      BY DEF RecordInv
      <4>1. call'[t].at = "idle" /\ \A u \in Threads : u # t => call'[u] = call[u]
        BY <3>1 DEF NoCall, TypeOK
      <4>2. mapArmed' = mapArmed /\ hub = "running" /\ call[t].at = "post"
        BY <1>2 DEF PostCon
      <4>3. CASE c = d
        <5>1. \A u \in Threads : u # t /\ call[u].peer = p => call[u].at = "idle"
          BY <2>1, <4>2 DEF CallInv, Serialised
        <5> QED BY <3>6, <4>1, <4>2, <4>3, <5>1 DEF RecordOf, Arming
      <4>4. CASE c # d
        <5>1. c \in cons /\ c.peer # p
          BY <3>1, <3>7, <4>4
        <5>2. (\A u \in Threads : call'[u].peer = c.peer
                                  => call'[u].at \notin Arming \cup {"signal"})
                => \A u \in Threads : call[u].peer = c.peer
                                  => call[u].at \notin Arming \cup {"signal"}
          BY <4>1, <5>1
        <5> QED BY <4>1, <4>2, <5>1, <5>2 DEF RecordInv, RecordOf, Arming
      <4> QED BY <4>3, <4>4
    <3> QED BY <3>3, <3>4, <3>5, <3>8
  <2> QED BY <2>2, <2>3
<1>3. ASSUME NEW t \in Threads, Rollback(t) PROVE Inv'
  <2>1. TypeOK'
    BY <1>3 DEF Rollback, NoCall, RoleOf, TypeOK, Con, Kinds, Roles, Verbs, Call, CallStep, Pump, HubStep
  <2>2. CallInv'
    BY <1>3 DEF Rollback, NoCall, RoleOf, CallInv, Arming, Retiring, Serialised, TypeOK, Con, Call
  <2>3. DoomedInv'
    BY <1>3 DEF Rollback, NoCall, RoleOf, DoomedInv, CallInv, Told, Arming, Retiring, TypeOK, Con, Call
  <2>4. RecordInv'
    <3> SUFFICES ASSUME hub' = "running", NEW c \in cons', c.kind # "clone", ~c.doomed
                 PROVE  RecordOf(c)'
      BY DEF RecordInv
    <3>1. /\ c \in cons /\ hub = "running" /\ call[t].at = "rollback"
          /\ call' = [call EXCEPT ![t] = NoCall]
          /\ mapArmed' = [mapArmed EXCEPT ![call[t].peer] = call[t].prev]
      BY <1>3 DEF Rollback
    <3>2. c.peer \in Peers
      BY <3>1 DEF TypeOK, Con
    <3>3. call'[t].at = "idle" /\ \A u \in Threads : u # t => call'[u] = call[u]
      BY <3>1 DEF NoCall, TypeOK
    <3>4. CASE c.peer = call[t].peer
      <4>1. call[t].prev = RoleOf(c.kind) /\ mapArmed'[c.peer] = call[t].prev
        BY <3>1, <3>2, <3>4 DEF RecordInv, RecordOf, Arming, TypeOK
      <4> QED BY <3>1, <3>3, <4>1 DEF RecordInv, RecordOf, Arming
    <3>5. CASE c.peer # call[t].peer
      <4>1. mapArmed'[c.peer] = mapArmed[c.peer]
        BY <3>1, <3>2, <3>5 DEF TypeOK
      <4>2. (\A u \in Threads : call'[u].peer = c.peer
                                => call'[u].at \notin Arming \cup {"signal"})
              => \A u \in Threads : call[u].peer = c.peer
                                => call[u].at \notin Arming \cup {"signal"}
        BY <3>3, <3>5
      <4> QED BY <3>1, <3>3, <4>1, <4>2 DEF RecordInv, RecordOf, Arming
    <3> QED BY <3>4, <3>5
  <2> QED BY <2>1, <2>2, <2>3, <2>4
<1>4. ASSUME NEW t \in Threads, NEW p \in Peers, StartLink(t, p) PROVE Inv'
  <2>1. TypeOK'
    BY <1>4 DEF StartLink, NoLink, TypeOK, Con, Kinds, Roles, Verbs, Call, CallStep, Pump, HubStep
  <2>2. CallInv'
    BY <1>4 DEF StartLink, NoLink, CallInv, Arming, Retiring, Serialised, TypeOK, Con, Call
  <2>3. DoomedInv'
    BY <1>4 DEF StartLink, NoLink, DoomedInv, CallInv, Told, Arming, Retiring, TypeOK, Con, Call
  <2>4. RecordInv'
    BY <1>4 DEF StartLink, NoLink, RecordInv, RecordOf, CallInv, Arming, Retiring, TypeOK, Con, Call
  <2> QED BY <2>1, <2>2, <2>3, <2>4
<1>5. ASSUME NEW t \in Threads, LinkListen(t) PROVE Inv'
  <2>1. TypeOK'
    BY <1>5 DEF LinkListen, CallInv, Arming, Retiring
  <2>2. CallInv'
    BY <1>5 DEF LinkListen, CallInv, Arming, Retiring, Serialised, TypeOK, Con, Call
  <2>3. DoomedInv'
    BY <1>5 DEF LinkListen, DoomedInv, CallInv, Told, Arming, Retiring, TypeOK, Con, Call
  <2>4. RecordInv'
    BY <1>5 DEF LinkListen, RecordInv, RecordOf, CallInv, Arming, Retiring, TypeOK, Con, Call
  <2> QED BY <2>1, <2>2, <2>3, <2>4
<1>6. ASSUME NEW t \in Threads, LinkDial(t) PROVE Inv'
  <2>1. TypeOK'
    BY <1>6 DEF LinkDial, CallInv, Arming, Retiring
  <2>2. CallInv'
    BY <1>6 DEF LinkDial, CallInv, Arming, Retiring, Serialised, TypeOK, Con, Call
  <2>3. DoomedInv'
    BY <1>6 DEF LinkDial, DoomedInv, CallInv, Told, Arming, Retiring, TypeOK, Con, Call
  <2>4. RecordInv'
    BY <1>6 DEF LinkDial, RecordInv, RecordOf, CallInv, Arming, Retiring, TypeOK, Con, Call
  <2> QED BY <2>1, <2>2, <2>3, <2>4
<1>7. ASSUME NEW t \in Threads, NEW p \in Peers, StartDisconnect(t, p) PROVE Inv'
  <2>1. TypeOK'
    BY <1>7 DEF StartDisconnect, NoCall, Running, TypeOK, Con, Kinds, Roles, Verbs, Call, CallStep, Pump, HubStep
  <2>2. CallInv'
    BY <1>7 DEF StartDisconnect, NoCall, Running, CallInv, Arming, Retiring, Serialised, TypeOK, Con, Call
  <2>3. DoomedInv'
    BY <1>7 DEF StartDisconnect, NoCall, Running, DoomedInv, CallInv, Told, Arming, Retiring, TypeOK, Con, Call
  <2>4. RecordInv'
    BY <1>7 DEF StartDisconnect, NoCall, Running, RecordInv, RecordOf, CallInv, Arming, Retiring, TypeOK, Con, Call
  <2> QED BY <2>1, <2>2, <2>3, <2>4
<1>8. ASSUME NEW t \in Threads, ReadUp(t) PROVE Inv'
  <2>1. TypeOK'
    <3>1. call' = [call EXCEPT ![t] = [call[t] EXCEPT !.at = "erase", !.wasUp = IsPeerUp(call[t].peer)]]
      BY <1>8 DEF ReadUp
    <3>2. IsPeerUp(call[t].peer) \in BOOLEAN
      BY DEF IsPeerUp
    <3>3. call'[t] \in Call
      BY <3>1, <3>2, CallMoves DEF TypeOK, CallStep
    <3> QED BY <1>8, <3>1, <3>3 DEF ReadUp, TypeOK
  <2>2. CallInv'
    BY <1>8 DEF ReadUp, IsPeerUp, CallInv, Arming, Retiring, Serialised, TypeOK, Con, Call
  <2>3. DoomedInv'
    BY <1>8 DEF ReadUp, IsPeerUp, DoomedInv, CallInv, Told, Arming, Retiring, TypeOK, Con, Call
  <2>4. RecordInv'
    BY <1>8 DEF ReadUp, IsPeerUp, RecordInv, RecordOf, CallInv, Arming, Retiring, TypeOK, Con, Call
  <2> QED BY <2>1, <2>2, <2>3, <2>4
<1>9. ASSUME NEW t \in Threads, EraseRecord(t) PROVE Inv'
  <2>1. TypeOK'
    <3>1. call'[t] \in Call
      BY <1>9 DEF EraseRecord, TypeOK, Call, CallStep, Verbs, Roles
    <3> QED BY <1>9, <3>1 DEF EraseRecord, TypeOK, Roles, Call
  <2>2. CallInv'
    BY <1>9 DEF EraseRecord, CallInv, Arming, Retiring, Serialised, TypeOK, Con, Call
  <2>3. DoomedInv'
    BY <1>9 DEF EraseRecord, DoomedInv, CallInv, Told, Arming, Retiring, TypeOK, Con, Call
  <2>4. RecordInv'
    BY <1>9 DEF EraseRecord, RecordInv, RecordOf, CallInv, Arming, Retiring, TypeOK, Con, Call
  <2> QED BY <2>1, <2>2, <2>3, <2>4
<1>10. ASSUME NEW t \in Threads, SignalDestroy(t) PROVE Inv'
  <2>1. TypeOK'
    <3>1. call[t].peer \in Peers /\ {call[t].peer} \in SUBSET Peers
      BY <1>10 DEF SignalDestroy, CallInv, Retiring
    <3>2. cons' \subseteq Con
      BY <1>10, <3>1, SignalDooms DEF SignalDestroy, TypeOK
    <3>3. call'[t] \in Call
      BY <1>10 DEF SignalDestroy, TypeOK, Call, CallStep
    <3> QED BY <1>10, <3>2, <3>3 DEF SignalDestroy, TypeOK
  <2>2. CallInv'
    BY <1>10 DEF SignalDestroy, ConSignal, CallInv, Arming, Retiring, Serialised, TypeOK, Con, Call
  <2>3. DoomedInv'
    BY <1>10 DEF SignalDestroy, ConSignal, DoomedInv, CallInv, Told, Arming, Retiring, TypeOK, Con, Call
  <2>4. RecordInv'
    <3>1. call[t].peer \in Peers /\ {call[t].peer} \in SUBSET Peers
      BY <1>10 DEF SignalDestroy, CallInv, Retiring
    <3> SUFFICES ASSUME hub' = "running", NEW c \in cons', c.kind # "clone", ~c.doomed
                 PROVE  RecordOf(c)'
      BY DEF RecordInv
    <3>2. ConSignal({call[t].peer}) /\ cons \subseteq Con
      BY <1>10 DEF SignalDestroy, TypeOK
    <3>3. PICK e \in cons : /\ c.peer = e.peer /\ c.kind = e.kind
                            /\ ~c.doomed => ~e.doomed /\ e.peer \notin {call[t].peer}
      BY <3>1, <3>2, SignalDooms
    <3>4. ~e.doomed /\ c.peer # call[t].peer /\ hub = "running" /\ mapArmed' = mapArmed
      BY <1>10, <3>3 DEF SignalDestroy
    <3>5. \A u \in Threads : /\ u # t => call'[u] = call[u]
                             /\ u = t => call'[u].peer # c.peer /\ call[u].peer # c.peer
      BY <1>10, <3>4 DEF SignalDestroy, TypeOK, Call
    <3>6. (\A u \in Threads : call'[u].peer = c.peer
                              => call'[u].at \notin Arming \cup {"signal"})
            => \A u \in Threads : call[u].peer = c.peer
                              => call[u].at \notin Arming \cup {"signal"}
      BY <3>5
    <3> QED BY <3>3, <3>4, <3>5, <3>6 DEF RecordInv, RecordOf
  <2> QED BY <2>1, <2>2, <2>3, <2>4
<1>11. ASSUME NEW t \in Threads, WaitGone(t) PROVE Inv'
  <2>1. TypeOK'
    <3>1. [call[t] EXCEPT !.gone = TRUE] \in Call
      BY DEF TypeOK, Call
    <3>2. call'[t] \in Call
      BY <1>11, <3>1, NoCallType, CallMoves DEF WaitGone, AfterWait, TypeOK, CallStep
    <3> QED BY <1>11, <3>2 DEF WaitGone, TypeOK
  <2>2. CallInv'
    BY <1>11 DEF WaitGone, ConExists, AfterWait, CallInv, Arming, Retiring, Serialised, TypeOK, Con, Call
  <2>3. DoomedInv'
    BY <1>11 DEF WaitGone, ConExists, AfterWait, DoomedInv, CallInv, Told, Arming, Retiring, TypeOK, Con, Call
  <2>4. RecordInv'
    BY <1>11 DEF WaitGone, ConExists, AfterWait, RecordInv, RecordOf, CallInv, Arming, Retiring, TypeOK, Con, Call
  <2> QED BY <2>1, <2>2, <2>3, <2>4
<1>12. ASSUME NEW t \in Threads, WaitExpires(t) PROVE Inv'
  <2>1. TypeOK'
    <3>1. call'[t] \in Call
      BY <1>12, NoCallType DEF WaitExpires, AfterWait, TypeOK, Call, CallStep, Verbs, Roles
    <3> QED BY <1>12, <3>1 DEF WaitExpires, AfterWait, TypeOK
  <2>2. CallInv'
    BY <1>12 DEF WaitExpires, AfterWait, CallInv, Arming, Retiring, Serialised, TypeOK, Con, Call
  <2>3. DoomedInv'
    BY <1>12 DEF WaitExpires, AfterWait, DoomedInv, CallInv, Told, Arming, Retiring, TypeOK, Con, Call
  <2>4. RecordInv'
    BY <1>12 DEF WaitExpires, AfterWait, RecordInv, RecordOf, CallInv, Arming, Retiring, TypeOK, Con, Call
  <2> QED BY <2>1, <2>2, <2>3, <2>4
<1>13. ASSUME NEW t \in Threads, MarkDown(t) PROVE Inv'
  <2>1. TypeOK'
    <3>1. PICK s \in {"tell", "settle"} : call' = [call EXCEPT ![t].at = s]
      BY <1>13 DEF MarkDown
    <3>2. call'[t] \in Call
      BY <3>1, CallMoves DEF TypeOK, CallStep
    <3> QED BY <1>13, <3>1, <3>2 DEF MarkDown, MarkPeer, TypeOK
  <2>2. CallInv'
    BY <1>13 DEF MarkDown, MarkPeer, CallInv, Arming, Retiring, Serialised, TypeOK, Con, Call
  <2>3. DoomedInv'
    BY <1>13 DEF MarkDown, MarkPeer, DoomedInv, CallInv, Told, Arming, Retiring, TypeOK, Con, Call
  <2>4. RecordInv'
    BY <1>13 DEF MarkDown, MarkPeer, RecordInv, RecordOf, CallInv, Arming, Retiring, TypeOK, Con, Call
  <2> QED BY <2>1, <2>2, <2>3, <2>4
<1>14. ASSUME NEW t \in Threads, TellDown(t) PROVE Inv'
  <2>1. TypeOK'
    BY <1>14 DEF TellDown, TypeOK, Con, Kinds, Roles, Verbs, Call, CallStep, Pump, HubStep
  <2>2. CallInv'
    BY <1>14 DEF TellDown, CallInv, Arming, Retiring, Serialised, TypeOK, Con, Call
  <2>3. DoomedInv'
    BY <1>14 DEF TellDown, DoomedInv, CallInv, Told, Arming, Retiring, TypeOK, Con, Call
  <2>4. RecordInv'
    BY <1>14 DEF TellDown, RecordInv, RecordOf, CallInv, Arming, Retiring, TypeOK, Con, Call
  <2> QED BY <2>1, <2>2, <2>3, <2>4
<1>15. ASSUME NEW t \in Threads, Settle(t) PROVE Inv'
  <2>1. TypeOK'
    <3>1. call'[t] \in Call
      BY <1>15, NoCallType DEF Settle, TypeOK, Call, CallStep, Verbs, Roles
    <3>2. call[t].peer \in Peers
      BY <1>15 DEF Settle, CallInv, Retiring
    <3> QED BY <1>15, <3>1, <3>2 DEF Settle, TypeOK
  <2>2. CallInv'
    BY <1>15 DEF Settle, NoCall, CallInv, Arming, Retiring, Serialised, TypeOK, Con, Call
  <2>3. DoomedInv'
    BY <1>15 DEF Settle, NoCall, DoomedInv, CallInv, Told, Arming, Retiring, TypeOK, Con, Call
  <2>4. RecordInv'
    BY <1>15 DEF Settle, NoCall, RecordInv, RecordOf, CallInv, Arming, Retiring, TypeOK, Con, Call
  <2> QED BY <2>1, <2>2, <2>3, <2>4
<1>16. ASSUME NEW c \in cons, AcceptLogin(c) PROVE Inv'
  <2>1. TypeOK'
    <3>1. c \in Con /\ c.peer \in Peers
      BY DEF TypeOK, Con
    <3>2. [peer |-> c.peer, kind |-> "clone", up |-> TRUE, doomed |-> FALSE] \in Con
      BY <3>1 DEF Con, Kinds
    <3>3. pump' \in Pump
      BY <1>16, <3>1 DEF AcceptLogin, Handle, Pump
    <3> QED BY <1>16, <3>2, <3>3 DEF AcceptLogin, TypeOK
  <2>2. CallInv'
    BY <1>16 DEF AcceptLogin, Handle, CallInv, Arming, Retiring, Serialised, TypeOK, Con, Call
  <2>3. DoomedInv'
    BY <1>16 DEF AcceptLogin, Handle, DoomedInv, CallInv, Told, Arming, Retiring, TypeOK, Con, Call
  <2>4. RecordInv'
    BY <1>16 DEF AcceptLogin, Handle, RecordInv, RecordOf, CallInv, Arming, Retiring, TypeOK, Con, Call
  <2> QED BY <2>1, <2>2, <2>3, <2>4
<1>17. ASSUME NEW c \in cons, DialLogin(c) PROVE Inv'
  <2>1. TypeOK'
    BY <1>17 DEF DialLogin, Handle, TypeOK, Con, Kinds, Roles, Verbs, Call, CallStep, Pump, HubStep
  <2>2. CallInv'
    BY <1>17 DEF DialLogin, Handle, CallInv, Arming, Retiring, Serialised, TypeOK, Con, Call
  <2>3. DoomedInv'
    BY <1>17 DEF DialLogin, Handle, DoomedInv, CallInv, Told, Arming, Retiring, TypeOK, Con, Call
  <2>4. RecordInv'
    BY <1>17 DEF DialLogin, Handle, RecordInv, RecordOf, CallInv, Arming, Retiring, TypeOK, Con, Call
  <2> QED BY <2>1, <2>2, <2>3, <2>4
<1>18. ASSUME NEW c \in cons, ConClose(c) PROVE Inv'
  <2>1. TypeOK'
    BY <1>18 DEF ConClose, Handle, TypeOK, Con, Kinds, Roles, Verbs, Call, CallStep, Pump, HubStep
  <2>2. CallInv'
    BY <1>18 DEF ConClose, Handle, CallInv, Arming, Retiring, Serialised, TypeOK, Con, Call
  <2>3. DoomedInv'
    BY <1>18 DEF ConClose, Handle, DoomedInv, CallInv, Told, Arming, Retiring, TypeOK, Con, Call
  <2>4. RecordInv'
    BY <1>18 DEF ConClose, Handle, RecordInv, RecordOf, CallInv, Arming, Retiring, TypeOK, Con, Call
  <2> QED BY <2>1, <2>2, <2>3, <2>4
<1>19. ASSUME NEW c \in cons, Destroy(c) PROVE Inv'
  <2>1. TypeOK'
    <3>1. c \in Con /\ c.peer \in Peers
      BY DEF TypeOK, Con
    <3>2. Handle(c.peer, FALSE) => pump' \in Pump
      BY <3>1 DEF Handle, Pump
    <3>3. pump' \in Pump
      BY <1>19, <3>2 DEF Destroy, TypeOK
    <3> QED BY <1>19, <3>1, <3>3 DEF Destroy, TypeOK
  <2>2. CallInv'
    BY <1>19 DEF Destroy, Handle, CallInv, Arming, Retiring, Serialised, TypeOK, Con, Call
  <2>3. DoomedInv'
    BY <1>19 DEF Destroy, Handle, DoomedInv, CallInv, Told, Arming, Retiring, TypeOK, Con, Call
  <2>4. RecordInv'
    BY <1>19 DEF Destroy, Handle, RecordInv, RecordOf, CallInv, Arming, Retiring, TypeOK, Con, Call
  <2> QED BY <2>1, <2>2, <2>3, <2>4
<1>20. CASE PumpMark
  <2>1. TypeOK'
    BY <1>20 DEF PumpMark, MarkPeer, PumpIdle, TypeOK, Con, Kinds, Roles, Verbs, Call, CallStep, Pump, HubStep
  <2>2. CallInv'
    BY <1>20 DEF PumpMark, MarkPeer, PumpIdle, CallInv, Arming, Retiring, Serialised, TypeOK, Con, Call
  <2>3. DoomedInv'
    BY <1>20 DEF PumpMark, MarkPeer, PumpIdle, DoomedInv, CallInv, Told, Arming, Retiring, TypeOK, Con, Call
  <2>4. RecordInv'
    BY <1>20 DEF PumpMark, MarkPeer, PumpIdle, RecordInv, RecordOf, CallInv, Arming, Retiring, TypeOK, Con, Call
  <2> QED BY <2>1, <2>2, <2>3, <2>4
<1>21. CASE PumpTell
  <2>1. TypeOK'
    BY <1>21 DEF PumpTell, PumpIdle, TypeOK, Con, Kinds, Roles, Verbs, Call, CallStep, Pump, HubStep
  <2>2. CallInv'
    BY <1>21 DEF PumpTell, PumpIdle, CallInv, Arming, Retiring, Serialised, TypeOK, Con, Call
  <2>3. DoomedInv'
    BY <1>21 DEF PumpTell, PumpIdle, DoomedInv, CallInv, Told, Arming, Retiring, TypeOK, Con, Call
  <2>4. RecordInv'
    BY <1>21 DEF PumpTell, PumpIdle, RecordInv, RecordOf, CallInv, Arming, Retiring, TypeOK, Con, Call
  <2> QED BY <2>1, <2>2, <2>3, <2>4
<1>22. CASE DrainSnapshot
  <2>1. TypeOK'
    BY <1>22 DEF DrainSnapshot, DrainSet, TypeOK, Con, Kinds, Roles, Verbs, Call, CallStep, Pump, HubStep
  <2>2. CallInv'
    BY <1>22 DEF DrainSnapshot, DrainSet, CallInv, Arming, Retiring, Serialised, TypeOK, Con, Call
  <2>3. DoomedInv'
    BY <1>22 DEF DrainSnapshot, DrainSet, DoomedInv, CallInv, Told, Arming, Retiring, TypeOK, Con, Call
  <2>4. RecordInv'
    BY <1>22 DEF DrainSnapshot, DrainSet, RecordInv, RecordOf, CallInv, Arming, Retiring, TypeOK, Con, Call
  <2> QED BY <2>1, <2>2, <2>3, <2>4
<1>23. CASE DrainSignal
  <2>1. TypeOK'
    BY <1>23, SignalDooms DEF DrainSignal, TypeOK, HubStep
  <2>2. CallInv'
    BY <1>23 DEF DrainSignal, ConSignal, CallInv, Arming, Retiring, Serialised, TypeOK, Con, Call
  <2>3. DoomedInv'
    BY <1>23 DEF DrainSignal, ConSignal, DoomedInv, CallInv, Told, Arming, Retiring, TypeOK, Con, Call
  <2>4. RecordInv'
    BY <1>23 DEF DrainSignal, ConSignal, RecordInv, RecordOf, CallInv, Arming, Retiring, TypeOK, Con, Call
  <2> QED BY <2>1, <2>2, <2>3, <2>4
<1>24. CASE DrainDone
  <2>1. TypeOK'
    BY <1>24 DEF DrainDone, TypeOK, Con, Kinds, Roles, Verbs, Call, CallStep, Pump, HubStep
  <2>2. CallInv'
    BY <1>24 DEF DrainDone, CallInv, Arming, Retiring, Serialised, TypeOK, Con, Call
  <2>3. DoomedInv'
    BY <1>24 DEF DrainDone, DoomedInv, CallInv, Told, Arming, Retiring, TypeOK, Con, Call
  <2>4. RecordInv'
    BY <1>24 DEF DrainDone, RecordInv, RecordOf, CallInv, Arming, Retiring, TypeOK, Con, Call
  <2> QED BY <2>1, <2>2, <2>3, <2>4
<1>25. CASE DrainExpires
  <2>1. TypeOK'
    BY <1>25 DEF DrainExpires, TypeOK, Con, Kinds, Roles, Verbs, Call, CallStep, Pump, HubStep
  <2>2. CallInv'
    BY <1>25 DEF DrainExpires, CallInv, Arming, Retiring, Serialised, TypeOK, Con, Call
  <2>3. DoomedInv'
    BY <1>25 DEF DrainExpires, DoomedInv, CallInv, Told, Arming, Retiring, TypeOK, Con, Call
  <2>4. RecordInv'
    BY <1>25 DEF DrainExpires, RecordInv, RecordOf, CallInv, Arming, Retiring, TypeOK, Con, Call
  <2> QED BY <2>1, <2>2, <2>3, <2>4
<1>26. CASE UNCHANGED vars
  <2>1. TypeOK'
    BY <1>26 DEF vars, TypeOK, Con, Kinds, Roles, Verbs, Call, CallStep, Pump, HubStep
  <2>2. CallInv'
    BY <1>26 DEF vars, CallInv, Arming, Retiring, Serialised, TypeOK, Con, Call
  <2>3. DoomedInv'
    BY <1>26 DEF vars, DoomedInv, CallInv, Told, Arming, Retiring, TypeOK, Con, Call
  <2>4. RecordInv'
    BY <1>26 DEF vars, RecordInv, RecordOf, CallInv, Arming, Retiring, TypeOK, Con, Call
  <2> QED BY <2>1, <2>2, <2>3, <2>4
<1> QED
  BY <1>1, <1>2, <1>3, <1>4, <1>5, <1>6, <1>7, <1>8, <1>9, <1>10, <1>11, <1>12, <1>13, <1>14, <1>15, <1>16, <1>17, <1>18, <1>19, <1>20, <1>21, <1>22, <1>23, <1>24, <1>25, <1>26
  DEF Next, Begin, Continue, PumpEvent, DrainRest

\* The invariant holds in every reachable state.
LEMMA SpecInv == ASSUME Serialised, NoLink PROVE Spec => []Inv
  BY InitInv, NextInv, PTL DEF Spec

\* The variables keep their types, for any peers, threads and verbs, when calls
\* about one peer come from one thread.
THEOREM TypeCorrect == ASSUME Serialised, NoLink PROVE Spec => []TypeOK
  BY SpecInv, PTL DEF Inv

\* A Disconnect that returns before its connection has left leaves the peer in
\* m_setUnretired, so that DrainCons signals and waits for it.
THEOREM RetiringRemembered ==
  ASSUME Serialised, NoLink PROVE Spec => []RetiringIsRemembered
<1>1. Inv => RetiringIsRemembered
  BY DEF Inv, DoomedInv, RetiringIsRemembered, CallOn, Told
<1> QED BY <1>1, SpecInv, PTL

\* A refused arm leaves the record of the connection it collided with as it was,
\* and an accepted one is on record before the connection can be dispatched.
THEOREM RecordsMatch == ASSUME Serialised, NoLink PROVE Spec => []RecordMatchesCon
<1>1. Inv => RecordMatchesCon
  BY DEF Inv, RecordInv, RecordOf, RecordMatchesCon, CallOn, Arming
<1> QED BY <1>1, SpecInv, PTL

-----------------------------------------------------------------------------
(* What the drain leaves behind *)

\* No peer is broken at the start, and none has a connection.
LEMMA InitDrain == Init => HeldInv /\ DownInv /\ DrainInv
  BY DEF Init, HeldInv, DownInv, DrainInv, NoCall, PumpIdle, Retiring

\* DESTROY takes no connection away and adds none.
LEMMA SignalKeeps ==
  ASSUME NEW ps \in SUBSET Peers, cons \subseteq Con, ConSignal(ps)
  PROVE  /\ \A c \in cons : \E d \in cons' : d.peer = c.peer /\ d.kind = c.kind
         /\ \A d \in cons' : \E c \in cons : d.peer = c.peer /\ d.kind = c.kind
<1>1. ASSUME NEW c \in cons PROVE \E d \in cons' : d.peer = c.peer /\ d.kind = c.kind
  <2> DEFINE d == [c EXCEPT !.doomed = c.doomed \/ c.peer \in ps]
  <2>1. d \in cons' /\ d.peer = c.peer /\ d.kind = c.kind
    BY <1>1 DEF ConSignal, Con
  <2> QED BY <2>1
<1> QED BY <1>1, SignalDooms

\* A signal takes no listener from under a login.
LEMMA SignalHeld ==
  ASSUME NEW ps \in SUBSET Peers, cons \subseteq Con, ConSignal(ps),
         closedOnce' = closedOnce, HeldInv
  PROVE  \A c \in cons' : Unbroken(c.peer)' =>
           \E d \in cons' : d.peer = c.peer /\ d.kind # "clone"
<1>1. ASSUME NEW c \in cons', Unbroken(c.peer)'
      PROVE  \E d \in cons' : d.peer = c.peer /\ d.kind # "clone"
  <2>1. PICK b \in cons : b.peer = c.peer
    BY SignalKeeps
  <2>2. PICK e \in cons : e.peer = c.peer /\ e.kind # "clone"
    BY <1>1, <2>1 DEF HeldInv, Unbroken
  <2> QED BY <2>2, SignalKeeps
<1> QED BY <1>1

\* A step that takes away no peer's last connection, breaks no peer and moves no
\* thread into a Disconnect keeps what is held, if it adds no orphan login.
LEMMA HeldFrame ==
  ASSUME HeldInv, closedOnce' = closedOnce,
         \A c \in cons : \E d \in cons' : d.peer = c.peer,
         \A u \in Threads : call'[u].peer = call[u].peer,
         \A u \in Threads : call'[u].gone => call[u].gone,
         \A u \in Threads : call'[u].at \in Retiring => call[u].at \in Retiring,
         pump' = pump \/ pump'.up,
         \A c \in cons' : Unbroken(c.peer)' =>
           \E d \in cons' : d.peer = c.peer /\ d.kind # "clone"
  PROVE  HeldInv'
<1>1. ASSUME NEW u \in Threads, call'[u].at \in Retiring, Unbroken(call[u].peer)
      PROVE  \E c \in cons' : c.peer = call'[u].peer
  <2>1. PICK b \in cons : b.peer = call[u].peer
    BY <1>1 DEF HeldInv, ConExists
  <2> QED BY <2>1
<1>2. \A u \in Threads : call'[u].gone => call'[u].peer \in closedOnce'
  BY DEF HeldInv, Unbroken
<1>3. (pump'.at = "mark" /\ ~pump'.up) => pump'.peer \in closedOnce'
  BY DEF HeldInv, Unbroken
<1> QED BY <1>1, <1>2, <1>3 DEF HeldInv, Unbroken, ConExists

\* Every step keeps what is held.
LEMMA HeldNext ==
  ASSUME Serialised, NoLink, Inv, HeldInv, [Next]_vars PROVE HeldInv'
<1> USE PeersAssumption, OwnsAssumption, OpsAssumption DEF At, Goto, Return
<1>1. ASSUME NEW t \in Threads, NEW p \in Peers, NEW op \in {"listen", "dial"}, Arm(t, p, op) PROVE HeldInv'
  BY <1>1 DEF Arm, WriteRecord, NoCall, Running, Inv, TypeOK, CallInv, Arming, Retiring, ConExists, HeldInv, Unbroken, Call, Con, Pump
<1>2. ASSUME NEW t \in Threads, PostCon(t) PROVE HeldInv'
  <2>1. call[t].peer \in Peers /\ call[t].op \in {"listen", "dial"} /\ call[t].at = "post"
    BY <1>2 DEF PostCon, Inv, CallInv, Arming
  <2>2. CASE ConExists(call[t].peer)
    <3>1. /\ call' = [call EXCEPT ![t].at = "rollback"] /\ cons' = cons
          /\ closedOnce' = closedOnce /\ pump' = pump
      BY <1>2, <2>2 DEF PostCon
    <3>2. \A u \in Threads : /\ call'[u].peer = call[u].peer /\ call'[u].gone = call[u].gone
                             /\ call'[u].at \in Retiring => call[u].at \in Retiring
      BY <3>1 DEF Inv, TypeOK, Call, Retiring
    <3> QED BY <3>1, <3>2 DEF HeldInv, Unbroken, ConExists
  <2>3. CASE ~ConExists(call[t].peer)
    <3> DEFINE d == [peer |-> call[t].peer, kind |-> KindOf(call[t].op), up |-> FALSE, doomed |-> FALSE]
    <3>1. /\ call' = [call EXCEPT ![t] = NoCall] /\ cons' = cons \cup {d}
          /\ closedOnce' = closedOnce /\ pump' = pump
      BY <1>2, <2>1, <2>3 DEF PostCon
    <3>2. d.kind # "clone"
      BY DEF KindOf
    <3>3. \A p : ConExists(p) => ConExists(p)'
      BY <3>1 DEF ConExists
    <3>4. /\ \A u \in Threads : u # t => call'[u] = call[u]
          /\ call'[t].at = "idle" /\ call'[t].gone = FALSE
      BY <3>1 DEF NoCall, Inv, TypeOK
    <3>5. \A c \in cons' : Unbroken(c.peer)' => \E e \in cons' : e.peer = c.peer /\ e.kind # "clone"
      BY <3>1, <3>2 DEF HeldInv, Unbroken
    <3> QED BY <3>1, <3>3, <3>4, <3>5 DEF HeldInv, Unbroken, Retiring, ConExists
  <2> QED BY <2>2, <2>3
<1>3. ASSUME NEW t \in Threads, Rollback(t) PROVE HeldInv'
  BY <1>3 DEF Rollback, NoCall, Inv, TypeOK, CallInv, Arming, Retiring, ConExists, HeldInv, Unbroken, Call, Con, Pump
<1>4. ASSUME NEW t \in Threads, NEW p \in Peers, StartLink(t, p) PROVE HeldInv'
  BY <1>4 DEF StartLink, NoLink, Inv, TypeOK, CallInv, Arming, Retiring, ConExists, HeldInv, Unbroken, Call, Con, Pump
<1>5. ASSUME NEW t \in Threads, LinkListen(t) PROVE HeldInv'
  BY <1>5 DEF LinkListen, Inv, TypeOK, CallInv, Arming, Retiring, ConExists, HeldInv, Unbroken, Call, Con, Pump
<1>6. ASSUME NEW t \in Threads, LinkDial(t) PROVE HeldInv'
  BY <1>6 DEF LinkDial, Inv, TypeOK, CallInv, Arming, Retiring, ConExists, HeldInv, Unbroken, Call, Con, Pump
<1>7. ASSUME NEW t \in Threads, NEW p \in Peers, StartDisconnect(t, p) PROVE HeldInv'
  BY <1>7 DEF StartDisconnect, NoCall, Running, Inv, TypeOK, CallInv, Arming, Retiring, ConExists, HeldInv, Unbroken, Call, Con, Pump
<1>8. ASSUME NEW t \in Threads, ReadUp(t) PROVE HeldInv'
  BY <1>8 DEF ReadUp, Inv, TypeOK, CallInv, Arming, Retiring, ConExists, HeldInv, Unbroken, Call, Con, Pump
<1>9. ASSUME NEW t \in Threads, EraseRecord(t) PROVE HeldInv'
  BY <1>9 DEF EraseRecord, Inv, TypeOK, CallInv, Arming, Retiring, ConExists, HeldInv, Unbroken, Call, Con, Pump
<1>10. ASSUME NEW t \in Threads, SignalDestroy(t) PROVE HeldInv'
  <2>1. /\ cons \subseteq Con /\ {call[t].peer} \in SUBSET Peers
        /\ ConSignal({call[t].peer}) /\ closedOnce' = closedOnce
    BY <1>10 DEF SignalDestroy, Inv, TypeOK, CallInv, Retiring
  <2>2. /\ \A c \in cons : \E d \in cons' : d.peer = c.peer
        /\ \A c \in cons' : Unbroken(c.peer)' =>
             \E d \in cons' : d.peer = c.peer /\ d.kind # "clone"
    BY <1>10, <2>1, SignalHeld, SignalKeeps DEF SignalDestroy
  <2>3. /\ \A u \in Threads : /\ call'[u].peer = call[u].peer
                              /\ call'[u].gone => call[u].gone
                              /\ call'[u].at \in Retiring => call[u].at \in Retiring
        /\ pump' = pump
    BY <1>10 DEF SignalDestroy, Inv, TypeOK, Call, Retiring
  <2>4. closedOnce' = closedOnce /\ (pump' = pump \/ pump'.up)
    BY <2>1, <2>3
  <2> QED BY <2>2, <2>3, <2>4, HeldFrame
<1>11. ASSUME NEW t \in Threads, WaitGone(t) PROVE HeldInv'
  BY <1>11 DEF WaitGone, AfterWait, Inv, TypeOK, CallInv, Arming, Retiring, ConExists, HeldInv, Unbroken, Call, Con, Pump
<1>12. ASSUME NEW t \in Threads, WaitExpires(t) PROVE HeldInv'
  BY <1>12 DEF WaitExpires, AfterWait, Inv, TypeOK, CallInv, Arming, Retiring, ConExists, HeldInv, Unbroken, Call, Con, Pump
<1>13. ASSUME NEW t \in Threads, MarkDown(t) PROVE HeldInv'
  BY <1>13 DEF MarkDown, MarkPeer, MarkChanges, IsPeerUp, Inv, TypeOK, CallInv, Arming, Retiring, ConExists, HeldInv, Unbroken, Call, Con, Pump
<1>14. ASSUME NEW t \in Threads, TellDown(t) PROVE HeldInv'
  BY <1>14 DEF TellDown, Inv, TypeOK, CallInv, Arming, Retiring, ConExists, HeldInv, Unbroken, Call, Con, Pump
<1>15. ASSUME NEW t \in Threads, Settle(t) PROVE HeldInv'
  BY <1>15 DEF Settle, NoCall, Inv, TypeOK, CallInv, Arming, Retiring, ConExists, HeldInv, Unbroken, Call, Con, Pump
<1>16. ASSUME NEW c \in cons, AcceptLogin(c) PROVE HeldInv'
  BY <1>16 DEF AcceptLogin, PumpFree, Handle, Inv, TypeOK, CallInv, Arming, Retiring, ConExists, HeldInv, Unbroken, Call, Con, Pump
<1>17. ASSUME NEW c \in cons, DialLogin(c) PROVE HeldInv'
  <2> DEFINE e == [c EXCEPT !.up = TRUE]
  <2>1. /\ cons' = (cons \ {c}) \cup {e} /\ closedOnce' = closedOnce /\ call' = call
        /\ pump'.up /\ c.kind = "dial" /\ e.peer = c.peer /\ e.kind = c.kind
    BY <1>17 DEF DialLogin, Handle, Inv, TypeOK, Con
  <2>2. \A b \in cons : \E d \in cons' : d.peer = b.peer /\ d.kind = b.kind
    BY <2>1
  <2>3. \A b \in cons' : Unbroken(b.peer)' => \E d \in cons' : d.peer = b.peer /\ d.kind # "clone"
    <3> SUFFICES ASSUME NEW b \in cons', Unbroken(b.peer)'
                 PROVE  \E d \in cons' : d.peer = b.peer /\ d.kind # "clone"
      OBVIOUS
    <3>1. PICK a \in cons : a.peer = b.peer
      BY <2>1
    <3>2. PICK d \in cons : d.peer = a.peer /\ d.kind # "clone"
      BY <2>1, <3>1 DEF HeldInv, Unbroken
    <3> QED BY <2>2, <3>1, <3>2
  <2> QED BY <2>1, <2>2, <2>3, HeldFrame
<1>18. ASSUME NEW c \in cons, ConClose(c) PROVE HeldInv'
  BY <1>18 DEF ConClose, PumpFree, Handle, Inv, TypeOK, CallInv, Arming, Retiring, ConExists, HeldInv, Unbroken, Call, Con, Pump
<1>19. ASSUME NEW c \in cons, Destroy(c) PROVE HeldInv'
  BY <1>19 DEF Destroy, PumpFree, Handle, Inv, TypeOK, CallInv, Arming, Retiring, ConExists, HeldInv, Unbroken, Call, Con, Pump
<1>20. CASE PumpMark
  BY <1>20 DEF PumpMark, MarkPeer, MarkChanges, IsPeerUp, PumpIdle, Inv, TypeOK, CallInv, Arming, Retiring, ConExists, HeldInv, Unbroken, Call, Con, Pump
<1>21. CASE PumpTell
  BY <1>21 DEF PumpTell, PumpIdle, Inv, TypeOK, CallInv, Arming, Retiring, ConExists, HeldInv, Unbroken, Call, Con, Pump
<1>22. CASE DrainSnapshot
  BY <1>22 DEF DrainSnapshot, Running, Inv, TypeOK, CallInv, Arming, Retiring, ConExists, HeldInv, Unbroken, Call, Con, Pump
<1>23. CASE DrainSignal
  <2>1. /\ cons \subseteq Con /\ aSet \in SUBSET Peers /\ ConSignal(aSet)
        /\ closedOnce' = closedOnce /\ call' = call /\ pump' = pump
    BY <1>23 DEF DrainSignal, Inv, TypeOK
  <2>2. /\ \A c \in cons : \E d \in cons' : d.peer = c.peer
        /\ \A c \in cons' : Unbroken(c.peer)' =>
             \E d \in cons' : d.peer = c.peer /\ d.kind # "clone"
    BY <1>23, <2>1, SignalHeld, SignalKeeps DEF DrainSignal
  <2> QED BY <2>1, <2>2, HeldFrame
<1>24. CASE DrainDone
  BY <1>24 DEF DrainDone, Inv, TypeOK, CallInv, Arming, Retiring, ConExists, HeldInv, Unbroken, Call, Con, Pump
<1>25. CASE DrainExpires
  BY <1>25 DEF DrainExpires, Inv, TypeOK, CallInv, Arming, Retiring, ConExists, HeldInv, Unbroken, Call, Con, Pump
<1>26. CASE UNCHANGED vars
  BY <1>26 DEF vars, Inv, TypeOK, CallInv, Arming, Retiring, ConExists, HeldInv, Unbroken, Call, Con, Pump
<1> QED
  BY <1>1, <1>2, <1>3, <1>4, <1>5, <1>6, <1>7, <1>8, <1>9, <1>10, <1>11, <1>12, <1>13, <1>14, <1>15, <1>16, <1>17, <1>18, <1>19, <1>20, <1>21, <1>22, <1>23, <1>24, <1>25, <1>26
  DEF Next, Begin, Continue, PumpEvent, DrainRest

\* Every step keeps what is known of a peer that is down.
LEMMA DownNext ==
  ASSUME Serialised, NoLink, Inv, HeldInv, DownInv, [Next]_vars PROVE DownInv'
<1> USE PeersAssumption, OwnsAssumption, OpsAssumption DEF At, Goto, Return
<1>1. ASSUME NEW t \in Threads, NEW p \in Peers, NEW op \in {"listen", "dial"}, Arm(t, p, op) PROVE DownInv'
  BY <1>1 DEF Arm, WriteRecord, NoCall, Running, Inv, TypeOK, CallInv, Arming, Retiring, HeldInv, DownInv, Unbroken, Call, Con, Pump
<1>2. ASSUME NEW t \in Threads, PostCon(t) PROVE DownInv'
  <2>1. /\ call[t].at = "post" /\ mapPeers' = mapPeers /\ setUnretired' = setUnretired
        /\ hub' = hub /\ closedOnce' = closedOnce
        /\ \A u \in Threads : u # t => call'[u] = call[u]
    BY <1>2 DEF PostCon, Inv, TypeOK
  <2> QED BY <2>1 DEF DownInv, Unbroken
<1>3. ASSUME NEW t \in Threads, Rollback(t) PROVE DownInv'
  BY <1>3 DEF Rollback, NoCall, Inv, TypeOK, CallInv, Arming, Retiring, HeldInv, DownInv, Unbroken, Call, Con, Pump
<1>4. ASSUME NEW t \in Threads, NEW p \in Peers, StartLink(t, p) PROVE DownInv'
  BY <1>4 DEF StartLink, NoLink, Inv, TypeOK, CallInv, Arming, Retiring, HeldInv, DownInv, Unbroken, Call, Con, Pump
<1>5. ASSUME NEW t \in Threads, LinkListen(t) PROVE DownInv'
  BY <1>5 DEF LinkListen, Inv, TypeOK, CallInv, Arming, Retiring, HeldInv, DownInv, Unbroken, Call, Con, Pump
<1>6. ASSUME NEW t \in Threads, LinkDial(t) PROVE DownInv'
  BY <1>6 DEF LinkDial, Inv, TypeOK, CallInv, Arming, Retiring, HeldInv, DownInv, Unbroken, Call, Con, Pump
<1>7. ASSUME NEW t \in Threads, NEW p \in Peers, StartDisconnect(t, p) PROVE DownInv'
  BY <1>7 DEF StartDisconnect, NoCall, Running, ConExists, Inv, TypeOK, CallInv, Arming, Retiring, HeldInv, DownInv, Unbroken, Call, Con, Pump
<1>8. ASSUME NEW t \in Threads, ReadUp(t) PROVE DownInv'
  BY <1>8 DEF ReadUp, Inv, TypeOK, CallInv, Arming, Retiring, HeldInv, DownInv, Unbroken, Call, Con, Pump
<1>9. ASSUME NEW t \in Threads, EraseRecord(t) PROVE DownInv'
  BY <1>9 DEF EraseRecord, Inv, TypeOK, CallInv, Arming, Retiring, HeldInv, DownInv, Unbroken, Call, Con, Pump
<1>10. ASSUME NEW t \in Threads, SignalDestroy(t) PROVE DownInv'
  BY <1>10 DEF SignalDestroy, Inv, TypeOK, CallInv, Arming, Retiring, HeldInv, DownInv, Unbroken, Call, Con, Pump
<1>11. ASSUME NEW t \in Threads, WaitGone(t) PROVE DownInv'
  BY <1>11 DEF WaitGone, AfterWait, ConExists, Inv, TypeOK, CallInv, Arming, Retiring, HeldInv, DownInv, Unbroken, Call, Con, Pump
<1>12. ASSUME NEW t \in Threads, WaitExpires(t) PROVE DownInv'
  BY <1>12 DEF WaitExpires, AfterWait, Inv, TypeOK, CallInv, Arming, Retiring, HeldInv, DownInv, Unbroken, Call, Con, Pump
<1>13. ASSUME NEW t \in Threads, MarkDown(t) PROVE DownInv'
  BY <1>13 DEF MarkDown, MarkPeer, MarkChanges, IsPeerUp, Inv, TypeOK, CallInv, Arming, Retiring, HeldInv, DownInv, Unbroken, Call, Con, Pump
<1>14. ASSUME NEW t \in Threads, TellDown(t) PROVE DownInv'
  BY <1>14 DEF TellDown, Inv, TypeOK, CallInv, Arming, Retiring, HeldInv, DownInv, Unbroken, Call, Con, Pump
<1>15. ASSUME NEW t \in Threads, Settle(t) PROVE DownInv'
  BY <1>15 DEF Settle, NoCall, Inv, TypeOK, CallInv, Arming, Retiring, HeldInv, DownInv, Unbroken, Call, Con, Pump
<1>16. ASSUME NEW c \in cons, AcceptLogin(c) PROVE DownInv'
  BY <1>16 DEF AcceptLogin, PumpFree, Handle, ConExists, Inv, TypeOK, CallInv, Arming, Retiring, HeldInv, DownInv, Unbroken, Call, Con, Pump
<1>17. ASSUME NEW c \in cons, DialLogin(c) PROVE DownInv'
  BY <1>17 DEF DialLogin, PumpFree, Handle, ConExists, Inv, TypeOK, CallInv, Arming, Retiring, HeldInv, DownInv, Unbroken, Call, Con, Pump
<1>18. ASSUME NEW c \in cons, ConClose(c) PROVE DownInv'
  BY <1>18 DEF ConClose, PumpFree, Handle, ConExists, Inv, TypeOK, CallInv, Arming, Retiring, HeldInv, DownInv, Unbroken, Call, Con, Pump
<1>19. ASSUME NEW c \in cons, Destroy(c) PROVE DownInv'
  BY <1>19 DEF Destroy, PumpFree, Handle, ConExists, Inv, TypeOK, CallInv, Arming, Retiring, HeldInv, DownInv, Unbroken, Call, Con, Pump
<1>20. CASE PumpMark
  BY <1>20 DEF PumpMark, MarkPeer, MarkChanges, IsPeerUp, PumpIdle, Inv, TypeOK, CallInv, Arming, Retiring, HeldInv, DownInv, Unbroken, Call, Con, Pump
<1>21. CASE PumpTell
  BY <1>21 DEF PumpTell, PumpIdle, Inv, TypeOK, CallInv, Arming, Retiring, HeldInv, DownInv, Unbroken, Call, Con, Pump
<1>22. CASE DrainSnapshot
  BY <1>22 DEF DrainSnapshot, Running, Inv, TypeOK, CallInv, Arming, Retiring, HeldInv, DownInv, Unbroken, Call, Con, Pump
<1>23. CASE DrainSignal
  BY <1>23 DEF DrainSignal, Inv, TypeOK, CallInv, Arming, Retiring, HeldInv, DownInv, Unbroken, Call, Con, Pump
<1>24. CASE DrainDone
  BY <1>24 DEF DrainDone, ConExists, Inv, TypeOK, CallInv, Arming, Retiring, HeldInv, DownInv, Unbroken, Call, Con, Pump
<1>25. CASE DrainExpires
  BY <1>25 DEF DrainExpires, Inv, TypeOK, CallInv, Arming, Retiring, HeldInv, DownInv, Unbroken, Call, Con, Pump
<1>26. CASE UNCHANGED vars
  BY <1>26 DEF vars, Inv, TypeOK, CallInv, Arming, Retiring, HeldInv, DownInv, Unbroken, Call, Con, Pump
<1> QED
  BY <1>1, <1>2, <1>3, <1>4, <1>5, <1>6, <1>7, <1>8, <1>9, <1>10, <1>11, <1>12, <1>13, <1>14, <1>15, <1>16, <1>17, <1>18, <1>19, <1>20, <1>21, <1>22, <1>23, <1>24, <1>25, <1>26
  DEF Next, Begin, Continue, PumpEvent, DrainRest

\* Every step keeps the snapshot complete.
LEMMA DrainNext ==
  ASSUME Serialised, NoLink, Inv, HeldInv, DownInv, DrainInv, [Next]_vars PROVE DrainInv'
<1> USE PeersAssumption, OwnsAssumption, OpsAssumption DEF At, Goto, Return
<1>1. ASSUME NEW t \in Threads, NEW p \in Peers, NEW op \in {"listen", "dial"}, Arm(t, p, op) PROVE DrainInv'
  BY <1>1 DEF Arm, WriteRecord, NoCall, Running, Inv, TypeOK, CallInv, Arming, Retiring, HeldInv, DownInv, DrainInv, Unbroken, Call, Con, Pump
<1>2. ASSUME NEW t \in Threads, PostCon(t) PROVE DrainInv'
  BY <1>2 DEF PostCon, ConExists, NoCall, KindOf, Inv, TypeOK, CallInv, Arming, Retiring, HeldInv, DownInv, DrainInv, Unbroken, Call, Con, Pump
<1>3. ASSUME NEW t \in Threads, Rollback(t) PROVE DrainInv'
  BY <1>3 DEF Rollback, NoCall, Inv, TypeOK, CallInv, Arming, Retiring, HeldInv, DownInv, DrainInv, Unbroken, Call, Con, Pump
<1>4. ASSUME NEW t \in Threads, NEW p \in Peers, StartLink(t, p) PROVE DrainInv'
  BY <1>4 DEF StartLink, NoLink, Inv, TypeOK, CallInv, Arming, Retiring, HeldInv, DownInv, DrainInv, Unbroken, Call, Con, Pump
<1>5. ASSUME NEW t \in Threads, LinkListen(t) PROVE DrainInv'
  BY <1>5 DEF LinkListen, Inv, TypeOK, CallInv, Arming, Retiring, HeldInv, DownInv, DrainInv, Unbroken, Call, Con, Pump
<1>6. ASSUME NEW t \in Threads, LinkDial(t) PROVE DrainInv'
  BY <1>6 DEF LinkDial, Inv, TypeOK, CallInv, Arming, Retiring, HeldInv, DownInv, DrainInv, Unbroken, Call, Con, Pump
<1>7. ASSUME NEW t \in Threads, NEW p \in Peers, StartDisconnect(t, p) PROVE DrainInv'
  BY <1>7 DEF StartDisconnect, NoCall, Running, ConExists, Inv, TypeOK, CallInv, Arming, Retiring, HeldInv, DownInv, DrainInv, Unbroken, Call, Con, Pump
<1>8. ASSUME NEW t \in Threads, ReadUp(t) PROVE DrainInv'
  BY <1>8 DEF ReadUp, Inv, TypeOK, CallInv, Arming, Retiring, HeldInv, DownInv, DrainInv, Unbroken, Call, Con, Pump
<1>9. ASSUME NEW t \in Threads, EraseRecord(t) PROVE DrainInv'
  BY <1>9 DEF EraseRecord, Inv, TypeOK, CallInv, Arming, Retiring, HeldInv, DownInv, DrainInv, Unbroken, Call, Con, Pump
<1>10. ASSUME NEW t \in Threads, SignalDestroy(t) PROVE DrainInv'
  BY <1>10 DEF SignalDestroy, Inv, TypeOK, CallInv, Arming, Retiring, HeldInv, DownInv, DrainInv, Unbroken, Call, Con, Pump
<1>11. ASSUME NEW t \in Threads, WaitGone(t) PROVE DrainInv'
  BY <1>11 DEF WaitGone, AfterWait, ConExists, Inv, TypeOK, CallInv, Arming, Retiring, HeldInv, DownInv, DrainInv, Unbroken, Call, Con, Pump
<1>12. ASSUME NEW t \in Threads, WaitExpires(t) PROVE DrainInv'
  BY <1>12 DEF WaitExpires, AfterWait, Inv, TypeOK, CallInv, Arming, Retiring, HeldInv, DownInv, DrainInv, Unbroken, Call, Con, Pump
<1>13. ASSUME NEW t \in Threads, MarkDown(t) PROVE DrainInv'
  BY <1>13 DEF MarkDown, MarkPeer, MarkChanges, IsPeerUp, Inv, TypeOK, CallInv, Arming, Retiring, HeldInv, DownInv, DrainInv, Unbroken, Call, Con, Pump
<1>14. ASSUME NEW t \in Threads, TellDown(t) PROVE DrainInv'
  BY <1>14 DEF TellDown, Inv, TypeOK, CallInv, Arming, Retiring, HeldInv, DownInv, DrainInv, Unbroken, Call, Con, Pump
<1>15. ASSUME NEW t \in Threads, Settle(t) PROVE DrainInv'
  BY <1>15 DEF Settle, NoCall, Inv, TypeOK, CallInv, Arming, Retiring, HeldInv, DownInv, DrainInv, Unbroken, Call, Con, Pump
<1>16. ASSUME NEW c \in cons, AcceptLogin(c) PROVE DrainInv'
  BY <1>16 DEF AcceptLogin, PumpFree, Handle, ConExists, Inv, TypeOK, CallInv, Arming, Retiring, HeldInv, DownInv, DrainInv, Unbroken, Call, Con, Pump
<1>17. ASSUME NEW c \in cons, DialLogin(c) PROVE DrainInv'
  BY <1>17 DEF DialLogin, PumpFree, Handle, ConExists, Inv, TypeOK, CallInv, Arming, Retiring, HeldInv, DownInv, DrainInv, Unbroken, Call, Con, Pump
<1>18. ASSUME NEW c \in cons, ConClose(c) PROVE DrainInv'
  BY <1>18 DEF ConClose, PumpFree, Handle, ConExists, Inv, TypeOK, CallInv, Arming, Retiring, HeldInv, DownInv, DrainInv, Unbroken, Call, Con, Pump
<1>19. ASSUME NEW c \in cons, Destroy(c) PROVE DrainInv'
  BY <1>19 DEF Destroy, PumpFree, Handle, ConExists, Inv, TypeOK, CallInv, Arming, Retiring, HeldInv, DownInv, DrainInv, Unbroken, Call, Con, Pump
<1>20. CASE PumpMark
  BY <1>20 DEF PumpMark, MarkPeer, MarkChanges, IsPeerUp, PumpIdle, Inv, TypeOK, CallInv, Arming, Retiring, HeldInv, DownInv, DrainInv, Unbroken, Call, Con, Pump
<1>21. CASE PumpTell
  BY <1>21 DEF PumpTell, PumpIdle, Inv, TypeOK, CallInv, Arming, Retiring, HeldInv, DownInv, DrainInv, Unbroken, Call, Con, Pump
<1>22. CASE DrainSnapshot
  <2>1. /\ hub = "running" /\ hub' = "draining" /\ aSet' = DrainSet /\ cons' = cons
        /\ closedOnce' = closedOnce /\ call' = call
        /\ \A t \in Threads : call[t].at = "idle"
    BY <1>22 DEF DrainSnapshot, Running
  <2>2. ASSUME NEW c \in cons, Unbroken(c.peer) PROVE c.peer \in DrainSet
    <3>1. PICK d \in cons : d.peer = c.peer /\ d.kind # "clone"
      BY <2>2 DEF HeldInv
    <3>2. c.peer \in Peers /\ mapPeers[c.peer] \in {"unknown", "up", "down"}
      BY <2>2 DEF Inv, TypeOK, Con
    <3>3. CASE d.doomed
      BY <2>1, <3>1, <3>2, <3>3 DEF Inv, DoomedInv, Told, DrainSet
    <3>4. CASE ~d.doomed
      <4>1. mapArmed[c.peer] = RoleOf(d.kind)
        BY <2>1, <3>1, <3>4 DEF Inv, RecordInv, RecordOf, Arming
      <4>2. mapPeers[c.peer] = "down" => c.peer \in setUnretired
        BY <2>1, <2>2, <3>2 DEF DownInv
      <4> QED BY <3>2, <4>1, <4>2 DEF DrainSet, IsPeerUp, RoleOf
    <3> QED BY <3>3, <3>4
  <2> QED BY <2>1, <2>2 DEF DrainInv, Unbroken
<1>23. CASE DrainSignal
  <2>1. /\ cons \subseteq Con /\ aSet \in SUBSET Peers /\ ConSignal(aSet)
        /\ closedOnce' = closedOnce /\ call' = call /\ aSet' = aSet
        /\ hub = "draining" /\ hub' = "waiting"
    BY <1>23 DEF DrainSignal, Inv, TypeOK
  <2>2. \A d \in cons' : \E c \in cons : d.peer = c.peer
    BY <2>1, SignalKeeps
  <2> QED BY <2>1, <2>2 DEF DrainInv, Unbroken
<1>24. CASE DrainDone
  BY <1>24 DEF DrainDone, ConExists, Inv, TypeOK, CallInv, Arming, Retiring, HeldInv, DownInv, DrainInv, Unbroken, Call, Con, Pump
<1>25. CASE DrainExpires
  BY <1>25 DEF DrainExpires, Inv, TypeOK, CallInv, Arming, Retiring, HeldInv, DownInv, DrainInv, Unbroken, Call, Con, Pump
<1>26. CASE UNCHANGED vars
  BY <1>26 DEF vars, Inv, TypeOK, CallInv, Arming, Retiring, HeldInv, DownInv, DrainInv, Unbroken, Call, Con, Pump
<1> QED
  BY <1>1, <1>2, <1>3, <1>4, <1>5, <1>6, <1>7, <1>8, <1>9, <1>10, <1>11, <1>12, <1>13, <1>14, <1>15, <1>16, <1>17, <1>18, <1>19, <1>20, <1>21, <1>22, <1>23, <1>24, <1>25, <1>26
  DEF Next, Begin, Continue, PumpEvent, DrainRest

\* A drain that DrainCons reports as complete leaves only connections of peers a
\* connection of which had ended before, for any peers, threads and verbs.
THEOREM DrainIsComplete ==
  ASSUME Serialised, NoLink PROVE Spec => []DrainMissesOnlyClosedPeers
<1> DEFINE All == Inv /\ HeldInv /\ DownInv /\ DrainInv
<1>1. Init => All
  BY InitInv, InitDrain
<1>2. All /\ [Next]_vars => All'
  BY NextInv, HeldNext, DownNext, DrainNext
<1>3. All => DrainMissesOnlyClosedPeers
  BY DEF DrainInv, Unbroken, DrainMissesOnlyClosedPeers
<1> QED BY <1>1, <1>2, <1>3, PTL DEF Spec
=============================================================================
