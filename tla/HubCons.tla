------------------------------- MODULE HubCons -------------------------------
(***************************************************************************)
(* One hub's connection bookkeeping: what FacadeHub writes down about the  *)
(* connections it armed (m_mapArmed), about who is logged in (m_mapPeers)  *)
(* and about what it tried to retire (m_setUnretired), against the list of *)
(* connections the kernel really holds for that hub.                       *)
(*                                                                         *)
(* Client threads arm (ArmRecorded), disconnect (Disconnect) and unwind a  *)
(* half-made link (FacadeNetwork::Link, CloseCon).  The pump thread logs   *)
(* connections in, closes them and destroys them.  One thread finally      *)
(* closes the hub (CloseInternal, DrainCons).  A step is what one thread   *)
(* does between two points where another may run: a critical section on    *)
(* m_oCSectPeers, one call into the kernel, or one client callback.        *)
(*                                                                         *)
(* An endpoint is abstracted to the role it was armed in, a wait of N      *)
(* slices to a wait that may run out at any time, and the kernel to its    *)
(* connection list.                                                        *)
(***************************************************************************)
EXTENDS FiniteSets

CONSTANTS
  Peers,     \* addresses of other hubs this one has dealings with
  NoPeer,    \* what a thread that is in no call names
  Threads,   \* client threads
  Owns,      \* Owns[t]: the peers thread t names in its calls
  Ops        \* the verbs the client uses

ASSUME PeersAssumption == NoPeer \notin Peers
ASSUME OwnsAssumption  == Owns \in [Threads -> SUBSET Peers]
ASSUME OpsAssumption   == Ops \subseteq {"listen", "dial", "disconnect", "link"}

VARIABLES
  mapArmed,       \* m_mapArmed: the role each peer is recorded as armed in
  mapPeers,       \* m_mapPeers: no row, up, or down
  setUnretired,   \* m_setUnretired: retired by Disconnect, not seen to leave
  cons,           \* the kernel's list of this hub's connections
  pump,           \* what the pump thread is in the middle of
  call,           \* what each client thread is in the middle of
  hub,            \* how far Close() has got
  aSet,           \* DrainCons' local set of peers to retire
  closedOnce      \* history: peers some connection of which has ended

vars == <<mapArmed, mapPeers, setUnretired, cons, pump, call, hub, aSet,
          closedOnce>>

-----------------------------------------------------------------------------
(* Types *)

Roles == {"none", "listen", "dial"}
Kinds == {"service", "clone", "dial"}
Verbs == {"listen", "dial", "disconnect", "link"}
Con   == [peer : Peers, kind : Kinds, up : BOOLEAN, doomed : BOOLEAN]

CallStep == {"idle", "record", "post", "rollback", "linkdial", "readup",
             "erase", "signal", "wait", "mark", "tell", "settle"}
Call == [at : CallStep, op : Verbs, peer : Peers \cup {NoPeer}, prev : Roles,
         wasUp : BOOLEAN, gone : BOOLEAN]
Pump == [at : {"idle", "mark", "tell"}, peer : Peers \cup {NoPeer}, up : BOOLEAN]
HubStep == {"running", "draining", "waiting", "closed", "closedDirty"}

NoCall   == [at |-> "idle", op |-> "listen", peer |-> NoPeer, prev |-> "none",
             wasUp |-> FALSE, gone |-> FALSE]
PumpIdle == [at |-> "idle", peer |-> NoPeer, up |-> FALSE]

TypeOK ==
  /\ mapArmed \in [Peers -> Roles]
  /\ mapPeers \in [Peers -> {"unknown", "up", "down"}]
  /\ setUnretired \subseteq Peers
  /\ cons \subseteq Con
  /\ pump \in Pump
  /\ call \in [Threads -> Call]
  /\ hub \in HubStep
  /\ aSet \subseteq Peers
  /\ closedOnce \subseteq Peers

-----------------------------------------------------------------------------
(* Helpers *)

\* What the kernel answers: is any connection of this hub addressed to p?
ConExists(p) == \E c \in cons : c.peer = p

\* DESTROY reaches every connection addressed to a peer of the set, and is
\* acted on later, by the pump.
ConSignal(ps) ==
  cons' = {[c EXCEPT !.doomed = c.doomed \/ c.peer \in ps] : c \in cons}

ArmRole(op)   == IF op = "dial" THEN "dial" ELSE "listen"
RoleOf(kind)  == IF kind = "dial" THEN "dial" ELSE "listen"
KindOf(op)    == IF op = "dial" THEN "dial" ELSE "service"

IsPeerUp(p) == mapPeers[p] = "up"

\* The locked half of MarkPeer: a peer with no row gets one, and the client is
\* told only of a change.  No row reads as down.
MarkPeer(p, up) == mapPeers' = [mapPeers EXCEPT ![p] = IF up THEN "up" ELSE "down"]
MarkChanges(p, up) == IsPeerUp(p) # up

Running   == hub = "running"
At(t, s)  == call[t].at = s
Goto(t, s) == call' = [call EXCEPT ![t].at = s]
Return(t) == call' = [call EXCEPT ![t] = NoCall]
CallOn(p) == \E t \in Threads : call[t].at # "idle" /\ call[t].peer = p

-----------------------------------------------------------------------------
(* ArmRecorded: record, then post, then roll back a refused post *)

\* The record is written, over whatever was there, before anything is posted.
WriteRecord(t, p, op) ==
  /\ call' = [call EXCEPT ![t] = [NoCall EXCEPT !.at = "post", !.op = op,
                                    !.peer = p, !.prev = mapArmed[p]]]
  /\ mapArmed' = [mapArmed EXCEPT ![p] = ArmRole(op)]
  /\ UNCHANGED <<mapPeers, setUnretired, cons, pump, hub, aSet, closedOnce>>

Arm(t, p, op) ==
  /\ Running /\ At(t, "idle") /\ op \in Ops \cap {"listen", "dial"}
  /\ p \in Owns[t]
  /\ WriteRecord(t, p, op)

\* The kernel refuses a second connection for one peer address.
PostCon(t) ==
  /\ At(t, "post")
  /\ LET k == call[t] IN
     IF ConExists(k.peer)
     THEN Goto(t, "rollback") /\ UNCHANGED cons
     ELSE /\ cons' = cons \cup {[peer |-> k.peer, kind |-> KindOf(k.op),
                                 up |-> FALSE, doomed |-> FALSE]}
          /\ IF k.op = "link" THEN Goto(t, "linkdial") ELSE Return(t)
  /\ UNCHANGED <<mapArmed, mapPeers, setUnretired, pump, hub, aSet, closedOnce>>

\* Mutant: the record is removed, whatever it overwrote.
RollbackErases(t) ==
  /\ At(t, "rollback")
  /\ mapArmed' = [mapArmed EXCEPT ![call[t].peer] = "none"]
  /\ Return(t)
  /\ UNCHANGED <<mapPeers, setUnretired, cons, pump, hub, aSet, closedOnce>>

\* Puts back the record that was there, or removes the one just written.
Rollback(t) ==
  /\ At(t, "rollback")
  /\ mapArmed' = [mapArmed EXCEPT ![call[t].peer] = call[t].prev]
  /\ Return(t)
  /\ UNCHANGED <<mapPeers, setUnretired, cons, pump, hub, aSet, closedOnce>>

-----------------------------------------------------------------------------
(* FacadeNetwork::Link, seen from the hub that listens *)

\* The pre-flight found no connection on either side.  Only one Link runs at a
\* time: it holds the network lock throughout.
StartLink(t, p) ==
  /\ Running /\ At(t, "idle") /\ "link" \in Ops /\ p \in Owns[t]
  /\ \A u \in Threads : At(u, "idle") \/ call[u].op # "link"
  /\ ~ConExists(p)
  /\ call' = [call EXCEPT ![t] = [NoCall EXCEPT !.at = "record", !.op = "link",
                                    !.peer = p]]
  /\ UNCHANGED <<mapArmed, mapPeers, setUnretired, cons, pump, hub, aSet,
                 closedOnce>>

LinkListen(t) == At(t, "record") /\ WriteRecord(t, call[t].peer, "link")

\* The dialing hub armed, or refused and the listener is retracted.
LinkDial(t) ==
  /\ At(t, "linkdial")
  /\ Return(t) \/ Goto(t, "erase")
  /\ UNCHANGED <<mapArmed, mapPeers, setUnretired, cons, pump, hub, aSet,
                 closedOnce>>

-----------------------------------------------------------------------------
(* CloseCon: erase the record, signal DESTROY, wait within a budget *)

EraseRecord(t) ==
  /\ At(t, "erase")
  /\ mapArmed' = [mapArmed EXCEPT ![call[t].peer] = "none"]
  /\ Goto(t, "signal")
  /\ UNCHANGED <<mapPeers, setUnretired, cons, pump, hub, aSet, closedOnce>>

SignalDestroy(t) ==
  /\ At(t, "signal")
  /\ ConSignal({call[t].peer})
  /\ Goto(t, "wait")
  /\ UNCHANGED <<mapArmed, mapPeers, setUnretired, pump, hub, aSet, closedOnce>>

\* What follows the wait: Link only reports, Disconnect still has to mark.
AfterWait(k) == IF k.op = "link" THEN NoCall
                ELSE [k EXCEPT !.at = IF k.wasUp THEN "mark" ELSE "settle"]

WaitGone(t) ==
  /\ At(t, "wait") /\ ~ConExists(call[t].peer)
  /\ call' = [call EXCEPT ![t] = AfterWait([call[t] EXCEPT !.gone = TRUE])]
  /\ UNCHANGED <<mapArmed, mapPeers, setUnretired, cons, pump, hub, aSet,
                 closedOnce>>

\* Mutant: the wait has no budget.
WaitForever(t) ==
  /\ At(t, "wait") /\ ~ConExists(call[t].peer)
  /\ call' = [call EXCEPT ![t] = AfterWait(call[t])]
  /\ UNCHANGED <<mapArmed, mapPeers, setUnretired, cons, pump, hub, aSet,
                 closedOnce>>

\* The last slice is not followed by another look, so a connection that left
\* during it is reported as still there.
WaitExpires(t) ==
  /\ At(t, "wait")
  /\ call' = [call EXCEPT ![t] = AfterWait(call[t])]
  /\ UNCHANGED <<mapArmed, mapPeers, setUnretired, cons, pump, hub, aSet,
                 closedOnce>>

-----------------------------------------------------------------------------
(* Disconnect, around CloseCon *)

\* A peer with no connection is refused and nothing changes.
StartDisconnect(t, p) ==
  /\ Running /\ At(t, "idle") /\ "disconnect" \in Ops /\ p \in Owns[t]
  /\ ConExists(p)
  /\ call' = [call EXCEPT ![t] = [NoCall EXCEPT !.at = "readup",
                                    !.op = "disconnect", !.peer = p]]
  /\ UNCHANGED <<mapArmed, mapPeers, setUnretired, cons, pump, hub, aSet,
                 closedOnce>>

ReadUp(t) ==
  /\ At(t, "readup")
  /\ call' = [call EXCEPT ![t].at = "erase", ![t].wasUp = IsPeerUp(call[t].peer)]
  /\ UNCHANGED <<mapArmed, mapPeers, setUnretired, cons, pump, hub, aSet,
                 closedOnce>>

MarkDown(t) ==
  /\ At(t, "mark")
  /\ MarkPeer(call[t].peer, FALSE)
  /\ Goto(t, IF MarkChanges(call[t].peer, FALSE) THEN "tell" ELSE "settle")
  /\ UNCHANGED <<mapArmed, setUnretired, cons, pump, hub, aSet, closedOnce>>

\* OnPeerDown runs here, outside the lock, on this client's own thread.
TellDown(t) ==
  /\ At(t, "tell")
  /\ Goto(t, "settle")
  /\ UNCHANGED <<mapArmed, mapPeers, setUnretired, cons, pump, hub, aSet,
                 closedOnce>>

\* Mutant: the peer is read after the call's own record of it is cleared.
SettleCleared(t) ==
  /\ At(t, "settle")
  /\ setUnretired' = IF call[t].gone THEN setUnretired ELSE setUnretired \cup {NoCall.peer}
  /\ Return(t)
  /\ UNCHANGED <<mapArmed, mapPeers, cons, pump, hub, aSet, closedOnce>>

\* Mutant: only a peer that was up is remembered.
SettleIfUp(t) ==
  /\ At(t, "settle")
  /\ setUnretired' = IF call[t].gone \/ ~call[t].wasUp THEN setUnretired \ {call[t].peer}
                     ELSE setUnretired \cup {call[t].peer}
  /\ Return(t)
  /\ UNCHANGED <<mapArmed, mapPeers, cons, pump, hub, aSet, closedOnce>>

\* A connection that did not leave in time is remembered for DrainCons.
Settle(t) ==
  /\ At(t, "settle")
  /\ setUnretired' = IF call[t].gone THEN setUnretired \ {call[t].peer}
                     ELSE setUnretired \cup {call[t].peer}
  /\ Return(t)
  /\ UNCHANGED <<mapArmed, mapPeers, cons, pump, hub, aSet, closedOnce>>

-----------------------------------------------------------------------------
(* The pump thread: one kernel event at a time, then its facade handler *)

PumpFree == pump.at = "idle" /\ hub \notin {"closed", "closedDirty"}
Handle(p, up) == pump' = [at |-> "mark", peer |-> p, up |-> up]

\* A named listener accepts: the service stays, a clone for the same address
\* logs in, and On_ConLogin runs.
AcceptLogin(c) ==
  /\ PumpFree /\ c.kind = "service"
  /\ ~\E d \in cons : d.peer = c.peer /\ d.kind = "clone"
  /\ cons' = cons \cup {[peer |-> c.peer, kind |-> "clone", up |-> TRUE,
                         doomed |-> FALSE]}
  /\ Handle(c.peer, TRUE)
  /\ UNCHANGED <<mapArmed, mapPeers, setUnretired, call, hub, aSet, closedOnce>>

\* A dial is answered and On_ConLoginAck runs.
DialLogin(c) ==
  /\ PumpFree /\ c.kind = "dial" /\ ~c.up
  /\ cons' = (cons \ {c}) \cup {[c EXCEPT !.up = TRUE]}
  /\ Handle(c.peer, TRUE)
  /\ UNCHANGED <<mapArmed, mapPeers, setUnretired, call, hub, aSet, closedOnce>>

\* On_ConClose: a session dropped, or an attempt to dial failed.  The base
\* handler restarts a dial that redials; a clone, a one-shot dial and a dial
\* whose tries are spent leave the hub.
ConClose(c) ==
  /\ PumpFree /\ c.kind # "service"
  /\ \/ cons' = cons \ {c}
     \/ c.kind = "dial" /\ cons' = (cons \ {c}) \cup {[c EXCEPT !.up = FALSE]}
  /\ closedOnce' = closedOnce \cup {c.peer}
  /\ Handle(c.peer, FALSE)
  /\ UNCHANGED <<mapArmed, mapPeers, setUnretired, call, hub, aSet>>

\* The pump acts on DESTROY: the connection leaves, with or without a close
\* being reported to the facade.
Destroy(c) ==
  /\ PumpFree /\ c.doomed
  /\ cons' = cons \ {c}
  /\ closedOnce' = closedOnce \cup {c.peer}
  /\ Handle(c.peer, FALSE) \/ UNCHANGED pump
  /\ UNCHANGED <<mapArmed, mapPeers, setUnretired, call, hub, aSet>>

PumpMark ==
  /\ pump.at = "mark"
  /\ MarkPeer(pump.peer, pump.up)
  /\ pump' = IF MarkChanges(pump.peer, pump.up) THEN [pump EXCEPT !.at = "tell"]
             ELSE PumpIdle
  /\ UNCHANGED <<mapArmed, setUnretired, cons, call, hub, aSet, closedOnce>>

\* OnPeerUp or OnPeerDown, outside the lock.
PumpTell ==
  /\ pump.at = "tell"
  /\ pump' = PumpIdle
  /\ UNCHANGED <<mapArmed, mapPeers, setUnretired, cons, call, hub, aSet,
                 closedOnce>>

-----------------------------------------------------------------------------
(* Close: CloseInternal on a spawned hub, and its DrainCons *)

\* Mutant: the peers armed and never heard from are not drained.
DrainSetHeardFrom == {p \in Peers : IsPeerUp(p) \/ p \in setUnretired}

\* DrainCons' three classes: up; armed and without a row; not seen to retire.
DrainSet ==
  {p \in Peers : \/ IsPeerUp(p)
                 \/ mapArmed[p] # "none" /\ mapPeers[p] = "unknown"
                 \/ p \in setUnretired}

\* No other call may race Close, so it starts when every thread is out.
DrainSnapshot ==
  /\ Running /\ \A t \in Threads : At(t, "idle")
  /\ hub' = "draining" /\ aSet' = DrainSet
  /\ UNCHANGED <<mapArmed, mapPeers, setUnretired, cons, pump, call, closedOnce>>

DrainSignal ==
  /\ hub = "draining"
  /\ ConSignal(aSet)
  /\ hub' = "waiting"
  /\ UNCHANGED <<mapArmed, mapPeers, setUnretired, pump, call, aSet, closedOnce>>

\* DrainCons answers TRUE and CloseHub stops the pump.
DrainDone ==
  /\ hub = "waiting" /\ \A p \in aSet : ~ConExists(p)
  /\ hub' = "closed"
  /\ UNCHANGED <<mapArmed, mapPeers, setUnretired, cons, pump, call, aSet,
                 closedOnce>>

\* The budget ran out: the kernel's own sweep is what remains.
DrainExpires ==
  /\ hub = "waiting" /\ aSet # {}
  /\ hub' = "closedDirty"
  /\ UNCHANGED <<mapArmed, mapPeers, setUnretired, cons, pump, call, aSet,
                 closedOnce>>

-----------------------------------------------------------------------------
(* Specification *)

Init ==
  /\ mapArmed = [p \in Peers |-> "none"]
  /\ mapPeers = [p \in Peers |-> "unknown"]
  /\ setUnretired = {} /\ cons = {} /\ aSet = {} /\ closedOnce = {}
  /\ pump = PumpIdle
  /\ call = [t \in Threads |-> NoCall]
  /\ hub = "running"

Begin(t) == \E p \in Peers :
  \/ \E op \in {"listen", "dial"} : Arm(t, p, op)
  \/ StartLink(t, p)
  \/ StartDisconnect(t, p)

\* The rest of a call already begun.
Continue(t) ==
  \/ PostCon(t) \/ Rollback(t)
  \/ LinkListen(t) \/ LinkDial(t)
  \/ EraseRecord(t) \/ SignalDestroy(t) \/ WaitGone(t) \/ WaitExpires(t)
  \/ ReadUp(t) \/ MarkDown(t) \/ TellDown(t) \/ Settle(t)

PumpEvent == \E c \in cons : AcceptLogin(c) \/ DialLogin(c) \/ ConClose(c) \/ Destroy(c)

DrainRest == DrainSignal \/ DrainDone \/ DrainExpires

Next ==
  \/ \E t \in Threads : Begin(t) \/ Continue(t)
  \/ PumpEvent \/ PumpMark \/ PumpTell
  \/ DrainSnapshot \/ DrainRest

Spec == Init /\ [][Next]_vars

\* A thread that has begun a call, and the thread that closes, keep running.
\* Nothing is assumed of the pump: every wait on it is bounded.
FairSpec ==
  /\ Spec
  /\ \A t \in Threads : WF_vars(Continue(t))
  /\ WF_vars(DrainRest)

-----------------------------------------------------------------------------
(* Properties *)

\* While no call is under way on a peer, a connection the hub armed for it and
\* did not retract is on record in the role it was armed in.  ArmRecorded
\* writes before it posts and restores what it overwrote, so that a refused
\* arm and a login that overtakes the caller both leave the read side right.
RecordMatchesCon ==
  \A c \in cons :
    (c.kind # "clone" /\ ~c.doomed /\ ~CallOn(c.peer) /\ hub = "running")
      => mapArmed[c.peer] = RoleOf(c.kind)

\* A connection told to go, and whose caller has returned, is in
\* m_setUnretired until it does go: Disconnect's promise that Close() will
\* finish retiring what it could not.
RetiringIsRemembered ==
  \A c \in cons :
    (c.doomed /\ ~CallOn(c.peer) /\ hub = "running") => c.peer \in setUnretired

\* When DrainCons reports success, the only connections it left on the hub are
\* those of peers a connection of which had ended before: the class it skips on
\* purpose.  A peer never heard from, a live one and one being retired are gone.
DrainMissesOnlyClosedPeers ==
  hub = "closed" => \A c \in cons : c.peer \in closedOnce

\* Every call returns, and so does the close, whatever the pump does.
CallsReturn ==
  /\ \A t \in Threads : call[t].at # "idle" ~> call[t].at = "idle"
  /\ hub = "draining" ~> hub \in {"closed", "closedDirty"}
=============================================================================
