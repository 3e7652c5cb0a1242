----------------------------- MODULE PingClose -----------------------------
(***************************************************************************)
(* FacadeHub::Ping against FacadeHub::Close.                               *)
(*                                                                         *)
(* A client thread in Ping parks on an event of its own until the pump     *)
(* answers, its budget runs out or Close releases it; then it erases its   *)
(* row of m_mapPings, and from there on touches the hub no more.  Close    *)
(* frees the hub, so it marks, signals every row and waits for the map to  *)
(* empty, for a bounded time.  The far hub echoes what it is sent.         *)
(*                                                                         *)
(* A step is one critical section on m_oCSectPeers, one send, one wait or  *)
(* one delivery by the pump.  Budgets are waits that may run out at any    *)
(* time; the round-trip figure is left out.                                *)
(***************************************************************************)
EXTENDS Naturals

CONSTANTS
  Threads,    \* client threads
  NoThread,   \* not a thread
  Owner,      \* the thread that runs a caller-pumped hub, NoThread if spawned
  MaxPings    \* bound: how many pings are registered in all

ASSUME OwnerAssumption    == NoThread \notin Threads /\ Owner \in Threads \cup {NoThread}
ASSUME MaxPingsAssumption == MaxPings \in Nat

VARIABLES
  uNextPingId,  \* m_uNextPingId: the last id handed out
  mapPings,     \* m_mapPings: per id, no row, or a row and whether it is answered
  signalled,    \* ids whose event is set
  bClosing,     \* m_bClosing
  call,         \* what each thread is in the middle of
  wire,         \* per id, where its round trip has got to
  hub           \* how far Close has got

vars == <<uNextPingId, mapPings, signalled, bClosing, call, wire, hub>>

Ids      == 1 .. MaxPings
Inside   == {"enter", "post", "wait", "leave"}   \* on the stack of Ping
Holding  == {"post", "wait", "leave"}            \* and with a row in the map
Results  == {"none", "signalled", "ok", "timeout", "closed", "failed"}
Call     == [at : Inside \cup {"idle", "out"}, id : 0 .. MaxPings, res : Results]
NoCall   == [at |-> "idle", id |-> 0, res |-> "none"]
HubStep  == {"open", "latched", "draining", "quiet", "gaveUp", "freed",
             "freedBusy"}

TypeOK ==
  /\ uNextPingId \in 0 .. MaxPings
  /\ mapPings \in [Ids -> {"absent", "waiting", "answered"}]
  /\ signalled \subseteq Ids
  /\ bClosing \in BOOLEAN
  /\ call \in [Threads -> Call]
  /\ wire \in [Ids -> {"unsent", "ping", "pong", "arrived", "lost"}]
  /\ hub \in HubStep

Alive    == hub \notin {"freed", "freedBusy"}
At(t, s) == call[t].at = s
Goto(t, s, i, r) == call' = [call EXCEPT ![t] = [at |-> s, id |-> i, res |-> r]]
Rows     == {i \in Ids : mapPings[i] # "absent"}

-----------------------------------------------------------------------------
(* Ping *)

\* Entered, its arguments checked and its event created; nothing locked yet.
Enter(t) ==
  /\ At(t, "idle") /\ Alive /\ uNextPingId < MaxPings
  /\ t = Owner => hub = "open"
  /\ Goto(t, "enter", 0, "none")
  /\ UNCHANGED <<uNextPingId, mapPings, signalled, bClosing, wire, hub>>

\* Refused once Close has marked the hub ...
Refuse(t) ==
  /\ At(t, "enter") /\ Alive /\ bClosing
  /\ Goto(t, "out", 0, "closed")
  /\ UNCHANGED <<uNextPingId, mapPings, signalled, bClosing, wire, hub>>

\* Mutant: registered without a look at the mark.
RegisterUnchecked(t) ==
  /\ At(t, "enter") /\ Alive /\ uNextPingId < MaxPings
  /\ uNextPingId' = uNextPingId + 1
  /\ mapPings' = [mapPings EXCEPT ![uNextPingId + 1] = "waiting"]
  /\ Goto(t, "post", uNextPingId + 1, "none")
  /\ UNCHANGED <<signalled, bClosing, wire, hub>>

\* ... and otherwise registered, in the same critical section.
Register(t) ==
  /\ At(t, "enter") /\ Alive /\ ~bClosing /\ uNextPingId < MaxPings
  /\ uNextPingId' = uNextPingId + 1
  /\ mapPings' = [mapPings EXCEPT ![uNextPingId + 1] = "waiting"]
  /\ Goto(t, "post", uNextPingId + 1, "none")
  /\ UNCHANGED <<signalled, bClosing, wire, hub>>

\* PostMsg to the peer, which the kernel may refuse.
Post(t) ==
  /\ At(t, "post") /\ Alive
  /\ \/ /\ wire' = [wire EXCEPT ![call[t].id] = "ping"]
        /\ Goto(t, "wait", call[t].id, "none")
     \/ /\ Goto(t, "leave", call[t].id, "failed")
        /\ UNCHANGED wire
  /\ UNCHANGED <<uNextPingId, mapPings, signalled, bClosing, hub>>

Wake(t) ==
  /\ At(t, "wait") /\ Alive /\ call[t].id \in signalled
  /\ Goto(t, "leave", call[t].id, "signalled")
  /\ UNCHANGED <<uNextPingId, mapPings, signalled, bClosing, wire, hub>>

\* Mutant: the wait runs out only once the hub is closing.
ExpireIfClosing(t) ==
  /\ At(t, "wait") /\ Alive /\ call[t].id \notin signalled /\ bClosing
  /\ Goto(t, "leave", call[t].id, "timeout")
  /\ UNCHANGED <<uNextPingId, mapPings, signalled, bClosing, wire, hub>>

Expire(t) ==
  /\ At(t, "wait") /\ Alive /\ call[t].id \notin signalled
  /\ Goto(t, "leave", call[t].id, "timeout")
  /\ UNCHANGED <<uNextPingId, mapPings, signalled, bClosing, wire, hub>>

\* Mutant: being woken is taken for an answer.
AnswerIfWoken(t) == IF call[t].res # "signalled" THEN call[t].res ELSE "ok"

\* What Ping returns: a wake-up by Close is not an answer.
Answer(t) ==
  IF call[t].res # "signalled" THEN call[t].res
  ELSE IF mapPings[call[t].id] = "answered" THEN "ok" ELSE "timeout"

Leave(t) ==
  /\ At(t, "leave") /\ Alive
  /\ Goto(t, "out", call[t].id, Answer(t))
  /\ mapPings' = [mapPings EXCEPT ![call[t].id] = "absent"]
  /\ UNCHANGED <<uNextPingId, signalled, bClosing, wire, hub>>

\* Back in the client's code.
Return(t) ==
  /\ At(t, "out")
  /\ Goto(t, "idle", 0, "none")
  /\ UNCHANGED <<uNextPingId, mapPings, signalled, bClosing, wire, hub>>

-----------------------------------------------------------------------------
(* The round trip *)

\* The far hub's HandlePrivate sends the body back as it came.
Echo(i) ==
  /\ wire[i] = "ping"
  /\ wire' = [wire EXCEPT ![i] = "pong"]
  /\ UNCHANGED <<uNextPingId, mapPings, signalled, bClosing, call, hub>>

\* No facade at the far end, no route, or a session that drops.
Lose(i) ==
  /\ wire[i] \in {"ping", "pong"}
  /\ wire' = [wire EXCEPT ![i] = "lost"]
  /\ UNCHANGED <<uNextPingId, mapPings, signalled, bClosing, call, hub>>

\* A spawned hub has a pump of its own.  A caller-pumped one is pumped by its
\* owner: from Pump, from a wait inside Ping, and from the waits inside Close.
PumpRuns ==
  /\ Alive
  /\ Owner \in Threads => call[Owner].at \in {"idle", "wait"}

\* HandlePrivate finds the row, unless its ping has left, and answers it once.
Pong(i) ==
  /\ wire[i] = "pong" /\ PumpRuns
  /\ wire' = [wire EXCEPT ![i] = "arrived"]
  /\ IF mapPings[i] = "waiting"
     THEN /\ mapPings' = [mapPings EXCEPT ![i] = "answered"]
          /\ signalled' = signalled \cup {i}
     ELSE UNCHANGED <<mapPings, signalled>>
  /\ UNCHANGED <<uNextPingId, bClosing, call, hub>>

-----------------------------------------------------------------------------
(* Close *)

\* The once-only latch, and the network forgets the hub.  A caller-pumped hub
\* is closed by its owner, which is then in no other call.
Latch ==
  /\ hub = "open"
  /\ Owner \in Threads => At(Owner, "idle")
  /\ hub' = "latched"
  /\ UNCHANGED <<uNextPingId, mapPings, signalled, bClosing, call, wire>>

\* Mutant: every thread inside Ping is signalled, with a row or without.
MarkAndReleaseAll ==
  /\ hub = "latched"
  /\ hub' = "draining"
  /\ bClosing' = TRUE
  /\ signalled' = signalled \cup {call[t].id : t \in {u \in Threads : call[u].at \in Inside}}
  /\ UNCHANGED <<uNextPingId, mapPings, call, wire>>

MarkAndRelease ==
  /\ hub = "latched"
  /\ hub' = "draining"
  /\ bClosing' = TRUE
  /\ signalled' = signalled \cup Rows
  /\ UNCHANGED <<uNextPingId, mapPings, call, wire>>

SeeEmpty ==
  /\ hub = "draining" /\ Rows = {}
  /\ hub' = "quiet"
  /\ UNCHANGED <<uNextPingId, mapPings, signalled, bClosing, call, wire>>

\* kPingDrainSlices looks, all of which found a row.
GiveUp ==
  /\ hub = "draining" /\ Rows # {}
  /\ hub' = "gaveUp"
  /\ UNCHANGED <<uNextPingId, mapPings, signalled, bClosing, call, wire>>

\* The connections are drained, the pump is stopped and the hub is deleted.
Free ==
  /\ \/ hub = "quiet"  /\ hub' = "freed"
     \/ hub = "gaveUp" /\ hub' = "freedBusy"
  /\ UNCHANGED <<uNextPingId, mapPings, signalled, bClosing, call, wire>>

-----------------------------------------------------------------------------
(* Specification *)

Init ==
  /\ uNextPingId = 0
  /\ mapPings = [i \in Ids |-> "absent"]
  /\ signalled = {}
  /\ bClosing = FALSE
  /\ call = [t \in Threads |-> NoCall]
  /\ wire = [i \in Ids |-> "unsent"]
  /\ hub = "open"

Continue(t) ==
  Refuse(t) \/ Register(t) \/ Post(t) \/ Wake(t) \/ Expire(t) \/ Leave(t) \/ Return(t)

Travel(i) == Echo(i) \/ Lose(i) \/ Pong(i)

CloseRest == MarkAndRelease \/ SeeEmpty \/ GiveUp \/ Free

Next ==
  \/ \E t \in Threads : Enter(t) \/ Continue(t)
  \/ \E i \in Ids : Travel(i)
  \/ Latch \/ CloseRest

Spec == Init /\ [][Next]_vars

\* The scheduler runs every thread that has something to do.  Nothing is
\* assumed of the wire or of the pump: a ping must end without them.
FairSpec ==
  /\ Spec
  /\ \A t \in Threads : WF_vars(Continue(t))
  /\ WF_vars(CloseRest)

-----------------------------------------------------------------------------
(* Properties *)

\* A close that saw the map empty frees no hub that a registered ping is still
\* inside of: the mark, the release and the wait of CloseInternal, against the
\* registration and the erase of Ping, each under m_oCSectPeers.
NoWaiterInFreedHub ==
  hub = "freed" => \A t \in Threads : call[t].at \notin Holding

\* A ping that reports success was answered by the echo of its own request: not
\* by the close that woke it, and not by an echo that was late for another.
SuccessIsOwnEcho ==
  \A t \in Threads :
    (At(t, "out") /\ call[t].res = "ok") => wire[call[t].id] = "arrived"

\* Every ping returns, or is stranded in a hub that Close gave up waiting for;
\* and every close ends.  Neither needs the peer, the wire or the pump.
PingsAndCloseEnd ==
  /\ \A t \in Threads : At(t, "wait") ~> (At(t, "out") \/ ~Alive)
  /\ (hub = "latched") ~> ~Alive

\* What the header says of Close: it does not return until the outstanding pings
\* are out, whichever instruction of Ping they had reached.
CloseOutlastsPings ==
  hub \in {"freed", "freedBusy"} => \A t \in Threads : call[t].at \notin Inside
=============================================================================
