------------------------------- MODULE ComHub -------------------------------
(***************************************************************************)
(* CP2PHubCom, the COM face of one hub.  What the hub's pump reports is    *)
(* copied into a bounded queue (Sink, Push) and raised to the client's     *)
(* sinks by a dispatch thread (DispatchLoop, Pop, Fire); Advise and        *)
(* Unadvise change the sinks meanwhile; Close, the dispatch thread on its  *)
(* way out and the network's FinalRelease share the teardown.              *)
(*                                                                         *)
(* A step is one critical section, one interlocked operation, one read of  *)
(* a shared pointer or one call out.  A wait with a budget may run out at  *)
(* any time.  Past an access to memory that is gone nothing is promised:   *)
(* the steps end there, with `fault' saying which.                         *)
(***************************************************************************)
EXTENDS Integers, Sequences, FiniteSets

CONSTANTS
  Clients,     \* client threads; the hub is created on one and shared
  Disp,        \* the dispatch thread
  Net,         \* the thread that drops the network's last reference
  kMaxQueued,  \* capacity of the queue
  MaxEvents,   \* bound: events the pump reports
  MaxSinks,    \* bound: calls of Advise
  Ops          \* bound: what clients do besides Advise and Close

ASSUME ThreadsAssumption == Disp # Net /\ Disp \notin Clients /\ Net \notin Clients
ASSUME FiniteAssumption  == IsFiniteSet(Clients)
ASSUME BoundsAssumption  ==
  /\ kMaxQueued \in Nat \ {0} /\ MaxEvents \in Nat /\ MaxSinks \in Nat
  /\ Ops \subseteq {"unadvise", "call", "release", "sweep"}

VARIABLES
  queue, cDropped,           \* m_queue, m_cDropped
  wake, quit, hubClosed,     \* m_hWake (auto-reset), m_lQuit, m_lHubClosed
  pHub, pOwner,              \* whether m_pHub, m_pOwner are set
  kernel,                    \* the facade's hub behind m_pHub
  refs, holds,               \* the reference count; the clients that hold one
  inNet, net,                \* whether m_hubs lists this hub; the network object
  sinks, git, nextCookie,    \* m_sinks; entries of the global table; m_dwNextCookie
  dropping,                  \* the sink a thread's Unadvise has yet to revoke, 0 if none
  disp,                      \* where the dispatch thread is
  ev, todo,                  \* the event in Fire, and the sinks still to be called
  msgActive, pCurEvent,      \* m_lMsgActive, m_pCurEvent
  at,                        \* where each thread is in a call of this object
  pump, toPush,              \* where the pump is in the Sink, and what it will push
  fault,                     \* which access went to memory that is gone
  pushed, raised, cRefused,  \* history: events accepted, taken out, refused
  popped,                    \* history: events taken out and reports of a gap
  heard, since               \* history: what each sink was called with, from when

queueVars == <<queue, cDropped, pushed, raised, cRefused, popped>>
sinkVars  == <<sinks, git, nextCookie, dropping, since>>
fireVars  == <<disp, ev, todo, msgActive, pCurEvent, heard>>
lifeVars  == <<hubClosed, pHub, pOwner, kernel, refs, holds, inNet, net>>
pumpVars  == <<pump, toPush>>
vars == <<queueVars, sinkVars, fireVars, lifeVars, pumpVars, wake, quit, at, fault>>

Cookies == 1 .. MaxSinks
Callers == Clients \cup {Disp, Net}
None    == [kind |-> "none", n |-> 0]
Kinds   == {"message", "peer", "error", "event"}
Events  == [kind : Kinds, n : 1 .. MaxEvents]
Fired   == Events \cup [kind : {"gap"}, n : Nat]
Steps   == {"out", "creating", "created", "failed", "call", "claim",
            "closing", "owner", "clear", "forget", "drop"}

TypeOK ==
  /\ queue \in Seq(Events) /\ Len(queue) <= kMaxQueued
  /\ {pushed, raised} \subseteq Seq(Events) /\ popped \in Seq(Fired)
  /\ {cDropped, cRefused} \subseteq Nat
  /\ {wake, quit, hubClosed, pHub, pOwner, inNet, msgActive} \subseteq BOOLEAN
  /\ kernel \in {"none", "open", "closing", "deleted"}
  /\ refs \in Int /\ holds \subseteq Clients
  /\ net \in {"held", "sweeping", "gone"}
  /\ sinks \subseteq git /\ git \subseteq Cookies
  /\ nextCookie \in 1 .. MaxSinks + 1 /\ dropping \in [Callers -> 0 .. MaxSinks]
  /\ disp \in {"wait", "drain", "fire", "invoke", "fetched", "handler", "leave", "gone"}
  /\ ev \in Fired \cup {None} /\ pCurEvent \in Events \cup {None}
  /\ todo \subseteq Cookies
  /\ at \in [Callers -> Steps]
  /\ pump \in {"idle", "check", "info", "fields", "push", "signal"}
  /\ toPush \in Seq(Events)
  /\ fault \in {"none", "nullHub", "freedHub", "freedNetwork"}

Live   == refs > 0
Goto(t, s) == at' = [at EXCEPT ![t] = s]
Least(S) == CHOOSE x \in S : \A y \in S : x <= y

-----------------------------------------------------------------------------
(* Creation *)

\* Init starts the dispatch thread and then creates the facade's hub, whose
\* pump may report before the pointer is stored.
CreateHub(c) ==
  /\ at[c] = "creating"
  /\ \/ kernel' = "open" /\ Goto(c, "created") /\ UNCHANGED <<quit, wake>>
     \/ quit' = TRUE /\ wake' = TRUE /\ Goto(c, "failed") /\ UNCHANGED kernel
  /\ UNCHANGED <<queueVars, sinkVars, fireVars, pumpVars, fault, hubClosed, pHub, pOwner,
                 refs, holds, inNet, net>>

\* CreateHubFlagged: the network lists the hub with a reference of its own.
ListHub(c) ==
  /\ at[c] = "created"
  /\ pHub' = TRUE /\ inNet' = TRUE /\ holds' = Clients
  /\ refs' = refs + Cardinality(Clients)
  /\ Goto(c, "out")
  /\ UNCHANGED <<queueVars, sinkVars, fireVars, pumpVars, fault, wake, quit, hubClosed,
                 pOwner, kernel, net>>

\* A hub that was not created: the object goes with its creator's reference,
\* once the dispatch thread was waited for.
Abandon(c) ==
  /\ at[c] = "failed"
  /\ refs' = refs - 1
  /\ Goto(c, "out")
  /\ UNCHANGED <<queueVars, sinkVars, fireVars, pumpVars, fault, wake, quit, hubClosed, pHub,
                 pOwner, kernel, holds, inNet, net>>

-----------------------------------------------------------------------------
(* The pump, in the Sink *)

Reported == Len(pushed) + cRefused
Fresh(kind, i) == [kind |-> kind, n |-> Reported + i]

\* A message is captured with its properties first; what the facade reports
\* through OnEvent is pushed twice, as OnError and as OnEvent.
Report ==
  /\ kernel \in {"open", "closing"} /\ pump = "idle"
  /\ \/ Reported < MaxEvents /\ pump' = "check" /\ toPush' = <<Fresh("message", 1)>>
     \/ Reported < MaxEvents /\ pump' = "push"  /\ toPush' = <<Fresh("peer", 1)>>
     \/ /\ Reported + 1 < MaxEvents
        /\ pump' = "push" /\ toPush' = <<Fresh("error", 1), Fresh("event", 2)>>
  /\ UNCHANGED <<queueVars, sinkVars, fireVars, lifeVars, wake, quit, at, fault>>

\* OnMessage looks whether m_pHub is set ...
CheckHub ==
  /\ pump = "check"
  /\ pump' = IF pHub THEN "info" ELSE "push"
  /\ UNCHANGED <<queueVars, sinkVars, fireVars, lifeVars, toPush, wake, quit, at, fault>>

\* ... and reads it again for every call it makes: GetMsgInfo, then, if the
\* message has fields, GetFieldCount and the two that follow it.
ReadMessage ==
  /\ pump \in {"info", "fields"}
  /\ IF pHub
     THEN pump' \in (IF pump = "info" THEN {"fields", "push"} ELSE {"push"}) /\ UNCHANGED fault
     ELSE fault' = "nullHub" /\ UNCHANGED pump
  /\ UNCHANGED <<queueVars, sinkVars, fireVars, lifeVars, toPush, wake, quit, at>>

\* Push: a full queue refuses the event and counts it.
Push ==
  /\ pump = "push"
  /\ LET e == Head(toPush) IN
     IF Len(queue) >= kMaxQueued
     THEN /\ cDropped' = cDropped + 1 /\ cRefused' = cRefused + 1
          /\ toPush' = Tail(toPush)
          /\ pump' = IF Len(toPush) = 1 THEN "idle" ELSE "push"
          /\ UNCHANGED <<queue, pushed>>
     ELSE /\ queue' = Append(queue, e) /\ pushed' = Append(pushed, e)
          /\ pump' = "signal"
          /\ UNCHANGED <<cDropped, cRefused, toPush>>
  /\ UNCHANGED <<raised, popped, sinkVars, fireVars, lifeVars, wake, quit, at, fault>>

\* SetEvent, after the lock of the queue was given back.
Signal ==
  /\ pump = "signal"
  /\ wake' = TRUE
  /\ toPush' = Tail(toPush)
  /\ pump' = IF Len(toPush) = 1 THEN "idle" ELSE "push"
  /\ UNCHANGED <<queueVars, sinkVars, fireVars, lifeVars, quit, at, fault>>

-----------------------------------------------------------------------------
(* The dispatch thread *)

\* The wait takes the signal with it.
Wake ==
  /\ disp = "wait" /\ wake
  /\ wake' = FALSE
  /\ disp' = "drain"
  /\ UNCHANGED <<queueVars, sinkVars, ev, todo, msgActive, pCurEvent, heard, lifeVars,
                 pumpVars, quit, at, fault>>

\* m_lQuit is looked at only when there is nothing left to raise.
Drained == IF quit THEN disp' = "leave" /\ Goto(Disp, "claim")
                   ELSE disp' = "wait" /\ UNCHANGED at

\* Mutant: the count is reported ahead of the events that are still queued.
PopGapFirst ==
  /\ disp = "drain"
  /\ \/ /\ cDropped # 0
        /\ ev' = [kind |-> "gap", n |-> cDropped]
        /\ cDropped' = 0 /\ UNCHANGED <<queue, raised>>
        /\ disp' = "fire" /\ popped' = Append(popped, ev') /\ UNCHANGED at
     \/ /\ queue # <<>> /\ cDropped = 0
        /\ ev' = Head(queue) /\ queue' = Tail(queue) /\ raised' = Append(raised, ev')
        /\ disp' = "fire" /\ popped' = Append(popped, ev') /\ UNCHANGED <<cDropped, at>>
     \/ /\ queue = <<>> /\ cDropped = 0
        /\ Drained
        /\ UNCHANGED <<ev, queue, cDropped, raised, popped>>
  /\ UNCHANGED <<pushed, cRefused, sinkVars, todo, msgActive, pCurEvent, heard, lifeVars,
                 pumpVars, wake, quit, fault>>

\* Pop: the oldest event; or what was refused, once the queue is drained.
Pop ==
  /\ disp = "drain"
  /\ \/ /\ queue # <<>>
        /\ ev' = Head(queue) /\ queue' = Tail(queue) /\ raised' = Append(raised, ev')
        /\ disp' = "fire" /\ popped' = Append(popped, ev') /\ UNCHANGED <<cDropped, at>>
     \/ /\ queue = <<>> /\ cDropped # 0
        /\ ev' = [kind |-> "gap", n |-> cDropped]
        /\ cDropped' = 0 /\ UNCHANGED <<queue, raised>>
        /\ disp' = "fire" /\ popped' = Append(popped, ev') /\ UNCHANGED at
     \/ /\ queue = <<>> /\ cDropped = 0
        /\ Drained
        /\ UNCHANGED <<ev, queue, cDropped, raised, popped>>
  /\ UNCHANGED <<pushed, cRefused, sinkVars, todo, msgActive, pCurEvent, heard, lifeVars,
                 pumpVars, wake, quit, fault>>

\* Fire: the sinks of this moment are to be called; while a message is raised
\* its properties can be read.  With nobody advised the event goes unheard.
Snapshot ==
  /\ disp = "fire"
  /\ IF sinks = {}
     THEN disp' = "drain" /\ ev' = None /\ UNCHANGED <<todo, msgActive, pCurEvent>>
     ELSE /\ todo' = sinks /\ disp' = "invoke" /\ UNCHANGED ev
          /\ IF ev.kind = "message" THEN msgActive' = TRUE /\ pCurEvent' = ev
                                    ELSE UNCHANGED <<msgActive, pCurEvent>>
  /\ UNCHANGED <<queueVars, sinkVars, heard, lifeVars, pumpVars, wake, quit, at, fault>>

\* Mutant: the snapshot is of interfaces, not of entries of the global table.
FetchHeld ==
  /\ disp = "invoke" /\ todo # {}
  /\ disp' = "fetched"
  /\ UNCHANGED <<queueVars, sinkVars, ev, todo, msgActive, pCurEvent, heard, lifeVars, pumpVars,
                 wake, quit, at, fault>>

\* Mutant: a sink that is gone ends the round.
FetchGivesUp ==
  /\ disp = "invoke" /\ todo # {}
  /\ IF Least(todo) \in git THEN disp' = "fetched" /\ UNCHANGED todo
                            ELSE todo' = {} /\ UNCHANGED disp
  /\ UNCHANGED <<queueVars, sinkVars, ev, msgActive, pCurEvent, heard, lifeVars, pumpVars, wake,
                 quit, at, fault>>

\* Each sink is fetched from the global table as its turn comes, and passed
\* over if it is no longer there ...
Fetch ==
  /\ disp = "invoke" /\ todo # {}
  /\ LET s == Least(todo) IN
     IF s \in git THEN disp' = "fetched" /\ UNCHANGED todo
                  ELSE todo' = todo \ {s} /\ UNCHANGED disp
  /\ UNCHANGED <<queueVars, sinkVars, ev, msgActive, pCurEvent, heard, lifeVars, pumpVars, wake,
                 quit, at, fault>>

\* ... and what was fetched is called, with no lock held in between.
Invoke ==
  /\ disp = "fetched"
  /\ LET s == Least(todo) IN
     todo' = todo \ {s} /\ heard' = [heard EXCEPT ![s] = Append(@, ev)]
  /\ disp' = "handler"
  /\ UNCHANGED <<queueVars, sinkVars, ev, msgActive, pCurEvent, lifeVars, pumpVars, wake, quit,
                 at, fault>>

HandlerReturns ==
  /\ disp = "handler" /\ at[Disp] = "out" /\ dropping[Disp] = 0
  /\ disp' = "invoke"
  /\ UNCHANGED <<queueVars, sinkVars, ev, todo, msgActive, pCurEvent, heard, lifeVars, pumpVars,
                 wake, quit, at, fault>>

\* Mutant: the message stays readable until the next one.
FireDoneStale ==
  /\ disp = "invoke" /\ todo = {}
  /\ disp' = "drain" /\ ev' = None
  /\ UNCHANGED <<queueVars, sinkVars, msgActive, pCurEvent, todo, heard, lifeVars, pumpVars,
                 wake, quit, at, fault>>

\* Mutant: one event for each wake-up.
FireDoneOnce ==
  /\ disp = "invoke" /\ todo = {}
  /\ msgActive' = FALSE /\ pCurEvent' = None
  /\ disp' = "wait" /\ ev' = None
  /\ UNCHANGED <<queueVars, sinkVars, todo, heard, lifeVars, pumpVars, wake, quit, at, fault>>

FireDone ==
  /\ disp = "invoke" /\ todo = {}
  /\ msgActive' = FALSE /\ pCurEvent' = None
  /\ disp' = "drain" /\ ev' = None
  /\ UNCHANGED <<queueVars, sinkVars, todo, heard, lifeVars, pumpVars, wake, quit, at, fault>>

\* The last statement of the thread: its reference, which may be the last.
ThreadEnds ==
  /\ disp = "leave" /\ at[Disp] = "out"
  /\ disp' = "gone"
  /\ refs' = refs - 1
  /\ UNCHANGED <<queueVars, sinkVars, ev, todo, msgActive, pCurEvent, heard, hubClosed, pHub,
                 pOwner, kernel, holds, inNet, net, pumpVars, wake, quit, at, fault>>

\* What the calling thread reads: the gate is that a message is being raised
\* and that the read belongs to the call chain raising it.
CurEvent(t) == IF msgActive /\ pCurEvent # None /\ t = Disp THEN pCurEvent ELSE None

-----------------------------------------------------------------------------
(* Connection point *)

MayCall(t) ==
  /\ at[t] = "out" /\ dropping[t] = 0
  /\ IF t = Disp THEN disp = "handler" ELSE t \in holds

\* Registration in the global table comes first; no one else sees the entry
\* before m_sinks lists it.
Advise(t) ==
  /\ MayCall(t) /\ nextCookie <= MaxSinks
  /\ git' = git \cup {nextCookie} /\ sinks' = sinks \cup {nextCookie}
  /\ since' = [since EXCEPT ![nextCookie] = Len(popped)]
  /\ nextCookie' = nextCookie + 1
  /\ UNCHANGED <<dropping, queueVars, fireVars, lifeVars, pumpVars, wake, quit, at, fault>>

\* Unadvise: the sink leaves m_sinks under the lock ...
Unlist(t, s) ==
  /\ MayCall(t) /\ s \in sinks
  /\ sinks' = sinks \ {s}
  /\ dropping' = [dropping EXCEPT ![t] = s]
  /\ UNCHANGED <<queueVars, git, nextCookie, since, fireVars, lifeVars, pumpVars, wake, quit,
                 at, fault>>

\* ... and its entry is revoked after it, which ends the call.
Revoke(t) ==
  /\ dropping[t] # 0
  /\ git' = git \ {dropping[t]}
  /\ dropping' = [dropping EXCEPT ![t] = 0]
  /\ UNCHANGED <<queueVars, sinks, nextCookie, since, fireVars, lifeVars, pumpVars, wake, quit,
                 at, fault>>

-----------------------------------------------------------------------------
(* Calls of the hub *)

\* Live hands out the facade's hub without holding on to it; once the pointer
\* is gone the call is refused.  Listen and its like make one call with it.
EnterCall(c) ==
  /\ c \in Clients /\ MayCall(c) /\ pHub
  /\ Goto(c, "call")
  /\ fault' = IF kernel = "deleted" THEN "freedHub" ELSE fault
  /\ UNCHANGED <<queueVars, sinkVars, fireVars, lifeVars, pumpVars, wake, quit>>

ReturnCall(c) ==
  /\ at[c] = "call"
  /\ Goto(c, "out")
  /\ UNCHANGED <<queueVars, sinkVars, fireVars, lifeVars, pumpVars, wake, quit, fault>>

-----------------------------------------------------------------------------
(* Close, and CloseKernelHub *)

\* Mutant: the dispatch thread is not woken to see m_lQuit.
BeginCloseSilent(t) ==
  /\ quit' = TRUE /\ UNCHANGED wake
  /\ Goto(t, IF t = Disp THEN "owner" ELSE "claim")

\* A handler that closes leaves the hub to its own thread, on its way out.
BeginClose(t) ==
  /\ quit' = TRUE
  /\ wake' = (wake \/ ~quit)
  /\ Goto(t, IF t = Disp THEN "owner" ELSE "claim")

Close(t) ==
  /\ MayCall(t)
  /\ BeginClose(t)
  /\ UNCHANGED <<queueVars, sinkVars, fireVars, lifeVars, pumpVars, fault>>

AfterKernel(t) == IF t = Disp THEN "out" ELSE "owner"

\* Mutant: everyone who closes goes on to the facade's hub.
ClaimShared(t) ==
  /\ at[t] = "claim"
  /\ hubClosed' = TRUE /\ pHub' = FALSE
  /\ kernel' = (IF kernel = "open" THEN "closing" ELSE kernel)
  /\ Goto(t, IF kernel = "none" THEN AfterKernel(t) ELSE "closing")
  /\ UNCHANGED <<queueVars, sinkVars, fireVars, pOwner, refs, holds, inNet, net, pumpVars, wake,
                 quit, fault>>

\* The dispatch thread has gone, or kCloseJoinMs has; or this is that thread on
\* its way out.  One thread claims the facade's hub, takes its pointer away, and
\* closes it if there was one; the others pass on ...
Claim(t) ==
  /\ at[t] = "claim"
  /\ IF hubClosed
     THEN Goto(t, AfterKernel(t)) /\ UNCHANGED <<hubClosed, pHub, kernel, fault>>
     ELSE /\ hubClosed' = TRUE /\ pHub' = FALSE
          /\ IF pHub /\ kernel = "open"
             THEN kernel' = "closing" /\ Goto(t, "closing") /\ UNCHANGED fault
             ELSE /\ fault' = IF pHub THEN "freedHub" ELSE fault
                  /\ Goto(t, AfterKernel(t)) /\ UNCHANGED kernel
  /\ UNCHANGED <<queueVars, sinkVars, fireVars, pOwner, refs, holds, inNet, net, pumpVars, wake,
                 quit>>

\* ... which waits for the pump and deletes the hub, whoever is inside it.
KernelClosed(t) ==
  /\ at[t] = "closing" /\ pump = "idle"
  /\ kernel' = "deleted"
  /\ fault' = IF \E c \in Clients : at[c] = "call" THEN "freedHub" ELSE fault
  /\ Goto(t, AfterKernel(t))
  /\ UNCHANGED <<queueVars, sinkVars, fireVars, hubClosed, pHub, pOwner, refs, holds, inNet,
                 net, pumpVars, wake, quit>>

AfterClose(t) == IF t = Net THEN "drop" ELSE "out"

ReadOwner(t) ==
  /\ at[t] = "owner"
  /\ Goto(t, IF pOwner THEN "clear" ELSE AfterClose(t))
  /\ UNCHANGED <<queueVars, sinkVars, fireVars, lifeVars, pumpVars, wake, quit, fault>>

ClearOwner(t) ==
  /\ at[t] = "clear"
  /\ pOwner' = FALSE
  /\ Goto(t, "forget")
  /\ UNCHANGED <<queueVars, sinkVars, fireVars, hubClosed, pHub, kernel, refs, holds, inNet, net,
                 pumpVars, wake, quit, fault>>

\* Mutant: whoever closes gives the network's reference back.
ForgetAlways(t) ==
  /\ at[t] = "forget"
  /\ IF net = "gone" THEN fault' = "freedNetwork" /\ UNCHANGED <<inNet, refs>>
                     ELSE inNet' = FALSE /\ refs' = refs - 1 /\ UNCHANGED fault
  /\ Goto(t, AfterClose(t))
  /\ UNCHANGED <<queueVars, sinkVars, fireVars, hubClosed, pHub, pOwner, kernel, holds, net,
                 pumpVars, wake, quit>>

\* ForgetHub: the network's reference goes with its entry, if it still has one.
ForgetHub(t) ==
  /\ at[t] = "forget"
  /\ IF net = "gone" THEN fault' = "freedNetwork" /\ UNCHANGED <<inNet, refs>>
                     ELSE /\ inNet' = FALSE /\ UNCHANGED fault
                          /\ refs' = IF inNet THEN refs - 1 ELSE refs
  /\ Goto(t, AfterClose(t))
  /\ UNCHANGED <<queueVars, sinkVars, fireVars, hubClosed, pHub, pOwner, kernel, holds, net,
                 pumpVars, wake, quit>>

\* A client drops its reference when it is in no call.
ReleaseHub(c) ==
  /\ c \in holds /\ at[c] = "out" /\ dropping[c] = 0
  /\ holds' = holds \ {c}
  /\ refs' = refs - 1
  /\ UNCHANGED <<queueVars, sinkVars, fireVars, hubClosed, pHub, pOwner, kernel, inNet, net,
                 pumpVars, wake, quit, at, fault>>

-----------------------------------------------------------------------------
(* The network's FinalRelease *)

\* It takes the whole list, closes every hub on it through a reference of its
\* own (QueryInterface), and gives both back.
SweepHubs ==
  /\ net = "held" /\ at[Net] = "out"
  /\ \A c \in Clients : at[c] \notin {"creating", "created", "failed"}
  /\ net' = "sweeping"
  /\ inNet' = FALSE
  /\ IF inNet THEN refs' = refs + 1 /\ BeginClose(Net)
              ELSE UNCHANGED <<refs, quit, wake, at>>
  /\ UNCHANGED <<queueVars, sinkVars, fireVars, hubClosed, pHub, pOwner, kernel, holds, pumpVars,
                 fault>>

\* Then the facade's network is released: as the last reference it closes and
\* deletes every hub of the process that nobody closed.
NetGone ==
  /\ net = "sweeping" /\ at[Net] \in {"drop", "out"}
  /\ net' = "gone"
  /\ Goto(Net, "out")
  /\ refs' = IF at[Net] = "drop" THEN refs - 2 ELSE refs
  /\ IF kernel = "open"
     THEN /\ pump = "idle" /\ kernel' = "deleted"
          /\ fault' = IF \E c \in Clients : at[c] = "call" THEN "freedHub" ELSE fault
     ELSE UNCHANGED <<kernel, fault>>
  /\ UNCHANGED <<queueVars, sinkVars, fireVars, hubClosed, pHub, pOwner, holds, inNet, pumpVars,
                 wake, quit>>

\* FinalRelease of the hub: the rest of Close is done by then, and what sinks
\* are left are revoked.
Freed ==
  /\ refs = 0 /\ git # {}
  /\ git' = {} /\ sinks' = {}
  /\ UNCHANGED <<queueVars, nextCookie, dropping, since, fireVars, lifeVars, pumpVars, wake, quit, at,
                 fault>>

-----------------------------------------------------------------------------
(* Specification *)

Init ==
  /\ queue = <<>> /\ cDropped = 0 /\ pushed = <<>> /\ raised = <<>>
  /\ cRefused = 0 /\ popped = <<>>
  /\ wake = FALSE /\ quit = FALSE /\ hubClosed = FALSE /\ pHub = FALSE /\ pOwner = TRUE
  /\ kernel = "none" /\ refs = 2 /\ holds = {} /\ inNet = FALSE /\ net = "held"
  /\ sinks = {} /\ git = {} /\ nextCookie = 1 /\ since = [s \in Cookies |-> 0]
  /\ dropping = [t \in Callers |-> 0]
  /\ disp = "wait" /\ ev = None /\ todo = {} /\ msgActive = FALSE /\ pCurEvent = None
  /\ heard = [s \in Cookies |-> <<>>]
  /\ \E c \in Clients : at = [t \in Callers |-> IF t = c THEN "creating" ELSE "out"]
  /\ pump = "idle" /\ toPush = <<>> /\ fault = "none"

PumpStep == CheckHub \/ ReadMessage \/ Push \/ Signal

DispatchStep ==
  Wake \/ Pop \/ Snapshot \/ Fetch \/ Invoke \/ HandlerReturns \/ FireDone \/ ThreadEnds

\* What a thread does once it is in a call, to the end of it.
CallStep(t) ==
  \/ t \in Clients /\ (CreateHub(t) \/ ListHub(t) \/ Abandon(t) \/ ReturnCall(t))
  \/ Revoke(t)
  \/ Claim(t) \/ KernelClosed(t)
  \/ ReadOwner(t) \/ ClearOwner(t) \/ ForgetHub(t)

Begin(t) ==
  \/ Advise(t) \/ Close(t)
  \/ "call" \in Ops /\ EnterCall(t)
  \/ "release" \in Ops /\ t \in Clients /\ ReleaseHub(t)
  \/ "unadvise" \in Ops /\ \E s \in Cookies : Unlist(t, s)

Next ==
  /\ fault = "none"
  /\ \/ Report \/ PumpStep
     \/ DispatchStep
     \/ \E t \in Callers : Begin(t) \/ CallStep(t)
     \/ "sweep" \in Ops /\ (SweepHubs \/ NetGone)
     \/ Freed

Spec == Init /\ [][Next]_vars

\* Every thread goes on with what it is in, and a handler does not make calls
\* for ever but returns.  Nobody is made to call, to close, or to release.
FairSpec ==
  /\ Spec
  /\ WF_vars(fault = "none" /\ PumpStep)
  /\ WF_vars(fault = "none" /\ DispatchStep)
  /\ SF_vars(fault = "none" /\ HandlerReturns)
  /\ \A t \in Callers : WF_vars(fault = "none" /\ CallStep(t))

-----------------------------------------------------------------------------
(* Properties *)

\* What was refused and not yet reported is in cDropped; what is raised to the
\* client is what was pushed, in order: the queue keeps the promise of
\* EventStream, whatever the pump, the dispatch thread and Close do meanwhile.
Stream ==
  INSTANCE EventStream WITH
    accepted <- pushed,
    raised   <- raised,
    refused  <- cRefused,
    reported <- cRefused - cDropped
IsEventStream == Stream!Spec

\* A sink hears every event raised while it is advised, none twice and none out
\* of turn, although Fire works from a snapshot and other sinks come and go: what
\* it heard is one stretch of what was raised, up to the last for as long as it
\* is advised.
HeardWithoutGaps ==
  \A s \in Cookies : s < nextCookie =>
    \E i \in 1 .. Len(popped) + 1, j \in 0 .. Len(popped) :
      /\ heard[s] = SubSeq(popped, i, j)
      /\ s \in sinks /\ disp \in {"wait", "drain"} =>
           j = Len(popped) /\ i <= since[s] + 1

\* The sink the dispatch thread has in hand.
Fetched(s) == disp = "fetched" /\ s = Least(todo)

\* A sink whose Unadvise has returned is not fetched again, even by the round
\* that had it in its snapshot: it is called at most once more, and only if the
\* dispatch thread had it in hand by then.
UnadvisedHearsNoMore ==
  [][\A s \in Cookies : s \notin git =>
       /\ Fetched(s)' => Fetched(s)
       /\ heard'[s] # heard[s] => Fetched(s) /\ ~Fetched(s)']_vars

\* Not so, and not claimed: that Unadvise ends its calls at once.
UnadviseIsFinal == [][\A s \in Cookies : s \notin git => heard'[s] = heard[s]]_vars

\* The message properties answer the handler of a message, with that message,
\* and nobody else and nothing else: not the handler of a later event, although
\* it runs in the same call chain.
CurEventIsRaised ==
  \A t \in Callers :
    MayCall(t) => CurEvent(t) = IF t = Disp /\ ev.kind = "message" THEN ev ELSE None

\* The object lives as long as anything may still run in it: when the last
\* reference goes, the facade's hub is closed, its pump is out of the sink, and
\* no thread is on its way through Close.
FreedLast ==
  refs <= 0 =>
    /\ refs = 0
    /\ kernel \in {"none", "deleted"} /\ pump = "idle"
    /\ disp = "gone" /\ \A t \in Callers : at[t] = "out"

\* The threads share the teardown without doing any part of it twice.
TeardownOnce ==
  /\ Cardinality({t \in Callers : at[t] = "closing"}) <= 1
  /\ inNet => pOwner \/ \E t \in Callers : at[t] = "forget"

\* An event that was accepted is raised, and a refusal reported, unless the hub
\* is closed first: no wake-up is lost between the pump and the dispatch thread.
AcceptedIsRaised ==
  (queue # <<>> \/ cDropped > 0) ~> (quit \/ fault # "none" \/ (queue = <<>> /\ cDropped = 0))

\* A hub that is closed, by whomever and wherever, ends with the facade's hub
\* closed and the dispatch thread gone.
CloseCompletes ==
  quit ~> (fault # "none" \/ (disp = "gone" /\ kernel \in {"none", "deleted"}))

\* A call that races the close of the hub is safe, as the text of P2PF_E_CLOSED
\* says of the object behind it.
CallIsSafe == fault # "freedHub"
=============================================================================
