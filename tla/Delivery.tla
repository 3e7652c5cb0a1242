------------------------------ MODULE Delivery ------------------------------
(***************************************************************************)
(* What several FacadeHubs do with messages: the posts of Send, Broadcast  *)
(* and Post; the pump turn that hands a message to the client's sink with  *)
(* the message published for GetMsgInfo (CurMsgScope); the answers of an   *)
(* extended sink; and the bounces that tell a sender its message came to   *)
(* nothing.  A hub has a pump thread of its own or is pumped by its        *)
(* client, who may then pump again from inside a callback.                 *)
(*                                                                         *)
(* The kernel is modelled from what the hub relies on: a posted message    *)
(* reaches the pump of its destination or comes back as an exception, and  *)
(* an exception that wraps a client's topic bounces one hop further.  A    *)
(* payload, a topic's name, a priority, a tag and the fields are left out: *)
(* nothing here reads them.  A pump thread goes by the name of its hub.    *)
(***************************************************************************)
EXTENDS Integers, Sequences, FiniteSets

CONSTANTS
  Hubs, Nowhere,   \* addresses with a hub, and one without
  Ext,             \* the hubs whose client called SetExtEvents
  CallerPumped,    \* the hubs created with P2PF_HUB_CALLER_PUMPED
  Kids,            \* the peers a hub relays broadcasts to
  Links,           \* the connections, as pairs of addresses, both ways
  None,
  Menu,            \* bound: what the programs send
  MaxSends,        \* bound: how often they do
  Flaky, MaxDrops, \* bound: the connections that may be lost, and how often
  MaxDepth,        \* bound: pump turns inside pump turns
  Stops            \* bound: the pumps that stop

CastKinds == {"bcast", "ucast"}
SendKinds == {"topic", "post"} \cup CastKinds

ASSUME HubsAssumption  == IsFiniteSet(Hubs) /\ Nowhere \notin Hubs /\ None \notin Hubs
ASSUME SinksAssumption == Ext \subseteq Hubs /\ CallerPumped \subseteq Hubs
ASSUME LinksAssumption ==
  /\ Links \subseteq Hubs \X Hubs
  /\ \A l \in Links : l[1] # l[2] /\ <<l[2], l[1]>> \in Links
  /\ Kids \in [Hubs -> SUBSET Hubs]
  /\ \A h \in Hubs, k \in Hubs : k \in Kids[h] => <<h, k>> \in Links
\* The shape the addresses give a network: by IsBelow each connection joins a
\* hub and one below it, at more dots.  That a hub is connected to one above it
\* only is for who builds the network to see to; with two, a broadcast comes to
\* it twice, and is declined twice.
Tree ==
  /\ \A l \in Links : l[2] \in Kids[l[1]] \/ l[1] \in Kids[l[2]]
  /\ \A g, h \in Hubs : Kids[g] \cap Kids[h] # {} => g = h
  /\ \E level \in [Hubs -> 0 .. Cardinality(Hubs)] :
       \A h \in Hubs : \A k \in Kids[h] : level[h] < level[k]

ASSUME MenuAssumption  ==
  Menu \subseteq [kind : SendKinds, src : Hubs, dst : Hubs \cup {Nowhere}, quiet : BOOLEAN]
ASSUME BoundsAssumption ==
  /\ MaxSends \in Nat /\ MaxDrops \in Nat /\ MaxDepth \in Nat \ {0}
  /\ Stops \subseteq Hubs /\ Flaky \subseteq Links

VARIABLES
  conn, drops,        \* the connections that are logged in, and how many were lost
  peers,              \* m_mapPeers: the peers each hub believes up
  inbox,              \* what the kernel has queued for each pump
  stack,              \* each pump's turns in progress, the innermost last
  curMsg, curThread,  \* m_pCurMsg, m_lCurMsgThread
  done,               \* m_bPumpDone, or the pump thread has ended
  call,               \* the Broadcast each hub has in progress
  sent,               \* history: what was sent; a message is named by its index
  declined, unrouted, \* history: who declined what; which post found no route
  lost,               \* history: the messages whose bounce found no way back
  reports             \* history: ROUTING_ERRORs raised, per hub, peer and message

netVars  == <<conn, drops, peers>>
curVars  == <<curMsg, curThread>>
mailVars == <<inbox, unrouted, lost>>
vars == <<netVars, mailVars, curVars, stack, done, call, sent, declined, reports>>

Ids   == 1 .. MaxSends
Peers == Hubs \cup {Nowhere}

\* P2PeerMsg, with `of' the kind of the message an exception wraps.
Messages == [kind : SendKinds \cup {"exception"}, id : Ids, src : Peers, dst : Peers,
             quiet : BOOLEAN, of : SendKinds \cup {"exception", "none"}]
ASSUME NoneAssumption == None \notin Messages

\* A pump turn: the message it runs on, whether the client is inside its
\* message handler or another callback, and what CurMsgScope saved.
Frames == [msg : Messages \cup {None}, step : {"handler", "callback"},
           prevMsg : Messages \cup {None}, prevThread : Hubs \cup {None}]

NoCall == [step |-> "idle", id |-> 0, todo |-> {}, posted |-> {}, always |-> {},
           ever |-> {}, hr |-> "S_OK"]

TypeOK ==
  /\ conn \subseteq Links /\ drops \in 0 .. MaxDrops
  /\ peers \in [Hubs -> SUBSET Hubs]
  /\ \A h \in Hubs : \A i \in DOMAIN inbox[h] : inbox[h][i] \in Messages
  /\ \A h \in Hubs : \A i \in DOMAIN stack[h] : stack[h][i] \in Frames
  /\ curMsg \in [Hubs -> Messages \cup {None}] /\ curThread \in [Hubs -> Hubs \cup {None}]
  /\ done \in [Hubs -> BOOLEAN]
  /\ call \in [Hubs -> [step : {"idle", "posting", "return"}, id : 0 .. MaxSends,
                        todo : SUBSET Hubs, posted : SUBSET Hubs, always : SUBSET Hubs,
                        ever : SUBSET Hubs, hr : {"S_OK", "S_FALSE", "failed"}]]
  /\ Len(sent) <= MaxSends /\ \A i \in DOMAIN sent : sent[i] \in Menu
  /\ declined \subseteq Ids \X Hubs /\ unrouted \subseteq Ids \X Peers
  /\ lost \subseteq Ids
  /\ reports \in [Hubs \X Peers \X Ids -> Nat]

Init ==
  /\ conn = Links /\ drops = 0
  /\ peers = [h \in Hubs |-> {p \in Hubs : <<h, p>> \in Links}]
  /\ inbox = [h \in Hubs |-> <<>>]
  /\ stack = [h \in Hubs |-> <<>>]
  /\ curMsg = [h \in Hubs |-> None] /\ curThread = [h \in Hubs |-> None]
  /\ done = [h \in Hubs |-> FALSE]
  /\ call = [h \in Hubs |-> NoCall]
  /\ sent = <<>> /\ declined = {} /\ unrouted = {} /\ lost = {}
  /\ reports = [r \in Hubs \X Peers \X Ids |-> 0]

-----------------------------------------------------------------------------
(* The kernel, as far as the hub relies on it *)

\* A message travels over at most one hub in between.
Routable(h, d) ==
  \/ h = d
  \/ <<h, d>> \in conn
  \/ \E via \in Hubs : <<h, via>> \in conn /\ <<via, d>> \in conn

\* ExceptionFactory: back where it came from, in the name of who sends it back.
Exception(m, by) ==
  [kind |-> "exception", id |-> m.id, src |-> by, dst |-> m.src, quiet |-> FALSE, of |-> m.kind]

\* RouteP2PeerMsg: what a hub posts arrives, or comes back to it, or, when it
\* is itself a bounce, is gone.
Lands(h, m) == IF Routable(h, m.dst) THEN <<m.dst, m>>
               ELSE IF m.kind = "exception" THEN <<None, m>>
               ELSE <<h, Exception(m, m.dst)>>

Arrivals(h, ms) == {l \in {Lands(h, m) : m \in ms} : l[1] # None}

\* No two of the messages posted in one step land in one inbox.
Deliveries(box, h, ms) ==
  [d \in Hubs |-> IF \E l \in Arrivals(h, ms) : l[1] = d
                  THEN Append(box[d], (CHOOSE l \in Arrivals(h, ms) : l[1] = d)[2])
                  ELSE box[d]]

PostP2PeerMsg(box, h, ms) ==
  /\ inbox' = Deliveries(box, h, ms)
  /\ unrouted' = unrouted \cup
       {<<m.id, m.dst>> : m \in {x \in ms : x.kind # "exception" /\ ~Routable(h, x.dst)}}
  /\ lost' = lost \cup
       {m.id : m \in {x \in ms : x.kind = "exception" /\ ~Routable(h, x.dst)}}

\* P2PeerHub::On_P2PeerBCast and On_P2PeerUCast: a copy to every child, or to
\* the parent, that is connected and is not where the message came from.
Relayed(h, m) ==
  LET onward == IF m.kind = "bcast" THEN Kids[h] ELSE {p \in Hubs : h \in Kids[p]}
  IN {[m EXCEPT !.dst = p] : p \in {q \in onward : <<h, q>> \in conn /\ q # m.src}}

ConLost(l) ==
  /\ drops < MaxDrops /\ l \in conn \cap Flaky
  /\ drops' = drops + 1
  /\ conn' = conn \ {l, <<l[2], l[1]>>}
  /\ UNCHANGED <<peers, mailVars, curVars, stack, done, call, sent, declined, reports>>

\* The end that dials is connected again, once it has seen the close.
Redial(l) ==
  /\ l \in Links \ conn /\ l[2] \notin peers[l[1]]
  /\ conn' = conn \cup {l, <<l[2], l[1]>>}
  /\ UNCHANGED <<drops, peers, mailVars, curVars, stack, done, call, sent, declined, reports>>

-----------------------------------------------------------------------------
(* Sending, from any thread *)

Fresh(item) ==
  [kind |-> item.kind, id |-> Len(sent) + 1, src |-> item.src, dst |-> item.dst,
   quiet |-> item.quiet, of |-> "none"]

\* Send, SendEx, SendText and SendMsg: the checks of the arguments are left
\* out, a refused call changes nothing.  An upcast comes from a program that
\* uses the kernel directly.
Send(item) ==
  /\ item.kind \in {"topic", "ucast"} /\ Len(sent) < MaxSends
  /\ ~done[item.src]
  /\ sent' = Append(sent, item)
  /\ PostP2PeerMsg(inbox, item.src, {Fresh(item)})
  /\ UNCHANGED <<netVars, curVars, stack, done, call, declined, reports>>

\* Post: through the pump, and only when a sink would hear of it.
Post(item) ==
  /\ item.kind = "post" /\ Len(sent) < MaxSends
  /\ ~done[item.src] /\ item.src \in Ext
  /\ sent' = Append(sent, item)
  /\ PostP2PeerMsg(inbox, item.src, {[Fresh(item) EXCEPT !.dst = item.src]})
  /\ UNCHANGED <<netVars, curVars, stack, done, call, declined, reports>>

\* BroadcastInternal: the peers that are up, copied under m_oCSectPeers.
Broadcast(item) ==
  LET h == item.src IN
  /\ item.kind = "bcast" /\ Len(sent) < MaxSends /\ call[h].step = "idle"
  /\ sent' = Append(sent, item)
  /\ call' = [call EXCEPT ![h] =
                [step   |-> IF peers[h] = {} THEN "return" ELSE "posting",
                 id     |-> Len(sent) + 1,
                 todo   |-> peers[h], posted |-> {}, always |-> peers[h], ever |-> peers[h],
                 hr     |-> IF peers[h] = {} THEN "S_FALSE" ELSE "S_OK"]]
  /\ UNCHANGED <<netVars, mailVars, curVars, stack, done, declined, reports>>

\* A copy that could not be posted leaves the answer a failure.
PostedSilently(c, p, ok) ==
  [c EXCEPT !.todo   = @ \ {p},
            !.step   = IF c.todo = {p} THEN "return" ELSE "posting",
            !.posted = IF ok THEN @ \cup {p} ELSE @]

Posted(c, p, ok) ==
  [c EXCEPT !.todo   = @ \ {p},
            !.step   = IF c.todo = {p} THEN "return" ELSE "posting",
            !.posted = IF ok THEN @ \cup {p} ELSE @,
            !.hr     = IF ok THEN @ ELSE "failed"]

\* One copy, with no lock held; the loop goes on past a post that fails.
PostNext(h, p) ==
  LET i == call[h].id IN
  /\ call[h].step = "posting" /\ p \in call[h].todo
  /\ call' = [call EXCEPT ![h] = Posted(@, p, ~done[h])]
  /\ IF done[h]
     THEN UNCHANGED mailVars
     ELSE PostP2PeerMsg(inbox, h, {[kind |-> "bcast", id |-> i, src |-> h, dst |-> p,
                                    quiet |-> sent[i].quiet, of |-> "none"]})
  /\ UNCHANGED <<netVars, curVars, stack, done, sent, declined, reports>>

BroadcastReturns(h) ==
  /\ call[h].step = "return"
  /\ call' = [call EXCEPT ![h] = NoCall]
  /\ UNCHANGED <<netVars, mailVars, curVars, stack, done, sent, declined, reports>>

-----------------------------------------------------------------------------
(* The pump *)

Top(h) == stack[h][Len(stack[h])]
Inside(h) == stack[h] # <<>>

\* Pump and WaitSlice turn a pump that a client drives, also from inside a
\* callback of it; neither turns one that has answered stop.
MayTurn(h) ==
  /\ ~done[h]
  /\ Inside(h) => h \in CallerPumped /\ Len(stack[h]) < MaxDepth

Frame(h, m, step) ==
  [msg |-> m, step |-> step, prevMsg |-> curMsg[h], prevThread |-> curThread[h]]

\* CurMsgScope: the message is published for the callback ...
BeginScope(h, m) ==
  /\ curMsg'    = [curMsg EXCEPT ![h] = m]
  /\ curThread' = [curThread EXCEPT ![h] = h]

\* ... and what was published before it is put back, not cleared.
EndScopeClears(h) ==
  /\ curThread' = [curThread EXCEPT ![h] = None]
  /\ curMsg'    = [curMsg EXCEPT ![h] = None]

EndScope(h) ==
  /\ curThread' = [curThread EXCEPT ![h] = Top(h).prevThread]
  /\ curMsg'    = [curMsg EXCEPT ![h] = Top(h).prevMsg]

\* What GetMsgInfo and the field readers, called on thread t, look at.
CurMsg(t, h) == IF curThread[h] = t THEN curMsg[h] ELSE None

\* ReportBounce: not a bounce of a bounce.
IsReportedAlways(m) == m.kind = "exception"

IsReported(m) == m.kind = "exception" /\ m.of # "exception"

\* A message the client is handed, by Deliver.
IsDelivered(m) == m.kind \in {"topic"} \cup CastKinds

\* HandlePrivate: only a hub's own address may post to its OnPost.
IsPosted(h, m) == m.kind = "post" /\ m.src = h /\ h \in Ext

TakeHead(h) == MayTurn(h) /\ inbox[h] # <<>> /\ inbox' = [inbox EXCEPT ![h] = Tail(@)]

\* Deliver: the sink's message handler, inside a scope.
Deliver(h) ==
  /\ TakeHead(h) /\ IsDelivered(Head(inbox[h]))
  /\ BeginScope(h, Head(inbox[h]))
  /\ stack' = [stack EXCEPT ![h] = Append(@, Frame(h, Head(inbox[h]), "handler"))]
  /\ UNCHANGED <<netVars, unrouted, lost, done, call, sent, declined, reports>>

\* On_AnyTopic on an exception: OnEvent, and the kernel's handling after it.
ReportBounce(h) ==
  LET m == Head(inbox[h]) IN
  /\ TakeHead(h) /\ IsReported(m)
  /\ reports' = [reports EXCEPT ![<<h, m.src, m.id>>] = @ + 1]
  /\ stack' = [stack EXCEPT ![h] = Append(@, Frame(h, m, "callback"))]
  /\ UNCHANGED <<netVars, unrouted, lost, curVars, done, call, sent, declined>>

\* HandlePrivate on "P2PF$Post": OnPost.
OnPost(h) ==
  /\ TakeHead(h) /\ IsPosted(h, Head(inbox[h]))
  /\ stack' = [stack EXCEPT ![h] = Append(@, Frame(h, Head(inbox[h]), "callback"))]
  /\ UNCHANGED <<netVars, unrouted, lost, curVars, done, call, sent, declined, reports>>

\* Anything else never reaches the client: a bounce of a bounce stops in the
\* kernel's On_MsgCatchCatch, a private topic is consumed.
Consume(h) ==
  LET m == Head(inbox[h]) IN
  /\ TakeHead(h)
  /\ ~IsDelivered(m) /\ ~IsReported(m) /\ ~IsPosted(h, m)
  /\ UNCHANGED <<netVars, unrouted, lost, curVars, stack, done, call, sent, declined, reports>>

\* MarkPeer, on a login or the close of a connection, with OnPeerUp or
\* OnPeerDown; a Broadcast in progress does not look at the map again.
MarkPeer(h, p) ==
  LET up == <<h, p>> \in conn IN
  /\ MayTurn(h)
  /\ (p \in peers[h]) # up
  /\ peers' = [peers EXCEPT ![h] = IF up THEN @ \cup {p} ELSE @ \ {p}]
  /\ call' = IF call[h].step = "idle" THEN call
             ELSE [call EXCEPT ![h].always = IF up THEN @ ELSE @ \ {p},
                               ![h].ever   = IF up THEN @ \cup {p} ELSE @]
  /\ stack' = [stack EXCEPT ![h] = Append(@, Frame(h, None, "callback"))]
  /\ UNCHANGED <<conn, drops, mailVars, curVars, done, sent, declined, reports>>

\* On_P2PeerBCast and On_P2PeerUCast relay whatever the client answered, and
\* then report a decline; a topic that was declined travels on to the kernel's
\* NotHandled, which reports it.  Neither when the sender asked for no bounce.
AfterHandlerMute(h, m, declines) ==
  (IF m.kind \in CastKinds THEN Relayed(h, m) ELSE {}) \cup
  (IF declines /\ ~m.quiet /\ m.kind = "topic" THEN {Exception(m, h)} ELSE {})

AfterHandler(h, m, declines) ==
  (IF m.kind \in CastKinds THEN Relayed(h, m) ELSE {}) \cup
  (IF declines /\ ~m.quiet THEN {Exception(m, h)} ELSE {})

\* Only an extended sink can decline; a handler that throws has handled it.
HandlerReturns(h, declines) ==
  /\ Inside(h) /\ Top(h).step = "handler"
  /\ declines => h \in Ext
  /\ declined' = IF declines THEN declined \cup {<<Top(h).msg.id, h>>} ELSE declined
  /\ EndScope(h)
  /\ stack' = [stack EXCEPT ![h] = SubSeq(@, 1, Len(@) - 1)]
  /\ PostP2PeerMsg(inbox, h, AfterHandler(h, Top(h).msg, declines))
  /\ UNCHANGED <<netVars, done, call, sent, reports>>

\* The kernel catches an exception that wraps a broadcast, and bounces one that
\* wraps a topic to where it came from.
Further(h, m) ==
  IF m # None /\ m.kind = "exception" /\ m.of # "bcast" THEN {Exception(m, h)} ELSE {}

CallbackReturns(h) ==
  /\ Inside(h) /\ Top(h).step = "callback"
  /\ stack' = [stack EXCEPT ![h] = SubSeq(@, 1, Len(@) - 1)]
  /\ PostP2PeerMsg(inbox, h, Further(h, Top(h).msg))
  /\ UNCHANGED <<netVars, curVars, done, call, sent, declined, reports>>

\* PumpOnce, or RunHub: PumpP2Pmsg answered 0, threw, or handed back CLOSE.
PumpStops(h) ==
  /\ h \in Stops /\ MayTurn(h)
  /\ done' = [done EXCEPT ![h] = TRUE]
  /\ UNCHANGED <<netVars, mailVars, curVars, stack, call, sent, declined, reports>>

-----------------------------------------------------------------------------
Turn(h) == Deliver(h) \/ ReportBounce(h) \/ OnPost(h) \/ Consume(h)

Next ==
  \/ \E l \in Links : ConLost(l) \/ Redial(l)
  \/ \E item \in Menu : Send(item) \/ Post(item) \/ Broadcast(item)
  \/ \E h \in Hubs : \/ BroadcastReturns(h) \/ Turn(h) \/ CallbackReturns(h) \/ PumpStops(h)
                     \/ \E p \in Hubs : PostNext(h, p) \/ MarkPeer(h, p)
                     \/ \E declines \in BOOLEAN : HandlerReturns(h, declines)

Spec == Init /\ [][Next]_vars

\* A pump, or the client that drives it, takes its next turn, and a callback
\* of the client's comes to its end; nothing makes a program send, or answer
\* one thing rather than the other.
FairSpec ==
  /\ Spec
  /\ \A h \in Hubs : /\ WF_vars(Turn(h)) /\ WF_vars(CallbackReturns(h))
                     /\ WF_vars(\E declines \in BOOLEAN : HandlerReturns(h, declines))

-----------------------------------------------------------------------------
(* Properties *)

\* Inside a message handler the thread that runs it is shown that message and
\* no other, however deep the pump turns nest, and no other thread is ever
\* shown one; a pump that is in no callback shows none.  CurMsgScope restores
\* instead of clearing because a caller-pumped handler pumps.
CurMsgIsOwn ==
  \A h \in Hubs, t \in Hubs :
    /\ t # h => CurMsg(t, h) = None
    /\ ~Inside(h) => CurMsg(h, h) = None
    /\ Inside(h) /\ Top(h).step = "handler" => CurMsg(h, h) = Top(h).msg

\* TargetFacade.h on GetMsgInfo: from another callback (OnPeerUp, OnTimer,
\* OnPost, OnEvent) it answers P2PF_E_NO_MESSAGE rather than a stale value.
NoMessageInOtherCallbacks ==
  \A h \in Hubs : Inside(h) /\ Top(h).step = "callback" => CurMsg(h, h) = None

\* A P2PF_EVT_ROUTING_ERROR is raised at the hub that sent the message and no
\* other, about a peer that declined it while bounces were wanted or that it
\* could not reach, and once per peer: a bounce that travels further, the relay
\* of a broadcast and a decline on both paths add none.
ReportsAreOwed ==
  \A h \in Hubs, p \in Peers, i \in Ids :
    reports[<<h, p, i>>] > 0 =>
      /\ reports[<<h, p, i>>] = 1
      /\ i \in DOMAIN sent /\ sent[i].src = h
      /\ \/ <<i, p>> \in declined /\ ~sent[i].quiet
         \/ <<i, p>> \in unrouted

\* The answer of Broadcast is true of what was posted: on S_OK every peer that
\* was up from the snapshot to the return was posted a copy, on S_FALSE none
\* was, and never was one posted to a peer that was not up in that time.
BroadcastCovers ==
  \A h \in Hubs :
    LET cast == call[h] IN
    cast.step = "return" =>
      /\ cast.posted \subseteq cast.ever
      /\ cast.hr = "S_OK" => cast.always \subseteq cast.posted
      /\ cast.hr = "S_FALSE" => cast.posted = {}

\* The declines that are to be heard and the posts that found no route, of
\* which the sender has not been told and still could be.
Untold ==
  {u \in (DOMAIN sent) \X Peers :
     /\ (u \in declined /\ ~sent[u[1]].quiet) \/ u \in unrouted
     /\ LET by == sent[u[1]].src
        IN reports[<<by, u[2], u[1]>>] = 0 /\ u[1] \notin lost /\ ~done[by]}

\* All of them are reported, unless the way back is lost or the pump of the
\* sender stops.  Ignoring the answer of a broadcast's handler broke this.
BouncesAreReported == (Untold # {}) ~> (Untold = {})

=============================================================================
