--------------------------- MODULE DeliveryProofs ---------------------------
(***************************************************************************)
(* What Delivery promises for any hubs, connections, sinks and depth of    *)
(* nesting: its types; that a message handler is shown its own message and *)
(* nobody else is shown one (CurMsgScope); that the answer of a Broadcast  *)
(* is true of what was posted; and that a sender is told of each peer that *)
(* is owed it, once at most, and nobody else is told, where the hubs form  *)
(* a tree.                                                                 *)
(***************************************************************************)
EXTENDS Delivery, FiniteSetTheorems, SequenceTheorems, TLAPS

-----------------------------------------------------------------------------
(* Types *)

MessageKinds == SendKinds \cup {"exception"}
Calls == [step : {"idle", "posting", "return"}, id : 0 .. MaxSends,
          todo : SUBSET Hubs, posted : SUBSET Hubs, always : SUBSET Hubs,
          ever : SUBSET Hubs, hr : {"S_OK", "S_FALSE", "failed"}]

\* TypeOK, with the inboxes and the stacks as sequences; a message handler runs
\* on a message, and a Broadcast that posts is of a message that was sent.
MailType ==
  /\ inbox \in [Hubs -> Seq(Messages)]
  /\ unrouted \subseteq Ids \X Peers /\ lost \subseteq Ids
TurnType ==
  /\ stack \in [Hubs -> Seq(Frames)]
  /\ \A h \in Hubs : \A i \in 1 .. Len(stack[h]) :
       stack[h][i].step = "handler" => stack[h][i].msg # None
  /\ curMsg \in [Hubs -> Messages \cup {None}] /\ curThread \in [Hubs -> Hubs \cup {None}]
CallType ==
  /\ sent \in Seq(Menu) /\ Len(sent) <= MaxSends
  /\ call \in [Hubs -> Calls]
  /\ \A h \in Hubs : call[h].step = "posting" => call[h].id \in 1 .. Len(sent)
RestType ==
  /\ conn \subseteq Links /\ drops \in 0 .. MaxDrops
  /\ peers \in [Hubs -> SUBSET Hubs] /\ done \in [Hubs -> BOOLEAN]
  /\ declined \subseteq Ids \X Hubs
  /\ reports \in [Hubs \X Peers \X Ids -> Nat]
TypeInv == MailType /\ TurnType /\ CallType /\ RestType

\* A bounce is a message.
LEMMA ExceptionType ==
  ASSUME NEW m \in Messages, NEW by \in Peers
  PROVE  Exception(m, by) \in Messages
BY DEF Exception, Messages

\* So is a copy for another peer.
LEMMA CopyType ==
  ASSUME NEW m \in Messages, NEW p \in Peers
  PROVE  [m EXCEPT !.dst = p] \in Messages
BY DEF Messages

\* What a program sends is a message, of the next index.
LEMMA FreshType ==
  ASSUME TypeInv, NEW item \in Menu, Len(sent) < MaxSends
  PROVE  /\ Fresh(item) \in Messages
         /\ item.src \in Hubs /\ item.dst \in Peers /\ item.quiet \in BOOLEAN
         /\ Len(sent) + 1 \in Ids
<1>1. Len(sent) \in Nat /\ MaxSends \in Nat
  BY LenProperties, BoundsAssumption DEF TypeInv, CallType
<1>2. Len(sent) + 1 \in Ids
  BY <1>1 DEF Ids
<1>3. item \in [kind : SendKinds, src : Hubs, dst : Hubs \cup {Nowhere}, quiet : BOOLEAN]
  BY MenuAssumption
<1> QED BY <1>2, <1>3 DEF Fresh, Messages, Peers

\* Posting keeps the types of the mail.
LEMMA PostType ==
  ASSUME NEW box \in [Hubs -> Seq(Messages)], NEW h \in Hubs, NEW ms \in SUBSET Messages,
         unrouted \subseteq Ids \X Peers, lost \subseteq Ids, PostP2PeerMsg(box, h, ms)
  PROVE  MailType'
<1>1. ASSUME NEW m \in ms PROVE Lands(h, m)[2] \in Messages
  <2>1. m \in Messages /\ m.dst \in Peers
    BY <1>1 DEF Messages
  <2>2. Exception(m, m.dst) \in Messages
    BY <2>1, ExceptionType
  <2> QED BY <2>1, <2>2 DEF Lands
<1>2. \A l \in Arrivals(h, ms) : l[2] \in Messages
  BY <1>1 DEF Arrivals
<1>3. ASSUME NEW d \in Hubs PROVE Deliveries(box, h, ms)[d] \in Seq(Messages)
  <2>1. CASE \E l \in Arrivals(h, ms) : l[1] = d
    <3>1. (CHOOSE l \in Arrivals(h, ms) : l[1] = d) \in Arrivals(h, ms)
      BY <2>1
    <3>2. Append(box[d], (CHOOSE l \in Arrivals(h, ms) : l[1] = d)[2]) \in Seq(Messages)
      BY <1>2, <3>1, AppendProperties
    <3> QED BY <2>1, <3>2 DEF Deliveries
  <2>2. CASE ~\E l \in Arrivals(h, ms) : l[1] = d
    BY <2>2 DEF Deliveries
  <2> QED BY <2>1, <2>2
<1>4. inbox' \in [Hubs -> Seq(Messages)]
  BY <1>3 DEF PostP2PeerMsg, Deliveries
<1>5. \A m \in ms : m.id \in Ids /\ m.dst \in Peers
  BY DEF Messages
<1>6. unrouted' \subseteq Ids \X Peers /\ lost' \subseteq Ids
  BY <1>5 DEF PostP2PeerMsg
<1> QED BY <1>4, <1>6 DEF MailType

\* A callback that begins goes on top of the stack of its pump.
LEMMA PushType ==
  ASSUME TurnType, NEW h \in Hubs, NEW m \in Messages \cup {None},
         NEW step \in {"handler", "callback"}, step = "handler" => m # None,
         stack' = [stack EXCEPT ![h] = Append(@, Frame(h, m, step))],
         curMsg' \in [Hubs -> Messages \cup {None}], curThread' \in [Hubs -> Hubs \cup {None}]
  PROVE  /\ TurnType'
         /\ Len(stack'[h]) = Len(stack[h]) + 1 /\ Len(stack[h]) \in Nat
         /\ \A i \in 1 .. Len(stack[h]) : stack'[h][i] = stack[h][i]
         /\ stack'[h][Len(stack[h]) + 1] = Frame(h, m, step)
         /\ \A g \in Hubs : g # h => stack'[g] = stack[g]
<1> DEFINE f == Frame(h, m, step)
<1>1. f \in Frames /\ f.step = step /\ f.msg = m
  BY DEF Frame, Frames, TurnType
<1>2. stack[h] \in Seq(Frames)
  BY DEF TurnType
<1> HIDE DEF f
<1>3. /\ Append(stack[h], f) \in Seq(Frames) /\ Len(Append(stack[h], f)) = Len(stack[h]) + 1
      /\ \A i \in 1 .. Len(stack[h]) : Append(stack[h], f)[i] = stack[h][i]
      /\ Append(stack[h], f)[Len(stack[h]) + 1] = f
      /\ Len(stack[h]) \in Nat
  BY <1>1, <1>2, AppendProperties, LenProperties
<1>4. stack' = [stack EXCEPT ![h] = Append(stack[h], f)]
  BY DEF f
<1>5. /\ stack'[h] = Append(stack[h], f) /\ stack' \in [Hubs -> Seq(Frames)]
      /\ \A g \in Hubs : g # h => stack'[g] = stack[g]
  BY <1>3, <1>4 DEF TurnType
<1>6. ASSUME NEW g \in Hubs, NEW i \in 1 .. Len(stack'[g]), stack'[g][i].step = "handler"
      PROVE  stack'[g][i].msg # None
  <2>1. CASE g # h
    BY <1>5, <1>6, <2>1 DEF TurnType
  <2>2. CASE g = h /\ i <= Len(stack[h])
    BY <1>3, <1>5, <1>6, <2>2 DEF TurnType
  <2>3. CASE g = h /\ i = Len(stack[h]) + 1
    BY <1>1, <1>3, <1>5, <1>6, <2>3
  <2> QED BY <1>3, <1>5, <2>1, <2>2, <2>3
<1>7. TurnType'
  BY <1>5, <1>6 DEF TurnType
<1> QED BY <1>3, <1>5, <1>7 DEF f

\* One that ends is taken off it.
LEMMA PopType ==
  ASSUME TurnType, NEW h \in Hubs, Inside(h),
         stack' = [stack EXCEPT ![h] = SubSeq(@, 1, Len(@) - 1)],
         curMsg' \in [Hubs -> Messages \cup {None}], curThread' \in [Hubs -> Hubs \cup {None}]
  PROVE  /\ TurnType'
         /\ Len(stack'[h]) = Len(stack[h]) - 1 /\ Len(stack[h]) \in Nat \ {0}
         /\ \A i \in 1 .. Len(stack[h]) - 1 : stack'[h][i] = stack[h][i]
         /\ Top(h) \in Frames
         /\ \A g \in Hubs : g # h => stack'[g] = stack[g]
<1> DEFINE s == stack[h]
           n == Len(s) - 1
<1>1. s \in Seq(Frames) /\ s # <<>>
  BY DEF TurnType, Inside
<1>2. Len(s) \in Nat /\ Len(s) # 0 /\ s = [i \in 1 .. Len(s) |-> s[i]]
  BY <1>1, LenProperties, EmptySeq
<1>3. n \in Nat /\ n <= Len(s) /\ \A i \in 1 .. Len(s) : s[i] \in Frames
  BY <1>1, <1>2, ElementOfSeq
<1>4. /\ SubSeq(s, 1, n) \in Seq(Frames) /\ Len(SubSeq(s, 1, n)) = n
      /\ \A i \in 1 .. n : SubSeq(s, 1, n)[i] = s[i]
  BY <1>1, <1>2, <1>3, SubSeqProperties
<1>5. stack' = [stack EXCEPT ![h] = SubSeq(s, 1, n)]
  OBVIOUS
<1> HIDE DEF n
<1>6. /\ stack'[h] = SubSeq(s, 1, n) /\ stack' \in [Hubs -> Seq(Frames)]
      /\ \A g \in Hubs : g # h => stack'[g] = stack[g]
  BY <1>4, <1>5 DEF TurnType
<1>7. ASSUME NEW g \in Hubs, NEW i \in 1 .. Len(stack'[g]), stack'[g][i].step = "handler"
      PROVE  stack'[g][i].msg # None
  <2>1. CASE g # h
    BY <1>6, <1>7, <2>1 DEF TurnType
  <2>2. CASE g = h
    <3>1. i \in 1 .. Len(stack[h]) /\ stack'[h][i] = stack[h][i]
      BY <1>2, <1>3, <1>4, <1>6, <1>7, <2>2
    <3> QED BY <1>7, <2>2, <3>1 DEF TurnType
  <2> QED BY <2>1, <2>2
<1>8. TurnType'
  BY <1>6, <1>7 DEF TurnType
<1>9. Top(h) \in Frames
  BY <1>2, <1>3 DEF Top
<1> QED BY <1>2, <1>4, <1>6, <1>8, <1>9 DEF n

\* The first message of an inbox, taken by a pump.
LEMMA TakeType ==
  ASSUME MailType, NEW h \in Hubs, TakeHead(h)
  PROVE  /\ Head(inbox[h]) \in Messages
         /\ inbox' \in [Hubs -> Seq(Messages)]
<1>1. inbox[h] \in Seq(Messages) /\ inbox[h] # <<>>
  BY DEF MailType, TakeHead
<1>2. Head(inbox[h]) \in Messages /\ Tail(inbox[h]) \in Seq(Messages)
  BY <1>1, HeadTailProperties
<1> QED BY <1>2 DEF MailType, TakeHead

\* What the client answered leads to messages.
LEMMA AfterHandlerType ==
  ASSUME NEW h \in Hubs, NEW m \in Messages, NEW declines \in BOOLEAN
  PROVE  AfterHandler(h, m, declines) \in SUBSET Messages
<1>1. Exception(m, h) \in Messages
  BY ExceptionType DEF Peers
<1>2. Relayed(h, m) \subseteq Messages
  BY CopyType, LinksAssumption DEF Relayed, Peers
<1> QED BY <1>1, <1>2 DEF AfterHandler

\* So does the end of a callback.
LEMMA FurtherType ==
  ASSUME NEW h \in Hubs, NEW m \in Messages \cup {None}
  PROVE  Further(h, m) \in SUBSET Messages
<1>1. m # None => Exception(m, h) \in Messages
  BY ExceptionType DEF Peers
<1> QED BY <1>1 DEF Further

LEMMA TypeInit == Init => TypeInv
<1> SUFFICES ASSUME Init PROVE TypeInv
  OBVIOUS
<1>1. MailType
  BY EmptySeq DEF Init, MailType
<1>2. TurnType
  BY EmptySeq DEF Init, TurnType
<1>3. NoCall \in Calls /\ NoCall.step = "idle"
  BY BoundsAssumption DEF NoCall, Calls
<1>4. CallType
  BY <1>3, EmptySeq, BoundsAssumption DEF Init, CallType
<1>5. RestType
  BY BoundsAssumption DEF Init, RestType
<1> QED BY <1>1, <1>2, <1>4, <1>5 DEF TypeInv

\* A program sends, or posts.
LEMMA SendKeeps ==
  ASSUME TypeInv, NEW item \in Menu, Send(item) \/ Post(item) PROVE TypeInv'
<1>1. Len(sent) < MaxSends /\ sent' = Append(sent, item)
      /\ UNCHANGED <<netVars, curVars, stack, done, call, declined, reports>>
  BY DEF Send, Post
<1>2. Fresh(item) \in Messages /\ item.src \in Hubs /\ Len(sent) + 1 \in Ids
  BY <1>1, FreshType
<1>3. MailType'
  <2>1. CASE Send(item)
    <3>1. {Fresh(item)} \in SUBSET Messages
      BY <1>2
    <3> QED BY <1>2, <2>1, <3>1, PostType DEF Send, TypeInv, MailType
  <2>2. CASE Post(item)
    <3>1. {[Fresh(item) EXCEPT !.dst = item.src]} \in SUBSET Messages
      BY <1>2, CopyType DEF Peers
    <3> QED BY <1>2, <2>2, <3>1, PostType DEF Post, TypeInv, MailType
  <2> QED BY <2>1, <2>2
<1>4. CallType'
  <2>1. sent' \in Seq(Menu) /\ Len(sent') = Len(sent) + 1 /\ Len(sent) \in Nat
    BY <1>1, AppendProperties, LenProperties DEF TypeInv, CallType
  <2> QED BY <1>1, <1>2, <2>1 DEF TypeInv, CallType, Ids
<1>5. TurnType' /\ RestType'
  BY <1>1 DEF TypeInv, TurnType, RestType, netVars, curVars
<1> QED BY <1>3, <1>4, <1>5 DEF TypeInv

\* A Broadcast begins.
LEMMA BroadcastKeeps ==
  ASSUME TypeInv, NEW item \in Menu, Broadcast(item) PROVE TypeInv'
<1>1. Len(sent) < MaxSends /\ sent' = Append(sent, item)
  BY DEF Broadcast
<1>2. item.src \in Hubs /\ Len(sent) + 1 \in Ids
  BY <1>1, FreshType
<1>3. sent' \in Seq(Menu) /\ Len(sent') = Len(sent) + 1 /\ Len(sent) \in Nat
  BY <1>1, AppendProperties, LenProperties DEF TypeInv, CallType
<1>4. CallType'
  <2> DEFINE h == item.src
             start == [step   |-> IF peers[h] = {} THEN "return" ELSE "posting",
                       id     |-> Len(sent) + 1,
                       todo   |-> peers[h], posted |-> {}, always |-> peers[h],
                       ever   |-> peers[h],
                       hr     |-> IF peers[h] = {} THEN "S_FALSE" ELSE "S_OK"]
  <2>1. start \in Calls /\ start.id = Len(sent) + 1
    <3>1. Len(sent) + 1 \in 0 .. MaxSends /\ peers[h] \in SUBSET Hubs
      BY <1>2, <1>3 DEF Ids, TypeInv, RestType
    <3> QED BY <3>1 DEF Calls
  <2>2. call' = [call EXCEPT ![h] = start]
    BY DEF Broadcast
  <2> HIDE DEF start
  <2> QED BY <1>2, <1>3, <2>1, <2>2 DEF TypeInv, CallType, Ids
<1>5. MailType' /\ TurnType' /\ RestType'
  BY DEF Broadcast, TypeInv, MailType, TurnType, RestType, netVars, mailVars, curVars
<1> QED BY <1>4, <1>5 DEF TypeInv

\* It goes on.
LEMMA PostNextKeeps ==
  ASSUME TypeInv, NEW h \in Hubs, NEW p \in Hubs, PostNext(h, p) PROVE TypeInv'
<1>1. call[h] \in Calls /\ call[h].id \in 1 .. Len(sent) /\ done[h] \in BOOLEAN
  BY DEF PostNext, TypeInv, CallType, RestType
<1>2. MailType'
  <2> DEFINE i == call[h].id
             m == [kind |-> "bcast", id |-> i, src |-> h, dst |-> p,
                   quiet |-> sent[i].quiet, of |-> "none"]
  <2>1. sent[i] \in Menu /\ i \in Ids
    BY <1>1, ElementOfSeq, LenProperties, BoundsAssumption DEF TypeInv, CallType, Ids
  <2>2. m \in Messages
    BY <2>1, MenuAssumption DEF Messages, SendKinds, CastKinds, Peers
  <2>3. CASE done[h]
    BY <2>3 DEF PostNext, TypeInv, MailType, mailVars
  <2>4. CASE ~done[h]
    <3>1. PostP2PeerMsg(inbox, h, {m})
      BY <2>4 DEF PostNext
    <3> HIDE DEF m
    <3> QED BY <2>2, <3>1, PostType DEF TypeInv, MailType
  <2> QED BY <2>3, <2>4
<1>3. CallType'
  <2>1. Posted(call[h], p, ~done[h]) \in Calls
    BY <1>1 DEF Posted, Calls
  <2>2. Posted(call[h], p, ~done[h]).id = call[h].id
    BY <1>1 DEF Posted, Calls
  <2>3. call' = [call EXCEPT ![h] = Posted(call[h], p, ~done[h])] /\ sent' = sent
    BY DEF PostNext
  <2> QED BY <1>1, <2>1, <2>2, <2>3 DEF TypeInv, CallType
<1>4. TurnType' /\ RestType'
  BY DEF PostNext, TypeInv, TurnType, RestType, netVars, curVars
<1> QED BY <1>2, <1>3, <1>4 DEF TypeInv

\* A pump turns.
LEMMA TurnKeeps ==
  ASSUME TypeInv, NEW h \in Hubs, Turn(h) PROVE TypeInv'
<1> DEFINE m == Head(inbox[h])
<1>1. TakeHead(h) /\ UNCHANGED <<netVars, unrouted, lost, done, call, sent, declined>>
  BY DEF Turn, Deliver, ReportBounce, OnPost, Consume
<1>2. m \in Messages /\ inbox' \in [Hubs -> Seq(Messages)]
  BY <1>1, TakeType DEF TypeInv
<1> HIDE DEF m
<1>3. MailType' /\ CallType'
  BY <1>1, <1>2 DEF TypeInv, MailType, CallType
<1>4. RestType'
  <2>1. CASE reports' = reports
    BY <1>1, <2>1 DEF TypeInv, RestType, netVars
  <2>2. CASE reports' = [reports EXCEPT ![<<h, m.src, m.id>>] = @ + 1]
    <3>1. reports' \in [Hubs \X Peers \X Ids -> Nat]
      BY <1>2, <2>2 DEF TypeInv, RestType, Messages
    <3> QED BY <1>1, <3>1 DEF TypeInv, RestType, netVars
  <2> QED BY <2>1, <2>2 DEF m, Turn, Deliver, ReportBounce, OnPost, Consume
<1>5. TurnType'
  <2>1. CASE Deliver(h)
    <3>1. /\ curMsg' \in [Hubs -> Messages \cup {None}]
          /\ curThread' \in [Hubs -> Hubs \cup {None}]
          /\ stack' = [stack EXCEPT ![h] = Append(@, Frame(h, m, "handler"))]
      BY <1>2, <2>1 DEF Deliver, BeginScope, TypeInv, TurnType, m
    <3>2. m # None
      BY <1>2, NoneAssumption
    <3> QED BY <1>2, <3>1, <3>2, PushType DEF TypeInv
  <2>2. CASE ReportBounce(h) \/ OnPost(h)
    <3>1. /\ curMsg' \in [Hubs -> Messages \cup {None}]
          /\ curThread' \in [Hubs -> Hubs \cup {None}]
          /\ stack' = [stack EXCEPT ![h] = Append(@, Frame(h, m, "callback"))]
      BY <2>2 DEF ReportBounce, OnPost, TypeInv, TurnType, m, curVars
    <3> QED BY <1>2, <3>1, PushType DEF TypeInv
  <2>3. CASE Consume(h)
    BY <2>3 DEF Consume, TypeInv, TurnType, curVars
  <2> QED BY <2>1, <2>2, <2>3 DEF Turn
<1> QED BY <1>3, <1>4, <1>5 DEF TypeInv

\* A login or a close is seen.
LEMMA MarkKeeps ==
  ASSUME TypeInv, NEW h \in Hubs, NEW p \in Hubs, MarkPeer(h, p) PROVE TypeInv'
<1>1. MailType'
  BY DEF MarkPeer, TypeInv, MailType, mailVars
<1>2. TurnType'
  <2>1. /\ curMsg' \in [Hubs -> Messages \cup {None}]
        /\ curThread' \in [Hubs -> Hubs \cup {None}]
        /\ stack' = [stack EXCEPT ![h] = Append(@, Frame(h, None, "callback"))]
    BY DEF MarkPeer, TypeInv, TurnType, curVars
  <2> QED BY <2>1, PushType DEF TypeInv
<1>3. CallType'
  <2> DEFINE up == <<h, p>> \in conn
             c  == [call[h] EXCEPT !.always = IF up THEN @ ELSE @ \ {p},
                                   !.ever   = IF up THEN @ \cup {p} ELSE @]
  <2>1. c \in Calls /\ c.step = call[h].step /\ c.id = call[h].id
    <3>1. call[h] \in Calls
      BY DEF TypeInv, CallType
    <3> HIDE DEF up
    <3>2. CASE up
      BY <3>1, <3>2 DEF Calls
    <3>3. CASE ~up
      BY <3>1, <3>3 DEF Calls
    <3> QED BY <3>2, <3>3
  <2>2. call' = call \/ call' = [call EXCEPT ![h] = c]
    BY DEF MarkPeer
  <2>3. sent' = sent
    BY DEF MarkPeer
  <2> HIDE DEF c
  <2> QED BY <2>1, <2>2, <2>3 DEF TypeInv, CallType
<1>4. RestType'
  BY DEF MarkPeer, TypeInv, RestType
<1> QED BY <1>1, <1>2, <1>3, <1>4 DEF TypeInv

\* A message handler returns.
LEMMA HandlerKeeps ==
  ASSUME TypeInv, NEW h \in Hubs, NEW declines \in BOOLEAN, HandlerReturns(h, declines)
  PROVE  TypeInv'
<1>1. Inside(h) /\ Top(h).step = "handler"
      /\ stack' = [stack EXCEPT ![h] = SubSeq(@, 1, Len(@) - 1)]
      /\ UNCHANGED <<netVars, done, call, sent, reports>>
  BY DEF HandlerReturns
<1>2. Top(h) \in Frames /\ Top(h).msg \in Messages
  <2>1. stack[h] \in Seq(Frames) /\ stack[h] # <<>>
    BY <1>1 DEF TypeInv, TurnType, Inside
  <2>2. Len(stack[h]) \in 1 .. Len(stack[h])
    BY <2>1, EmptySeq, LenProperties
  <2>3. Top(h) \in Frames
    BY <2>1, <2>2, ElementOfSeq DEF Top
  <2>4. Top(h).msg # None
    BY <1>1, <2>2 DEF TypeInv, TurnType, Top
  <2> QED BY <2>3, <2>4 DEF Frames
<1>3. /\ curMsg' \in [Hubs -> Messages \cup {None}]
      /\ curThread' \in [Hubs -> Hubs \cup {None}]
  BY <1>2 DEF HandlerReturns, EndScope, TypeInv, TurnType, Frames
<1>4. TurnType'
  BY <1>1, <1>3, PopType DEF TypeInv
<1>5. MailType'
  <2>1. AfterHandler(h, Top(h).msg, declines) \in SUBSET Messages
    BY <1>2, AfterHandlerType
  <2>2. PostP2PeerMsg(inbox, h, AfterHandler(h, Top(h).msg, declines))
    BY DEF HandlerReturns
  <2> QED BY <2>1, <2>2, PostType DEF TypeInv, MailType
<1>6. declined' \subseteq Ids \X Hubs
  <2>1. Top(h).msg.id \in Ids
    BY <1>2 DEF Messages
  <2> QED BY <2>1 DEF HandlerReturns, TypeInv, RestType
<1>7. CallType' /\ RestType'
  BY <1>1, <1>6 DEF TypeInv, CallType, RestType, netVars
<1> QED BY <1>4, <1>5, <1>7 DEF TypeInv

\* Another callback returns.
LEMMA CallbackKeeps ==
  ASSUME TypeInv, NEW h \in Hubs, CallbackReturns(h) PROVE TypeInv'
<1>1. Inside(h) /\ stack' = [stack EXCEPT ![h] = SubSeq(@, 1, Len(@) - 1)]
      /\ UNCHANGED <<netVars, curVars, done, call, sent, declined, reports>>
  BY DEF CallbackReturns
<1>2. TurnType' /\ Top(h) \in Frames
  BY <1>1, PopType DEF TypeInv, TurnType, curVars
<1>3. MailType'
  <2>1. Top(h).msg \in Messages \cup {None}
    BY <1>2 DEF Frames
  <2>2. Further(h, Top(h).msg) \in SUBSET Messages
    BY <2>1, FurtherType
  <2>3. PostP2PeerMsg(inbox, h, Further(h, Top(h).msg))
    BY DEF CallbackReturns
  <2> QED BY <2>2, <2>3, PostType DEF TypeInv, MailType
<1>4. CallType' /\ RestType'
  BY <1>1 DEF TypeInv, CallType, RestType, netVars
<1> QED BY <1>2, <1>3, <1>4 DEF TypeInv

\* Every step keeps the types.
LEMMA TypeNext == TypeInv /\ [Next]_vars => TypeInv'
<1> SUFFICES ASSUME TypeInv, [Next]_vars PROVE TypeInv'
  OBVIOUS
<1>1. ASSUME NEW l \in Links, ConLost(l) \/ Redial(l) PROVE TypeInv'
  <2>1. conn' \subseteq Links /\ drops' \in 0 .. MaxDrops
    BY <1>1, BoundsAssumption, LinksAssumption DEF ConLost, Redial, TypeInv, RestType
  <2>2. UNCHANGED <<peers, mailVars, curVars, stack, done, call, sent, declined, reports>>
    BY <1>1 DEF ConLost, Redial
  <2> QED BY <2>1, <2>2
          DEF TypeInv, MailType, TurnType, CallType, RestType, mailVars, curVars
<1>2. ASSUME NEW item \in Menu, Send(item) \/ Post(item) \/ Broadcast(item) PROVE TypeInv'
  BY <1>2, SendKeeps, BroadcastKeeps
<1>3. ASSUME NEW h \in Hubs, BroadcastReturns(h) PROVE TypeInv'
  <2>1. NoCall \in Calls /\ NoCall.step = "idle"
    BY BoundsAssumption DEF NoCall, Calls
  <2>2. CallType'
    BY <1>3, <2>1 DEF BroadcastReturns, TypeInv, CallType
  <2> QED BY <1>3, <2>2 DEF BroadcastReturns, TypeInv, MailType, TurnType, RestType, netVars,
                            mailVars, curVars
<1>4. ASSUME NEW h \in Hubs, PumpStops(h) PROVE TypeInv'
  BY <1>4 DEF PumpStops, TypeInv, MailType, TurnType, CallType, RestType, netVars, mailVars,
              curVars
<1>5. CASE UNCHANGED vars
  BY <1>5 DEF vars, TypeInv, MailType, TurnType, CallType, RestType, netVars, mailVars, curVars
<1> QED BY <1>1, <1>2, <1>3, <1>4, <1>5, TurnKeeps, CallbackKeeps, PostNextKeeps, MarkKeeps,
           HandlerKeeps DEF Next

\* The types of Delivery, whatever is sent, lost and nested.
THEOREM DeliveryTypes == Spec => []TypeOK
<1>1. TypeInv => TypeOK
  <2> SUFFICES ASSUME TypeInv PROVE TypeOK
    OBVIOUS
  <2>1. ASSUME NEW h \in Hubs PROVE \A i \in DOMAIN inbox[h] : inbox[h][i] \in Messages
    BY ElementOfSeq, LenProperties DEF TypeInv, MailType
  <2>2. ASSUME NEW h \in Hubs PROVE \A i \in DOMAIN stack[h] : stack[h][i] \in Frames
    BY ElementOfSeq, LenProperties DEF TypeInv, TurnType
  <2>3. Len(sent) <= MaxSends /\ \A i \in DOMAIN sent : sent[i] \in Menu
    BY ElementOfSeq, LenProperties DEF TypeInv, CallType
  <2> QED BY <2>1, <2>2, <2>3 DEF TypeInv, MailType, TurnType, CallType, RestType, TypeOK, Calls
<1> QED BY <1>1, TypeInit, TypeNext, PTL DEF Spec

-----------------------------------------------------------------------------
(* The current message *)

\* What is published while the first n turns of a stack are in progress.
ShownMsg(s, n) ==
  IF n = 0 THEN None ELSE IF s[n].step = "handler" THEN s[n].msg ELSE s[n].prevMsg
ShownThread(h, s, n) ==
  IF n = 0 THEN None ELSE IF s[n].step = "handler" THEN h ELSE s[n].prevThread

\* Every turn saved what the turns below it published, so that taking the turns
\* off in order restores each in its place.
Restores(h, s) ==
  \A i \in 1 .. Len(s) : /\ s[i].prevMsg = ShownMsg(s, i - 1)
                         /\ s[i].prevThread = ShownThread(h, s, i - 1)

ScopeInv ==
  \A h \in Hubs :
    /\ Restores(h, stack[h])
    /\ curMsg[h] = ShownMsg(stack[h], Len(stack[h]))
    /\ curThread[h] = ShownThread(h, stack[h], Len(stack[h]))
    /\ \A i \in 0 .. Len(stack[h]) : ShownThread(h, stack[h], i) \in {h, None}

\* A callback that begins keeps it: a handler publishes, another does not.
LEMMA ScopePush ==
  ASSUME TurnType, ScopeInv, NEW h \in Hubs, NEW m \in Messages \cup {None},
         NEW step \in {"handler", "callback"}, step = "handler" => m # None,
         stack' = [stack EXCEPT ![h] = Append(@, Frame(h, m, step))],
         IF step = "handler" THEN BeginScope(h, m) ELSE UNCHANGED curVars
  PROVE  ScopeInv'
<1> DEFINE s == stack[h]
           r == stack'[h]
           n == Len(s)
<1>1. /\ curMsg' = [curMsg EXCEPT ![h] = IF step = "handler" THEN m ELSE @]
      /\ curThread' = [curThread EXCEPT ![h] = IF step = "handler" THEN h ELSE @]
  BY DEF BeginScope, curVars, TurnType
<1>2. curMsg' \in [Hubs -> Messages \cup {None}] /\ curThread' \in [Hubs -> Hubs \cup {None}]
  BY <1>1 DEF TurnType
<1>3. /\ Len(r) = n + 1 /\ n \in Nat
      /\ \A i \in 1 .. n : r[i] = s[i]
      /\ r[n + 1] = Frame(h, m, step)
      /\ \A g \in Hubs : g # h => stack'[g] = stack[g]
  BY <1>2, PushType
<1>4. \A i \in 0 .. n : /\ ShownMsg(r, i) = ShownMsg(s, i)
                        /\ ShownThread(h, r, i) = ShownThread(h, s, i)
  BY <1>3 DEF ShownMsg, ShownThread
<1>5. /\ Restores(h, s) /\ curMsg[h] = ShownMsg(s, n) /\ curThread[h] = ShownThread(h, s, n)
      /\ \A i \in 0 .. n : ShownThread(h, s, i) \in {h, None}
  BY DEF ScopeInv
<1>6. /\ r[n + 1].step = step /\ r[n + 1].msg = m
      /\ r[n + 1].prevMsg = curMsg[h] /\ r[n + 1].prevThread = curThread[h]
  BY <1>3 DEF Frame
<1>7. /\ curMsg'[h] = IF step = "handler" THEN m ELSE curMsg[h]
      /\ curThread'[h] = IF step = "handler" THEN h ELSE curThread[h]
  BY <1>1 DEF TurnType
<1>8. \A g \in Hubs : g # h => curMsg'[g] = curMsg[g] /\ curThread'[g] = curThread[g]
  BY <1>1 DEF TurnType
<1> HIDE DEF s, r, n
<1>9. curMsg'[h] = ShownMsg(r, n + 1) /\ curThread'[h] = ShownThread(h, r, n + 1)
  BY <1>3, <1>6, <1>7 DEF ShownMsg, ShownThread
<1>10. Restores(h, r)
  <2> SUFFICES ASSUME NEW i \in 1 .. n + 1
               PROVE  r[i].prevMsg = ShownMsg(r, i - 1) /\ r[i].prevThread = ShownThread(h, r, i - 1)
    BY <1>3 DEF Restores
  <2>1. CASE i \in 1 .. n
    <3>1. i - 1 \in 0 .. n
      BY <1>3, <2>1
    <3>2. s[i].prevMsg = ShownMsg(s, i - 1) /\ s[i].prevThread = ShownThread(h, s, i - 1)
      BY <1>5, <2>1 DEF Restores, n
    <3> QED BY <1>3, <1>4, <2>1, <3>1, <3>2
  <2>2. CASE i = n + 1
    <3>1. i - 1 = n /\ n \in 0 .. n
      BY <1>3, <2>2
    <3> QED BY <1>4, <1>5, <1>6, <2>2, <3>1
  <2> QED BY <1>3, <2>1, <2>2
<1>11. \A i \in 0 .. n + 1 : ShownThread(h, r, i) \in {h, None}
  <2> TAKE i \in 0 .. n + 1
  <2>1. CASE i \in 0 .. n
    BY <1>4, <1>5, <2>1
  <2>2. CASE i = n + 1
    <3>1. n \in 0 .. n
      BY <1>3
    <3> QED BY <1>5, <1>7, <1>9, <2>2, <3>1
  <2> QED BY <1>3, <2>1, <2>2
<1> QED BY <1>3, <1>8, <1>9, <1>10, <1>11 DEF ScopeInv, r

\* One that ends keeps it: a handler restores what was published before it.
LEMMA ScopePop ==
  ASSUME TurnType, ScopeInv, NEW h \in Hubs, Inside(h),
         stack' = [stack EXCEPT ![h] = SubSeq(@, 1, Len(@) - 1)],
         IF Top(h).step = "handler" THEN EndScope(h) ELSE UNCHANGED curVars
  PROVE  ScopeInv'
<1> DEFINE s == stack[h]
           r == stack'[h]
           n == Len(s)
<1>1. n \in Nat \ {0} /\ Top(h) \in Frames /\ Top(h) = s[n]
  <2>1. s \in Seq(Frames) /\ s # <<>>
    BY DEF TurnType, Inside
  <2>2. n \in Nat \ {0}
    BY <2>1, EmptySeq
  <2> QED BY <2>1, <2>2, ElementOfSeq DEF Top
<1>2. /\ Restores(h, s) /\ curMsg[h] = ShownMsg(s, n) /\ curThread[h] = ShownThread(h, s, n)
      /\ \A i \in 0 .. n : ShownThread(h, s, i) \in {h, None}
  BY DEF ScopeInv
<1>3. /\ curMsg' = [curMsg EXCEPT ![h] = Top(h).prevMsg]
      /\ curThread' = [curThread EXCEPT ![h] = Top(h).prevThread]
  <2>1. CASE Top(h).step = "handler"
    BY <2>1 DEF EndScope
  <2>2. CASE Top(h).step # "handler"
    <3>1. curMsg[h] = Top(h).prevMsg /\ curThread[h] = Top(h).prevThread
      BY <1>1, <1>2, <2>2 DEF ShownMsg, ShownThread
    <3> QED BY <2>2, <3>1 DEF curVars, TurnType
  <2> QED BY <2>1, <2>2
<1>4. curMsg' \in [Hubs -> Messages \cup {None}] /\ curThread' \in [Hubs -> Hubs \cup {None}]
  BY <1>1, <1>3 DEF TurnType, Frames
<1>5. /\ Len(r) = n - 1
      /\ \A i \in 1 .. n - 1 : r[i] = s[i]
      /\ \A g \in Hubs : g # h => stack'[g] = stack[g]
  BY <1>4, PopType
<1>6. \A i \in 0 .. n - 1 : /\ ShownMsg(r, i) = ShownMsg(s, i)
                            /\ ShownThread(h, r, i) = ShownThread(h, s, i)
  BY <1>1, <1>5 DEF ShownMsg, ShownThread
<1>7. curMsg'[h] = s[n].prevMsg /\ curThread'[h] = s[n].prevThread
  BY <1>1, <1>3 DEF TurnType
<1>8. \A g \in Hubs : g # h => curMsg'[g] = curMsg[g] /\ curThread'[g] = curThread[g]
  BY <1>3 DEF TurnType
<1>9. \A i \in 1 .. n : s[i].prevMsg = ShownMsg(s, i - 1) /\ s[i].prevThread = ShownThread(h, s, i - 1)
  BY <1>2 DEF Restores
<1> HIDE DEF s, r, n
<1>10. curMsg'[h] = ShownMsg(r, n - 1) /\ curThread'[h] = ShownThread(h, r, n - 1)
  <2>1. n - 1 \in 0 .. n - 1 /\ n \in 1 .. n
    BY <1>1
  <2> QED BY <1>6, <1>7, <1>9, <2>1
<1>11. Restores(h, r)
  <2> SUFFICES ASSUME NEW i \in 1 .. n - 1
               PROVE  r[i].prevMsg = ShownMsg(r, i - 1) /\ r[i].prevThread = ShownThread(h, r, i - 1)
    BY <1>5 DEF Restores
  <2>1. i \in 1 .. n /\ i - 1 \in 0 .. n - 1
    BY <1>1
  <2> QED BY <1>5, <1>6, <1>9, <2>1
<1>12. \A i \in 0 .. n - 1 : ShownThread(h, r, i) \in {h, None}
  <2> TAKE i \in 0 .. n - 1
  <2>1. i \in 0 .. n
    BY <1>1
  <2> QED BY <1>2, <1>6, <2>1
<1> QED BY <1>5, <1>8, <1>10, <1>11, <1>12 DEF ScopeInv, r

\* Every step keeps it.
LEMMA ScopeNext == TypeInv /\ ScopeInv /\ [Next]_vars => ScopeInv'
<1> SUFFICES ASSUME TypeInv, ScopeInv, [Next]_vars PROVE ScopeInv'
  OBVIOUS
<1>1. CASE UNCHANGED <<stack, curVars>>
  BY <1>1 DEF ScopeInv, curVars
<1>2. ASSUME NEW h \in Hubs, Turn(h) PROVE ScopeInv'
  <2> DEFINE m == Head(inbox[h])
  <2>1. m \in Messages /\ m # None
    BY <1>2, TakeType, NoneAssumption DEF Turn, Deliver, ReportBounce, OnPost, Consume, TypeInv
  <2>2. CASE Deliver(h)
    <3>1. BeginScope(h, m) /\ stack' = [stack EXCEPT ![h] = Append(@, Frame(h, m, "handler"))]
      BY <2>2 DEF Deliver
    <3> HIDE DEF m
    <3> QED BY <2>1, <3>1, ScopePush DEF TypeInv
  <2>3. CASE ReportBounce(h) \/ OnPost(h)
    <3>1. /\ UNCHANGED curVars
          /\ stack' = [stack EXCEPT ![h] = Append(@, Frame(h, m, "callback"))]
      BY <2>3 DEF ReportBounce, OnPost
    <3> HIDE DEF m
    <3> QED BY <2>1, <3>1, ScopePush DEF TypeInv
  <2>4. CASE Consume(h)
    BY <1>1, <2>4 DEF Consume
  <2> QED BY <1>2, <2>2, <2>3, <2>4 DEF Turn
<1>3. ASSUME NEW h \in Hubs, NEW p \in Hubs, MarkPeer(h, p) PROVE ScopeInv'
  <2>1. UNCHANGED curVars /\ stack' = [stack EXCEPT ![h] = Append(@, Frame(h, None, "callback"))]
    BY <1>3 DEF MarkPeer
  <2> QED BY <2>1, ScopePush DEF TypeInv
<1>4. ASSUME NEW h \in Hubs, NEW declines \in BOOLEAN, HandlerReturns(h, declines)
      PROVE  ScopeInv'
  BY <1>4, ScopePop DEF HandlerReturns, TypeInv
<1>5. ASSUME NEW h \in Hubs, CallbackReturns(h) PROVE ScopeInv'
  BY <1>5, ScopePop DEF CallbackReturns, TypeInv
<1>6. ASSUME NEW l \in Links, ConLost(l) \/ Redial(l) PROVE ScopeInv'
  BY <1>1, <1>6 DEF ConLost, Redial
<1>7. ASSUME NEW item \in Menu, Send(item) \/ Post(item) \/ Broadcast(item) PROVE ScopeInv'
  BY <1>1, <1>7 DEF Send, Post, Broadcast
<1>8. ASSUME NEW h \in Hubs, NEW p \in Hubs, BroadcastReturns(h) \/ PumpStops(h) \/ PostNext(h, p)
      PROVE  ScopeInv'
  BY <1>1, <1>8 DEF BroadcastReturns, PumpStops, PostNext
<1> QED BY <1>1, <1>2, <1>3, <1>4, <1>5, <1>6, <1>7, <1>8 DEF Next, vars, curVars

\* GetMsgInfo inside a message handler answers that handler's message, at any
\* depth of pumping inside callbacks, and shows no other thread anything.
THEOREM CurMsgHolds == Spec => []CurMsgIsOwn
<1>1. Init => ScopeInv
  BY EmptySeq DEF Init, ScopeInv, Restores, ShownMsg, ShownThread
<1>2. TypeInv /\ ScopeInv => CurMsgIsOwn
  <2> SUFFICES ASSUME TypeInv, ScopeInv, NEW h \in Hubs, NEW t \in Hubs
               PROVE  /\ t # h => CurMsg(t, h) = None
                      /\ ~Inside(h) => CurMsg(h, h) = None
                      /\ Inside(h) /\ Top(h).step = "handler" => CurMsg(h, h) = Top(h).msg
    BY DEF CurMsgIsOwn
  <2>1. stack[h] \in Seq(Frames) /\ Len(stack[h]) \in Nat
    BY LenProperties DEF TypeInv, TurnType
  <2>2. curThread[h] \in {h, None}
    BY <2>1 DEF ScopeInv
  <2>3. t # h => CurMsg(t, h) = None
    BY <2>2, HubsAssumption DEF CurMsg
  <2>4. ASSUME ~Inside(h) PROVE CurMsg(h, h) = None
    BY <2>4, EmptySeq DEF Inside, ScopeInv, ShownMsg, CurMsg
  <2>5. ASSUME Inside(h), Top(h).step = "handler" PROVE CurMsg(h, h) = Top(h).msg
    <3>1. Len(stack[h]) # 0
      BY <2>1, <2>5, EmptySeq DEF Inside
    <3> QED BY <2>5, <3>1 DEF ScopeInv, ShownMsg, ShownThread, CurMsg, Top
  <2> QED BY <2>3, <2>4, <2>5
<1> QED BY <1>1, <1>2, TypeInit, TypeNext, ScopeNext, PTL DEF Spec

-----------------------------------------------------------------------------
(* Broadcast *)

\* A Broadcast in progress has posted a copy, or has still to, for every peer
\* that stayed up, and has left out nobody it did not fail on.
CastInv ==
  \A h \in Hubs :
    LET cast == call[h] IN
    /\ cast.posted \subseteq cast.ever /\ cast.todo \subseteq cast.ever
    /\ cast.hr = "S_OK" => cast.always \subseteq cast.posted \cup cast.todo
    /\ cast.hr = "S_FALSE" => cast.posted = {} /\ cast.step = "return"
    /\ cast.step # "posting" => cast.todo = {}

LEMMA CastNext == TypeInv /\ CastInv /\ [Next]_vars => CastInv'
<1> SUFFICES ASSUME TypeInv, CastInv, [Next]_vars PROVE CastInv'
  OBVIOUS
<1>1. CASE UNCHANGED call
  BY <1>1 DEF CastInv
<1>2. ASSUME NEW item \in Menu, Broadcast(item) PROVE CastInv'
  <2>1. item.src \in Hubs
    BY MenuAssumption
  <2> QED BY <1>2, <2>1 DEF Broadcast, CastInv, TypeInv, CallType
<1>3. ASSUME NEW h \in Hubs, NEW p \in Hubs, PostNext(h, p) PROVE CastInv'
  <2> DEFINE ok == ~done[h]
  <2>1. call' = [call EXCEPT ![h] = Posted(@, p, ok)] /\ p \in call[h].todo
        /\ call[h].step = "posting"
    BY <1>3 DEF PostNext
  <2>2. call[h] \in Calls /\ call \in [Hubs -> Calls]
    BY DEF TypeInv, CallType
  <2>3. /\ Posted(call[h], p, ok).todo = call[h].todo \ {p}
        /\ Posted(call[h], p, ok).step = IF call[h].todo = {p} THEN "return" ELSE "posting"
        /\ Posted(call[h], p, ok).posted =
             IF ok THEN call[h].posted \cup {p} ELSE call[h].posted
        /\ Posted(call[h], p, ok).hr = IF ok THEN call[h].hr ELSE "failed"
        /\ Posted(call[h], p, ok).always = call[h].always
        /\ Posted(call[h], p, ok).ever = call[h].ever
    BY <2>2 DEF Posted, Calls
  <2> HIDE DEF ok
  <2> QED BY <2>1, <2>2, <2>3 DEF CastInv
<1>4. ASSUME NEW h \in Hubs, NEW p \in Hubs, MarkPeer(h, p) PROVE CastInv'
  BY <1>4 DEF MarkPeer, CastInv, TypeInv, CallType, Calls
<1>5. ASSUME NEW h \in Hubs, BroadcastReturns(h) PROVE CastInv'
  BY <1>5 DEF BroadcastReturns, CastInv, TypeInv, CallType, NoCall
<1>6. ASSUME NEW h \in Hubs, Turn(h) \/ CallbackReturns(h) \/ PumpStops(h)
                             \/ \E declines \in BOOLEAN : HandlerReturns(h, declines)
      PROVE  CastInv'
  BY <1>1, <1>6 DEF Turn, Deliver, ReportBounce, OnPost, Consume, CallbackReturns, PumpStops,
                    HandlerReturns
<1>7. ASSUME NEW item \in Menu, Send(item) \/ Post(item) PROVE CastInv'
  BY <1>1, <1>7 DEF Send, Post
<1>8. ASSUME NEW l \in Links, ConLost(l) \/ Redial(l) PROVE CastInv'
  BY <1>1, <1>8 DEF ConLost, Redial
<1> QED BY <1>1, <1>2, <1>3, <1>4, <1>5, <1>6, <1>7, <1>8 DEF Next, vars

\* What Broadcast answers is true of the copies it posted, whoever comes, goes
\* or stops while it posts them.
THEOREM BroadcastIsTrue == Spec => []BroadcastCovers
<1>1. Init => CastInv
  BY DEF Init, CastInv, NoCall
<1>2. CastInv => BroadcastCovers
  BY DEF CastInv, BroadcastCovers
<1> QED BY <1>1, <1>2, TypeInit, TypeNext, CastNext, PTL DEF Spec

-----------------------------------------------------------------------------
(* Reports: the tree of the hubs *)

\* Levels are numbers.
LEMMA Levels ==
  ASSUME Tree
  PROVE  \E level \in [Hubs -> Nat] : \A h \in Hubs : \A k \in Kids[h] : level[h] < level[k]
<1>1. PICK level \in [Hubs -> 0 .. Cardinality(Hubs)] :
        \A h \in Hubs : \A k \in Kids[h] : level[h] < level[k]
  BY DEF Tree
<1>2. Cardinality(Hubs) \in Nat
  BY HubsAssumption, FS_CardinalityType
<1>3. level \in [Hubs -> Nat]
  BY <1>1, <1>2
<1> QED BY <1>1, <1>3

\* Whom hub q passes a message from s on to.
Onto(kind, s, q) ==
  {p \in Hubs \ {s} : \/ kind = "bcast" /\ p \in Kids[q]
                      \/ kind = "ucast" /\ q \in Kids[p]}
Closed(kind, s, S) == \A q \in S : Onto(kind, s, q) \subseteq S
\* Whom it may still reach from there.
Ahead(kind, s, q) ==
  {p \in Hubs : \A S \in SUBSET Hubs :
                  (Onto(kind, s, q) \subseteq S /\ Closed(kind, s, S)) => p \in S}

\* The hubs ahead include where a hub passes a copy, and are closed.
LEMMA AheadStep ==
  ASSUME NEW kind, NEW s, NEW q \in Hubs
  PROVE  /\ Onto(kind, s, q) \subseteq Ahead(kind, s, q)
         /\ Closed(kind, s, Ahead(kind, s, q))
         /\ \A y \in Onto(kind, s, q) : Ahead(kind, s, y) \subseteq Ahead(kind, s, q)
<1>1. \A x \in Hubs : Onto(kind, s, x) \subseteq Hubs
  BY DEF Onto
<1>2. Onto(kind, s, q) \subseteq Ahead(kind, s, q)
  BY <1>1 DEF Ahead
<1>3. ASSUME NEW x \in Ahead(kind, s, q), NEW z \in Onto(kind, s, x)
      PROVE  z \in Ahead(kind, s, q)
  <2>1. x \in Hubs /\ z \in Hubs
    BY <1>1, <1>3 DEF Ahead
  <2>2. ASSUME NEW S \in SUBSET Hubs, Onto(kind, s, q) \subseteq S, Closed(kind, s, S)
        PROVE  z \in S
    BY <1>3, <2>2 DEF Ahead, Closed
  <2> QED BY <2>1, <2>2 DEF Ahead
<1>4. ASSUME NEW y \in Onto(kind, s, q), NEW z \in Ahead(kind, s, y)
      PROVE  z \in Ahead(kind, s, q)
  <2>1. z \in Hubs
    BY <1>4 DEF Ahead
  <2>2. ASSUME NEW S \in SUBSET Hubs, Onto(kind, s, q) \subseteq S, Closed(kind, s, S)
        PROVE  z \in S
    <3>1. Onto(kind, s, y) \subseteq S
      BY <1>4, <2>2 DEF Closed
    <3> QED BY <1>4, <2>2, <3>1 DEF Ahead
  <2> QED BY <2>1, <2>2 DEF Ahead
<1> QED BY <1>2, <1>3, <1>4 DEF Closed

\* A hub ahead is handed its copy by the first one, or by another hub ahead.
LEMMA AheadFrom ==
  ASSUME NEW kind, NEW s, NEW q \in Hubs, NEW z \in Ahead(kind, s, q)
  PROVE  \E y \in {q} \cup Ahead(kind, s, q) : z \in Onto(kind, s, y)
<1> DEFINE S == {x \in Ahead(kind, s, q) :
                   \E y \in {q} \cup Ahead(kind, s, q) : x \in Onto(kind, s, y)}
<1>1. S \in SUBSET Hubs
  BY DEF Ahead
<1>2. Onto(kind, s, q) \subseteq S
  BY AheadStep
<1>3. Closed(kind, s, S)
  BY AheadStep DEF Closed
<1> QED BY <1>1, <1>2, <1>3 DEF Ahead

\* No copy comes back, the parent is one, and nobody is ahead of himself.
LEMMA NoReturn ==
  ASSUME Tree, NEW kind, NEW s, NEW q \in Hubs
  PROVE  /\ q \notin Ahead(kind, s, q)
         /\ \A y \in Onto(kind, s, q) : q # y /\ q \notin Ahead(kind, s, y)
<1>1. PICK level \in [Hubs -> Nat] : \A h \in Hubs : \A k \in Kids[h] : level[h] < level[k]
  BY Levels
<1> DEFINE Far(x, z) == IF kind = "bcast" THEN level[x] < level[z] ELSE level[z] < level[x]
<1>2. \A x \in Hubs : \A y \in Onto(kind, s, x) : y \in Hubs /\ Far(x, y)
  BY <1>1 DEF Onto
<1>3. \A x, y, z \in Hubs : Far(x, y) /\ Far(y, z) => Far(x, z)
  BY <1>1
<1>4. \A x \in Hubs : ~Far(x, x)
  BY <1>1
<1> HIDE DEF Far
<1>5. ASSUME NEW x \in Hubs PROVE \A z \in Ahead(kind, s, x) : Far(x, z)
  <2> DEFINE S == {z \in Hubs : Far(x, z)}
  <2>1. S \in SUBSET Hubs /\ Onto(kind, s, x) \subseteq S /\ Closed(kind, s, S)
    BY <1>2, <1>3 DEF Closed
  <2> QED BY <2>1 DEF Ahead
<1> QED BY <1>2, <1>3, <1>4, <1>5

\* A broadcast comes to a hub from one other, an upcast goes on to one.
LEMMA OneGiver ==
  ASSUME Tree, NEW s, NEW q \in Hubs
  PROVE  /\ \A x \in Hubs : \A y \in Onto("bcast", s, q) \cap Onto("bcast", s, x) : x = q
         /\ \A y, z \in Onto("ucast", s, q) : y = z
BY DEF Tree, Onto

\* Where the peers of a hub pass its broadcast on to are no peers of it.
LEMMA NoCross ==
  ASSUME Tree, NEW s \in Hubs, NEW p \in Hubs, NEW x \in Hubs,
         <<s, p>> \in Links, <<s, x>> \in Links
  PROVE  p \notin Ahead("bcast", s, x)
<1> SUFFICES ASSUME p \in Ahead("bcast", s, x) PROVE FALSE
  OBVIOUS
<1>1. PICK level \in [Hubs -> Nat] : \A h \in Hubs : \A k \in Kids[h] : level[h] < level[k]
  BY Levels
<1>2. ASSUME NEW q \in Hubs, NEW z \in Ahead("bcast", s, q)
      PROVE  z \in Hubs /\ level[q] < level[z] /\ z # s
  <2> DEFINE S == {y \in Hubs \ {s} : level[q] < level[y]}
  <2>1. S \in SUBSET Hubs /\ Onto("bcast", s, q) \subseteq S /\ Closed("bcast", s, S)
    BY <1>1 DEF Closed, Onto
  <2> QED BY <2>1 DEF Ahead
<1>3. \A y \in Hubs : <<s, y>> \in Links => y \in Kids[s] \/ s \in Kids[y]
  BY DEF Tree
<1>4. PICK y \in {x} \cup Ahead("bcast", s, x) : p \in Onto("bcast", s, y)
  BY AheadFrom
<1>5. y \in Hubs /\ p \in Kids[y] /\ y # s
  BY <1>2, <1>4, LinksAssumption DEF Onto
<1>6. CASE p \in Kids[s]
  BY <1>5, <1>6 DEF Tree
<1>7. CASE s \in Kids[p]
  <2>1. level[p] < level[s] /\ level[x] < level[p]
    BY <1>1, <1>2, <1>7
  <2>2. CASE x \in Kids[s]
    BY <1>1, <2>1, <2>2
  <2>3. CASE s \in Kids[x]
    <3>1. x = p
      BY <1>7, <2>3 DEF Tree
    <3> QED BY <1>1, <2>1, <3>1
  <2> QED BY <1>3, <2>2, <2>3
<1> QED BY <1>3, <1>6, <1>7

-----------------------------------------------------------------------------
(* Reports: what a message tells of what was sent *)

\* What a message that is on its way, or in a callback, at hub h tells of what
\* was sent: a copy is of what was sent, and a bounce is owed to who sent it.
Owed(i, p) == \/ <<i, p>> \in declined /\ ~sent[i].quiet
              \/ <<i, p>> \in unrouted
Genuine(m, h) ==
  /\ m.id \in 1 .. Len(sent) /\ m.dst = h
  /\ m.kind # "exception" => /\ m.kind = sent[m.id].kind /\ m.src = sent[m.id].src
                             /\ m.quiet = sent[m.id].quiet /\ m.of = "none"
  /\ m.kind = "exception" /\ m.of # "exception" =>
       m.dst = sent[m.id].src /\ Owed(m.id, m.src)

BoxOrigin == \A h \in Hubs : \A n \in 1 .. Len(inbox[h]) : Genuine(inbox[h][n], h)
TurnOrigin ==
  \A h \in Hubs : \A n \in 1 .. Len(stack[h]) : \A m \in Messages :
    m = stack[h][n].msg =>
      Genuine(m, h) /\ (stack[h][n].step = "handler" => m.kind # "exception")
CallOrigin ==
  \A h \in Hubs :
    /\ \A p \in peers[h] : <<h, p>> \in Links
    /\ call[h].todo # {} => /\ call[h].id \in 1 .. Len(sent)
                            /\ sent[call[h].id].kind = "bcast" /\ sent[call[h].id].src = h
ToldOrigin ==
  \A h \in Hubs, p \in Peers, i \in Ids :
    reports[<<h, p, i>>] > 0 => i \in 1 .. Len(sent) /\ sent[i].src = h /\ Owed(i, p)
OriginInv == BoxOrigin /\ TurnOrigin /\ CallOrigin /\ ToldOrigin

\* What has been sent stays as it was, and so do the declines and lost routes.
Remembers ==
  /\ Len(sent) \in Nat /\ Len(sent') \in Nat /\ Len(sent) <= Len(sent')
  /\ \A i \in 1 .. Len(sent) : sent'[i] = sent[i]
  /\ declined \subseteq declined' /\ unrouted \subseteq unrouted'

\* Every step remembers.
LEMMA NextRemembers == TypeInv /\ [Next]_vars => Remembers
<1> SUFFICES ASSUME TypeInv, [Next]_vars PROVE Remembers
  OBVIOUS
<1>1. Len(sent) \in Nat
  BY LenProperties DEF TypeInv, CallType
<1>2. ASSUME NEW item \in Menu, sent' = Append(sent, item)
      PROVE  /\ Len(sent') \in Nat /\ Len(sent) <= Len(sent')
             /\ \A i \in 1 .. Len(sent) : sent'[i] = sent[i]
  <2>1. Len(sent') = Len(sent) + 1 /\ \A i \in 1 .. Len(sent) : sent'[i] = sent[i]
    BY <1>2, AppendProperties DEF TypeInv, CallType
  <2> QED BY <1>1, <2>1
<1>3. ASSUME NEW item \in Menu, Send(item) \/ Post(item) \/ Broadcast(item) PROVE Remembers
  BY <1>1, <1>2, <1>3 DEF Send, Post, Broadcast, PostP2PeerMsg, mailVars, Remembers
<1>4. ASSUME NEW h \in Hubs, NEW declines \in BOOLEAN, HandlerReturns(h, declines)
      PROVE  Remembers
  BY <1>1, <1>4 DEF HandlerReturns, PostP2PeerMsg, Remembers
<1>5. ASSUME NEW h \in Hubs, NEW p \in Hubs,
             PostNext(h, p) \/ CallbackReturns(h) \/ Turn(h)
      PROVE  Remembers
  BY <1>1, <1>5 DEF PostNext, CallbackReturns, Turn, Deliver, ReportBounce, OnPost, Consume,
                    PostP2PeerMsg, mailVars, Remembers
<1>6. ASSUME NEW h \in Hubs, CallbackReturns(h) \/ Turn(h) PROVE Remembers
  BY <1>5, <1>6
<1>7. CASE UNCHANGED <<sent, declined, unrouted>>
  BY <1>1, <1>7 DEF Remembers
<1> QED BY <1>3, <1>4, <1>5, <1>6, <1>7
        DEF Next, vars, mailVars, ConLost, Redial, BroadcastReturns, PumpStops, MarkPeer

\* So what is genuine stays so, and what is owed stays owed.
LEMMA StaysGenuine ==
  ASSUME Remembers, NEW m, NEW h, Genuine(m, h)
  PROVE  Genuine(m, h)'
BY DEF Remembers, Genuine, Owed

LEMMA StaysOwed ==
  ASSUME Remembers, NEW i \in 1 .. Len(sent), NEW p, Owed(i, p)
  PROVE  Owed(i, p)' /\ i \in 1 .. Len(sent') /\ sent'[i] = sent[i]
BY DEF Remembers, Owed

\* What a post leaves in the inboxes: what was there, and at most one arrival
\* in each.
LEMMA PostBox ==
  ASSUME NEW box \in [Hubs -> Seq(Messages)], NEW h \in Hubs, NEW ms \in SUBSET Messages,
         PostP2PeerMsg(box, h, ms), NEW d \in Hubs, NEW n \in 1 .. Len(inbox'[d])
  PROVE  /\ Len(box[d]) \in Nat
         /\ \/ n \in 1 .. Len(box[d]) /\ inbox'[d][n] = box[d][n]
            \/ n = Len(box[d]) + 1 /\ \E m \in ms : /\ inbox'[d][n] = Lands(h, m)[2]
                                                    /\ Lands(h, m)[1] = d
<1> DEFINE l == CHOOSE x \in Arrivals(h, ms) : x[1] = d
<1>1. box[d] \in Seq(Messages) /\ Len(box[d]) \in Nat
  BY LenProperties
<1>2. inbox'[d] = IF \E x \in Arrivals(h, ms) : x[1] = d THEN Append(box[d], l[2]) ELSE box[d]
  BY DEF PostP2PeerMsg, Deliveries
<1>3. CASE \E x \in Arrivals(h, ms) : x[1] = d
  <2>1. l \in Arrivals(h, ms) /\ l[1] = d
    BY <1>3
  <2>2. PICK m \in ms : l = Lands(h, m)
    BY <2>1 DEF Arrivals
  <2>3. inbox'[d] = Append(box[d], l[2])
    BY <1>2, <1>3
  <2> HIDE DEF l
  <2>5. m \in Messages /\ l[2] \in Messages
    BY <2>2, ExceptionType DEF Lands, Messages
  <2>4. /\ Len(inbox'[d]) = Len(box[d]) + 1
        /\ \A k \in 1 .. Len(box[d]) : inbox'[d][k] = box[d][k]
        /\ inbox'[d][Len(box[d]) + 1] = l[2]
    BY <1>1, <2>3, <2>5, AppendProperties
  <2> QED BY <1>1, <2>1, <2>2, <2>4
<1>4. CASE ~\E x \in Arrivals(h, ms) : x[1] = d
  BY <1>1, <1>2, <1>4
<1> QED BY <1>3, <1>4

\* What a pump that takes its first message leaves.
LEMMA TakeBox ==
  ASSUME MailType, NEW h \in Hubs, TakeHead(h)
  PROVE  /\ 1 \in 1 .. Len(inbox[h]) /\ inbox[h][1] = Head(inbox[h])
         /\ \A n \in 1 .. Len(inbox'[h]) : /\ n + 1 \in 1 .. Len(inbox[h])
                                           /\ inbox'[h][n] = inbox[h][n + 1]
         /\ \A d \in Hubs : d # h => inbox'[d] = inbox[d]
<1>1. inbox[h] \in Seq(Messages) /\ inbox[h] # <<>>
  BY DEF MailType, TakeHead
<1>2. /\ Len(inbox[h]) \in Nat \ {0} /\ Head(inbox[h]) = inbox[h][1]
      /\ Len(Tail(inbox[h])) = Len(inbox[h]) - 1
      /\ \A n \in 1 .. Len(Tail(inbox[h])) : Tail(inbox[h])[n] = inbox[h][n + 1]
  BY <1>1, HeadTailProperties, EmptySeq, LenProperties
<1>3. inbox' = [inbox EXCEPT ![h] = Tail(inbox[h])]
  BY DEF TakeHead
<1>4. inbox'[h] = Tail(inbox[h]) /\ \A d \in Hubs : d # h => inbox'[d] = inbox[d]
  BY <1>3 DEF MailType
<1> QED BY <1>2, <1>4

\* Posting genuine messages leaves genuine ones: the exception that comes back
\* for want of a route is owed to the hub it comes back to.
LEMMA PostOrigin ==
  ASSUME TypeInv, Remembers, BoxOrigin, NEW h \in Hubs, NEW ms \in SUBSET Messages,
         PostP2PeerMsg(inbox, h, ms),
         \A m \in ms : /\ Genuine(m, m.dst)'
                       /\ m.kind # "exception" => m.src = h \/ Routable(h, m.dst)
  PROVE  BoxOrigin'
<1>1. ASSUME NEW m \in ms, NEW d \in Hubs, NEW x, x = Lands(h, m)[2], d = Lands(h, m)[1]
      PROVE  Genuine(x, d)'
  <2>1. CASE Routable(h, m.dst)
    <3>1. x = m /\ d = m.dst
      BY <1>1, <2>1 DEF Lands
    <3> QED BY <3>1
  <2>2. CASE ~Routable(h, m.dst) /\ m.kind = "exception"
    <3>1. Lands(h, m)[1] = None
      BY <2>2 DEF Lands
    <3> QED BY <1>1, <3>1, HubsAssumption
  <2>3. CASE ~Routable(h, m.dst) /\ m.kind # "exception"
    <3>1. d = h /\ x = Exception(m, m.dst)
      BY <1>1, <2>3 DEF Lands
    <3>2. <<m.id, m.dst>> \in unrouted'
      BY <2>3 DEF PostP2PeerMsg
    <3>3. m.src = h /\ Genuine(m, m.dst)'
      BY <2>3
    <3> QED BY <2>3, <3>1, <3>2, <3>3 DEF Genuine, Owed, Exception
  <2> QED BY <2>1, <2>2, <2>3
<1>2. inbox \in [Hubs -> Seq(Messages)]
  BY DEF TypeInv, MailType
<1> SUFFICES ASSUME NEW d \in Hubs, NEW n \in 1 .. Len(inbox'[d]), NEW x, x = inbox'[d][n]
             PROVE  Genuine(x, d)'
  BY DEF BoxOrigin, Genuine, Owed
<1>3. CASE n \in 1 .. Len(inbox[d]) /\ inbox'[d][n] = inbox[d][n]
  <2>1. Genuine(x, d)
    BY <1>3 DEF BoxOrigin
  <2> QED BY <2>1, StaysGenuine
<1>4. ASSUME NEW m \in ms, inbox'[d][n] = Lands(h, m)[2], Lands(h, m)[1] = d
      PROVE  Genuine(x, d)'
  BY <1>1, <1>4
<1>5. \/ n \in 1 .. Len(inbox[d]) /\ inbox'[d][n] = inbox[d][n]
      \/ \E m \in ms : inbox'[d][n] = Lands(h, m)[2] /\ Lands(h, m)[1] = d
  BY ONLY <1>2, PostBox, PostP2PeerMsg(inbox, h, ms), h \in Hubs, ms \in SUBSET Messages,
          d \in Hubs, n \in 1 .. Len(inbox'[d])
<1> QED BY <1>3, <1>4, <1>5

\* What has been sent is told about nothing that is not owed.
LEMMA ToldKeeps ==
  ASSUME TypeInv, Remembers, ToldOrigin, reports' = reports PROVE ToldOrigin'
<1> SUFFICES ASSUME NEW h \in Hubs, NEW p \in Peers, NEW i \in Ids, reports[<<h, p, i>>] > 0
             PROVE  i \in 1 .. Len(sent') /\ sent'[i].src = h /\ Owed(i, p)'
  BY DEF ToldOrigin
<1>1. i \in 1 .. Len(sent) /\ sent[i].src = h /\ Owed(i, p)
  BY DEF ToldOrigin
<1> QED BY <1>1, StaysOwed

\* What is in progress, queued or posted stays genuine.
LEMMA TurnOriginKeeps ==
  ASSUME Remembers, TurnOrigin, stack' = stack PROVE TurnOrigin'
<1> SUFFICES ASSUME NEW h \in Hubs, NEW n \in 1 .. Len(stack[h]), NEW x \in Messages,
                    x = stack[h][n].msg
             PROVE  Genuine(x, h)' /\ (stack[h][n].step = "handler" => x.kind # "exception")
  BY DEF TurnOrigin
<1> QED BY StaysGenuine DEF TurnOrigin

LEMMA BoxOriginKeeps ==
  ASSUME Remembers, BoxOrigin, inbox' = inbox PROVE BoxOrigin'
<1> SUFFICES ASSUME NEW h \in Hubs, NEW n \in 1 .. Len(inbox[h]), NEW x, x = inbox[h][n]
             PROVE  Genuine(x, h)'
  BY DEF BoxOrigin, Genuine, Owed
<1> QED BY StaysGenuine DEF BoxOrigin

LEMMA CallOriginKeeps ==
  ASSUME Remembers, CallOrigin, peers' = peers, call' = call PROVE CallOrigin'
BY DEF Remembers, CallOrigin

\* A callback that begins on a genuine message, and one that ends.
LEMMA PushOrigin ==
  ASSUME TurnType, TurnOrigin, Remembers, NEW h \in Hubs, NEW m \in Messages \cup {None},
         NEW step \in {"handler", "callback"}, step = "handler" => m # None,
         stack' = [stack EXCEPT ![h] = Append(@, Frame(h, m, step))],
         curMsg' \in [Hubs -> Messages \cup {None}], curThread' \in [Hubs -> Hubs \cup {None}],
         m # None => Genuine(m, h), step = "handler" => m.kind # "exception"
  PROVE  TurnOrigin'
<1>1. /\ Len(stack'[h]) = Len(stack[h]) + 1 /\ Len(stack[h]) \in Nat
      /\ \A i \in 1 .. Len(stack[h]) : stack'[h][i] = stack[h][i]
      /\ stack'[h][Len(stack[h]) + 1] = Frame(h, m, step)
      /\ \A g \in Hubs : g # h => stack'[g] = stack[g]
  BY PushType
<1>2. Frame(h, m, step).msg = m /\ Frame(h, m, step).step = step
  BY DEF Frame
<1>3. \A g \in Hubs : \A n \in 1 .. Len(stack'[g]) :
        \/ n \in 1 .. Len(stack[g]) /\ stack'[g][n] = stack[g][n]
        \/ g = h /\ stack'[g][n] = Frame(h, m, step)
  BY <1>1
<1> SUFFICES ASSUME NEW g \in Hubs, NEW n \in 1 .. Len(stack'[g]), NEW x \in Messages,
                    x = stack'[g][n].msg
             PROVE  Genuine(x, g)' /\ (stack'[g][n].step = "handler" => x.kind # "exception")
  BY DEF TurnOrigin
<1>4. Genuine(x, g) /\ (stack'[g][n].step = "handler" => x.kind # "exception")
  BY <1>2, <1>3, NoneAssumption DEF TurnOrigin
<1> QED BY <1>4, StaysGenuine

LEMMA PopOrigin ==
  ASSUME TurnType, TurnOrigin, Remembers, NEW h \in Hubs, Inside(h),
         stack' = [stack EXCEPT ![h] = SubSeq(@, 1, Len(@) - 1)],
         curMsg' \in [Hubs -> Messages \cup {None}], curThread' \in [Hubs -> Hubs \cup {None}]
  PROVE  TurnOrigin'
<1>1. /\ Len(stack'[h]) = Len(stack[h]) - 1 /\ Len(stack[h]) \in Nat \ {0}
      /\ \A i \in 1 .. Len(stack[h]) - 1 : stack'[h][i] = stack[h][i]
      /\ \A g \in Hubs : g # h => stack'[g] = stack[g]
  BY PopType
<1>2. \A g \in Hubs : \A n \in 1 .. Len(stack'[g]) :
        n \in 1 .. Len(stack[g]) /\ stack'[g][n] = stack[g][n]
  BY <1>1
<1> SUFFICES ASSUME NEW g \in Hubs, NEW n \in 1 .. Len(stack'[g]), NEW x \in Messages,
                    x = stack'[g][n].msg
             PROVE  Genuine(x, g)' /\ (stack'[g][n].step = "handler" => x.kind # "exception")
  BY DEF TurnOrigin
<1>3. Genuine(x, g) /\ (stack'[g][n].step = "handler" => x.kind # "exception")
  BY <1>2 DEF TurnOrigin
<1> QED BY <1>3, StaysGenuine

\* A program sends, or posts, what it sends.
LEMMA SendOrigin ==
  ASSUME TypeInv, Remembers, OriginInv, NEW item \in Menu, Send(item) \/ Post(item)
  PROVE  OriginInv'
<1>1. /\ Len(sent) < MaxSends /\ sent' = Append(sent, item)
      /\ UNCHANGED <<netVars, curVars, stack, done, call, declined, reports>>
  BY DEF Send, Post
<1>2. /\ Fresh(item) \in Messages /\ item.src \in Hubs /\ item.dst \in Peers
      /\ Len(sent) + 1 \in Ids
  BY <1>1, FreshType
<1>3. Len(sent') = Len(sent) + 1 /\ Len(sent) \in Nat /\ sent'[Len(sent) + 1] = item
  BY <1>1, AppendProperties, LenProperties DEF TypeInv, CallType
<1>4. BoxOrigin'
  <2>1. ASSUME NEW m \in Messages, m = [Fresh(item) EXCEPT !.dst = m.dst], item.kind # "exception",
               PostP2PeerMsg(inbox, item.src, {m})
        PROVE  BoxOrigin'
    <3>1. /\ m.id = Len(sent) + 1 /\ m.kind = item.kind /\ m.src = item.src
          /\ m.quiet = item.quiet /\ m.of = "none"
      BY <2>1 DEF Fresh
    <3>2. Genuine(m, m.dst)' /\ m.src = item.src
      BY <1>3, <2>1, <3>1 DEF Genuine
    <3> QED BY <1>2, <2>1, <3>2, PostOrigin DEF OriginInv
  <2>2. CASE Send(item)
    <3>1. Fresh(item) = [Fresh(item) EXCEPT !.dst = Fresh(item).dst]
      BY DEF Fresh
    <3> QED BY <1>2, <2>1, <2>2, <3>1 DEF Send
  <2>3. CASE Post(item)
    <3> DEFINE m == [Fresh(item) EXCEPT !.dst = item.src]
    <3>1. m \in Messages
      BY <1>2, CopyType DEF Peers
    <3>2. m = [Fresh(item) EXCEPT !.dst = m.dst]
      BY DEF Fresh
    <3>3. item.kind # "exception" /\ PostP2PeerMsg(inbox, item.src, {m})
      BY <2>3 DEF Post
    <3> HIDE DEF m
    <3> QED BY <2>1, <3>1, <3>2, <3>3
  <2> QED BY <2>2, <2>3
<1> QED BY <1>1, <1>4, TurnOriginKeeps, CallOriginKeeps, ToldKeeps DEF OriginInv, netVars

\* A Broadcast begins with linked peers.
LEMMA BroadcastOrigin ==
  ASSUME TypeInv, Remembers, OriginInv, NEW item \in Menu, Broadcast(item)
  PROVE  OriginInv'
<1>1. Len(sent') = Len(sent) + 1 /\ Len(sent) \in Nat /\ sent'[Len(sent) + 1] = item
  BY AppendProperties, LenProperties DEF Broadcast, TypeInv, CallType
<1>2. /\ item.src \in Hubs /\ item.kind = "bcast" /\ peers' = peers
      /\ call'[item.src].id = Len(sent) + 1
      /\ \A h \in Hubs : h # item.src => call'[h] = call[h]
  BY MenuAssumption DEF Broadcast, netVars, TypeInv, CallType
<1>3. CallOrigin'
  <2> SUFFICES ASSUME NEW h \in Hubs
               PROVE  /\ \A p \in peers[h] : <<h, p>> \in Links
                      /\ call'[h].todo # {} => /\ call'[h].id \in 1 .. Len(sent')
                                               /\ sent'[call'[h].id].kind = "bcast"
                                               /\ sent'[call'[h].id].src = h
    BY <1>2 DEF CallOrigin
  <2>1. CASE h = item.src
    BY <1>1, <1>2, <2>1 DEF OriginInv, CallOrigin
  <2>2. CASE h # item.src
    BY <1>1, <1>2, <2>2 DEF OriginInv, CallOrigin, Remembers
  <2> QED BY <2>1, <2>2
<1> QED BY <1>3, TurnOriginKeeps, BoxOriginKeeps, ToldKeeps DEF OriginInv, Broadcast, mailVars

\* A copy of it is of what was sent.
LEMMA PostNextOrigin ==
  ASSUME TypeInv, Remembers, OriginInv, NEW h \in Hubs, NEW p \in Hubs, PostNext(h, p)
  PROVE  OriginInv'
<1> DEFINE i == call[h].id
           m == [kind |-> "bcast", id |-> i, src |-> h, dst |-> p,
                 quiet |-> sent[i].quiet, of |-> "none"]
<1>1. i \in 1 .. Len(sent) /\ sent[i].kind = "bcast" /\ sent[i].src = h /\ sent' = sent
  BY DEF OriginInv, CallOrigin, PostNext
<1>2. sent[i] \in Menu /\ i \in Ids
  BY <1>1, ElementOfSeq, LenProperties, BoundsAssumption DEF TypeInv, CallType, Ids
<1>3. m \in Messages
  BY <1>2, MenuAssumption DEF Messages, SendKinds, CastKinds, Peers
<1>4. BoxOrigin'
  <2>1. CASE done[h]
    BY <2>1, BoxOriginKeeps DEF PostNext, mailVars, OriginInv
  <2>2. CASE ~done[h]
    <3>1. PostP2PeerMsg(inbox, h, {m})
      BY <2>2 DEF PostNext
    <3>2. PICK x \in Messages : x = m
      BY <1>3
    <3>3. Genuine(x, x.dst)' /\ x.src = h
      BY <1>1, <3>2 DEF Genuine
    <3> HIDE DEF m
    <3> QED BY <3>1, <3>2, <3>3, PostOrigin DEF OriginInv
  <2> QED BY <2>1, <2>2
<1>5. CallOrigin'
  <2> DEFINE ok == ~done[h]
  <2>1. call' = [call EXCEPT ![h] = Posted(call[h], p, ok)] /\ peers' = peers
    BY DEF PostNext, netVars
  <2> HIDE DEF ok
  <2>2. call[h] \in Calls
    BY DEF TypeInv, CallType
  <2>3. /\ Posted(call[h], p, ok).todo \subseteq call[h].todo
        /\ Posted(call[h], p, ok).id = call[h].id
    BY <2>2 DEF Posted, Calls
  <2> QED BY <1>1, <2>1, <2>3 DEF OriginInv, CallOrigin, TypeInv, CallType
<1> QED BY <1>4, <1>5, TurnOriginKeeps, ToldKeeps DEF OriginInv, PostNext

\* A pump hands on what was queued, and reports what is owed.
LEMMA TurnsOrigin ==
  ASSUME TypeInv, Remembers, OriginInv, NEW h \in Hubs, Turn(h)
  PROVE  OriginInv'
<1> DEFINE m == Head(inbox[h])
<1>1. TakeHead(h) /\ UNCHANGED <<netVars, call, sent>>
  BY DEF Turn, Deliver, ReportBounce, OnPost, Consume
<1>2. m \in Messages /\ m # None
  BY <1>1, TakeType, NoneAssumption DEF TypeInv
<1>3. /\ 1 \in 1 .. Len(inbox[h]) /\ inbox[h][1] = m
      /\ \A n \in 1 .. Len(inbox'[h]) : /\ n + 1 \in 1 .. Len(inbox[h])
                                        /\ inbox'[h][n] = inbox[h][n + 1]
      /\ \A d \in Hubs : d # h => inbox'[d] = inbox[d]
  BY <1>1, TakeBox DEF TypeInv
<1>4. Genuine(m, h)
  BY <1>3 DEF OriginInv, BoxOrigin
<1> HIDE DEF m
<1>5. BoxOrigin'
  <2> SUFFICES ASSUME NEW d \in Hubs, NEW n \in 1 .. Len(inbox'[d]), NEW x, x = inbox'[d][n]
               PROVE  Genuine(x, d)'
    BY DEF BoxOrigin, Genuine, Owed
  <2>1. Genuine(x, d)
    BY <1>3 DEF OriginInv, BoxOrigin
  <2> QED BY <2>1, StaysGenuine
<1>6. TurnOrigin'
  <2>1. CASE Deliver(h)
    <3>1. /\ curMsg' \in [Hubs -> Messages \cup {None}]
          /\ curThread' \in [Hubs -> Hubs \cup {None}]
          /\ stack' = [stack EXCEPT ![h] = Append(@, Frame(h, m, "handler"))]
          /\ m.kind # "exception"
      BY <1>2, <2>1 DEF Deliver, BeginScope, TypeInv, TurnType, m, IsDelivered, CastKinds
    <3> QED BY <1>2, <1>4, <3>1, PushOrigin DEF TypeInv, OriginInv
  <2>2. CASE ReportBounce(h) \/ OnPost(h)
    <3>1. /\ curMsg' \in [Hubs -> Messages \cup {None}]
          /\ curThread' \in [Hubs -> Hubs \cup {None}]
          /\ stack' = [stack EXCEPT ![h] = Append(@, Frame(h, m, "callback"))]
      BY <2>2 DEF ReportBounce, OnPost, TypeInv, TurnType, m, curVars
    <3> QED BY <1>2, <1>4, <3>1, PushOrigin DEF TypeInv, OriginInv
  <2>3. CASE Consume(h)
    BY <2>3, TurnOriginKeeps DEF Consume, OriginInv
  <2> QED BY <2>1, <2>2, <2>3 DEF Turn
<1>7. ToldOrigin'
  <2>1. CASE reports' = reports
    BY <2>1, ToldKeeps DEF OriginInv
  <2>2. CASE ReportBounce(h)
    <3>1. /\ reports' = [reports EXCEPT ![<<h, m.src, m.id>>] = @ + 1]
          /\ m.kind = "exception" /\ m.of # "exception"
      BY <2>2 DEF ReportBounce, m, IsReported
    <3>2. m.id \in 1 .. Len(sent) /\ sent[m.id].src = h /\ Owed(m.id, m.src)
      BY <1>4, <3>1 DEF Genuine
    <3> SUFFICES ASSUME NEW g \in Hubs, NEW p \in Peers, NEW i \in Ids, reports'[<<g, p, i>>] > 0
                 PROVE  i \in 1 .. Len(sent') /\ sent'[i].src = g /\ Owed(i, p)'
      BY DEF ToldOrigin
    <3>3. i \in 1 .. Len(sent) /\ sent[i].src = g /\ Owed(i, p)
      <4>1. CASE g = h /\ p = m.src /\ i = m.id
        BY <3>2, <4>1
      <4>2. CASE ~(g = h /\ p = m.src /\ i = m.id)
        <5>1. reports'[<<g, p, i>>] = reports[<<g, p, i>>]
          BY <3>1, <4>2 DEF TypeInv, RestType
        <5> QED BY <5>1 DEF OriginInv, ToldOrigin
      <4> QED BY <4>1, <4>2
    <3> QED BY <3>3, StaysOwed
  <2> QED BY <2>1, <2>2 DEF Turn, Deliver, OnPost, Consume
<1> QED BY <1>1, <1>5, <1>6, <1>7, CallOriginKeeps DEF OriginInv, netVars

\* A peer that is up is linked.
LEMMA MarkOrigin ==
  ASSUME TypeInv, Remembers, OriginInv, NEW h \in Hubs, NEW p \in Hubs, MarkPeer(h, p)
  PROVE  OriginInv'
<1>1. CallOrigin'
  <2>1. \A g \in Hubs : call'[g].id = call[g].id /\ call'[g].todo = call[g].todo
    BY DEF MarkPeer, TypeInv, CallType, Calls
  <2>2. \A g \in Hubs : \A q \in peers'[g] : q \in peers[g] \/ <<g, q>> \in conn
    BY DEF MarkPeer, TypeInv, RestType
  <2>3. conn \subseteq Links /\ sent' = sent
    BY DEF TypeInv, RestType, MarkPeer
  <2> QED BY <2>1, <2>2, <2>3 DEF OriginInv, CallOrigin
<1>2. TurnOrigin'
  <2>1. /\ curMsg' \in [Hubs -> Messages \cup {None}] /\ curThread' \in [Hubs -> Hubs \cup {None}]
        /\ stack' = [stack EXCEPT ![h] = Append(@, Frame(h, None, "callback"))]
    BY DEF MarkPeer, TypeInv, TurnType, curVars
  <2> QED BY <2>1, PushOrigin DEF TypeInv, OriginInv
<1> QED BY <1>1, <1>2, BoxOriginKeeps, ToldKeeps DEF OriginInv, MarkPeer, mailVars

\* The message a handler returns from.
LEMMA HandlerMsg ==
  ASSUME TypeInv, OriginInv, NEW h \in Hubs, NEW declines \in BOOLEAN,
         HandlerReturns(h, declines), NEW m, m = Top(h).msg
  PROVE  /\ m \in Messages /\ Genuine(m, h) /\ m.kind # "exception"
         /\ Inside(h) /\ Len(stack[h]) \in Nat \ {0}
         /\ stack[h][Len(stack[h])].step = "handler" /\ stack[h][Len(stack[h])].msg = m
         /\ curMsg' \in [Hubs -> Messages \cup {None}] /\ curThread' \in [Hubs -> Hubs \cup {None}]
<1>1. Inside(h) /\ Top(h).step = "handler"
  BY DEF HandlerReturns
<1>2. Len(stack[h]) \in Nat \ {0} /\ Top(h) \in Frames
  BY <1>1, EmptySeq, ElementOfSeq, LenProperties DEF TypeInv, TurnType, Inside, Top
<1>3. curMsg' \in [Hubs -> Messages \cup {None}] /\ curThread' \in [Hubs -> Hubs \cup {None}]
  BY <1>2 DEF HandlerReturns, EndScope, TypeInv, TurnType, Frames
<1>4. m \in Messages
  BY <1>1, <1>2 DEF TypeInv, TurnType, Top, Frames
<1>5. Genuine(m, h) /\ m.kind # "exception"
  BY <1>1, <1>2, <1>4 DEF OriginInv, TurnOrigin, Top
<1>6. stack[h][Len(stack[h])].step = "handler" /\ stack[h][Len(stack[h])].msg = m
  BY <1>1, <1>2 DEF Top
<1> QED BY <1>1, <1>2, <1>3, <1>4, <1>5, <1>6

\* A copy that is relayed, or the bounce of a decline, is genuine.
LEMMA HandlerOrigin ==
  ASSUME TypeInv, Remembers, OriginInv, NEW h \in Hubs, NEW declines \in BOOLEAN,
         HandlerReturns(h, declines)
  PROVE  OriginInv'
<1>1. PICK m : m = Top(h).msg
  OBVIOUS
<1>2. /\ m \in Messages /\ Genuine(m, h) /\ m.kind # "exception" /\ Inside(h)
      /\ curMsg' \in [Hubs -> Messages \cup {None}] /\ curThread' \in [Hubs -> Hubs \cup {None}]
  BY <1>1, HandlerMsg
<1>3. /\ PostP2PeerMsg(inbox, h, AfterHandler(h, m, declines))
      /\ declines => <<m.id, h>> \in declined'
      /\ UNCHANGED <<netVars, call, sent, reports>>
  BY <1>1 DEF HandlerReturns
<1>4. ASSUME NEW x \in AfterHandler(h, m, declines)
      PROVE  Genuine(x, x.dst)' /\ (x.kind # "exception" => x.src = h \/ Routable(h, x.dst))
  <2>1. CASE x \in Relayed(h, m)
    <3>1. PICK p \in Hubs : x = [m EXCEPT !.dst = p] /\ <<h, p>> \in conn
      BY <2>1, LinksAssumption DEF Relayed
    <3>2. /\ x.id = m.id /\ x.kind = m.kind /\ x.src = m.src /\ x.quiet = m.quiet
          /\ x.of = m.of /\ x.dst = p
      BY <3>1 DEF Messages
    <3> QED BY <1>2, <1>3, <3>1, <3>2 DEF Genuine, Routable
  <2>2. CASE declines /\ ~m.quiet /\ x = Exception(m, h)
    BY <1>2, <1>3, <2>2 DEF Genuine, Owed, Exception
  <2> QED BY <1>4, <2>1, <2>2 DEF AfterHandler
<1>5. BoxOrigin'
  BY <1>2, <1>3, <1>4, AfterHandlerType, PostOrigin DEF OriginInv
<1>6. TurnOrigin'
  BY <1>2, PopOrigin DEF HandlerReturns, TypeInv, OriginInv
<1> QED BY <1>3, <1>5, <1>6, CallOriginKeeps, ToldKeeps DEF OriginInv, netVars

\* The bounce of a bounce is genuine.
LEMMA CallbackOrigin ==
  ASSUME TypeInv, Remembers, OriginInv, NEW h \in Hubs, CallbackReturns(h)
  PROVE  OriginInv'
<1>1. Inside(h) /\ UNCHANGED <<netVars, curVars, call, sent, reports>>
  BY DEF CallbackReturns
<1>2. /\ TurnType' /\ Len(stack[h]) \in Nat \ {0} /\ Top(h) \in Frames
      /\ curMsg' \in [Hubs -> Messages \cup {None}] /\ curThread' \in [Hubs -> Hubs \cup {None}]
  BY <1>1, PopType DEF CallbackReturns, TypeInv, TurnType, curVars
<1>3. PICK m \in Messages \cup {None} : m = Top(h).msg
  BY <1>2 DEF Frames
<1>4. m # None => Genuine(m, h)
  BY <1>2, <1>3 DEF OriginInv, TurnOrigin, Top
<1>5. PostP2PeerMsg(inbox, h, Further(h, m))
  BY <1>3 DEF CallbackReturns
<1>6. ASSUME NEW x \in Further(h, m)
      PROVE  Genuine(x, x.dst)' /\ x.kind = "exception"
  <2>1. x = Exception(m, h) /\ m.kind = "exception" /\ Genuine(m, h)
    BY <1>4, <1>6 DEF Further
  <2> QED BY <1>1, <2>1 DEF Genuine, Owed, Exception
<1>7. BoxOrigin'
  BY <1>5, <1>6, FurtherType, PostOrigin DEF OriginInv
<1>8. TurnOrigin'
  BY <1>1, <1>2, PopOrigin DEF CallbackReturns, TypeInv, OriginInv
<1> QED BY <1>1, <1>7, <1>8, CallOriginKeeps, ToldKeeps DEF OriginInv, netVars

\* Every step keeps the origins.
LEMMA OriginNext == TypeInv /\ CastInv /\ OriginInv /\ [Next]_vars => OriginInv'
<1> SUFFICES ASSUME TypeInv, CastInv, OriginInv, [Next]_vars PROVE OriginInv'
  OBVIOUS
<1>1. Remembers
  BY NextRemembers
<1>2. ASSUME NEW l \in Links, ConLost(l) \/ Redial(l) PROVE OriginInv'
  BY <1>1, <1>2, BoxOriginKeeps, TurnOriginKeeps, CallOriginKeeps, ToldKeeps
     DEF ConLost, Redial, OriginInv, mailVars
<1>3. ASSUME NEW h \in Hubs, BroadcastReturns(h) PROVE OriginInv'
  <2>1. CallOrigin'
    BY <1>3 DEF BroadcastReturns, OriginInv, CallOrigin, NoCall, netVars, TypeInv, CallType
  <2> QED BY <1>1, <1>3, <2>1, BoxOriginKeeps, TurnOriginKeeps, ToldKeeps
          DEF BroadcastReturns, OriginInv, mailVars
<1>4. CASE UNCHANGED <<netVars, mailVars, stack, call, sent, declined, reports>>
  BY <1>1, <1>4, BoxOriginKeeps, TurnOriginKeeps, CallOriginKeeps, ToldKeeps
     DEF OriginInv, mailVars, netVars
<1>5. ASSUME NEW h \in Hubs, PumpStops(h) PROVE OriginInv'
  BY <1>4, <1>5 DEF PumpStops
<1> QED BY <1>1, <1>2, <1>3, <1>4, <1>5, SendOrigin, BroadcastOrigin, PostNextOrigin, TurnsOrigin,
           MarkOrigin, HandlerOrigin, CallbackOrigin DEF Next, vars

-----------------------------------------------------------------------------
(* Reports: once about each peer *)

\* A message on its way that is message i for p, or a bounce of it about p
\* that is still to be reported.
Carries(m, i, p) ==
  /\ m.id = i /\ m.of # "exception"
  /\ p = IF m.kind = "exception" THEN m.src ELSE m.dst

\* The places that have to do with message i and peer p: a message in an
\* inbox, a turn in a message handler, a copy still to be posted, a report.
Where == {"box", "hand", "post", "told"}
BoxAt(g, n, i, p)  == n \in 1 .. Len(inbox[g]) /\ Carries(inbox[g][n], i, p)
HandAt(g, n, i, p) == /\ g = p /\ n \in 1 .. Len(stack[g])
                      /\ stack[g][n].step = "handler" /\ stack[g][n].msg.id = i
PostAt(g, n, i, p) == n = 0 /\ call[g].id = i /\ p \in call[g].todo
ToldAt(g, n, i, p) == n \in 1 .. reports[<<g, p, i>>]
Holds(w, g, n, i, p) == \/ w = "box"  /\ BoxAt(g, n, i, p)
                        \/ w = "hand" /\ HandAt(g, n, i, p)
                        \/ w = "post" /\ PostAt(g, n, i, p)
                        \/ w = "told" /\ ToldAt(g, n, i, p)
\* Those where p may still come to be handed the message.
CopyAt(w, g, n, i, p) == \/ w = "box"  /\ BoxAt(g, n, i, p) /\ inbox[g][n].kind # "exception"
                         \/ w = "hand" /\ HandAt(g, n, i, p)
                         \/ w = "post" /\ PostAt(g, n, i, p)

Spent(i, p) == \E w \in Where, g \in Hubs, n \in Nat : Holds(w, g, n, i, p)
Live(i, p)  == \E w \in Where, g \in Hubs, n \in Nat : CopyAt(w, g, n, i, p)

\* Every message and peer is in one place at most.
Lone(i, p) ==
  \A v \in Where, w \in Where, f \in Hubs, g \in Hubs, k \in Nat, n \in Nat :
    Holds(v, f, k, i, p) /\ Holds(w, g, n, i, p) => v = w /\ f = g /\ k = n
OnceInv == \A i \in Ids, p \in Peers : Lone(i, p)

\* Whom a message is still ahead of has had no copy of it; what is not a
\* broadcast is in one copy.
Flows(i, kind, s) ==
  /\ \A p \in Peers, q \in Hubs : Spent(i, p) /\ Live(i, q) => p \notin Ahead(kind, s, q)
  /\ kind # "bcast" => \A p \in Hubs, q \in Hubs : Live(i, p) /\ Live(i, q) => p = q
FlowInv ==
  \A i \in 1 .. Len(sent), kind \in SendKinds, s \in Hubs :
    kind = sent[i].kind /\ s = sent[i].src => Flows(i, kind, s)

\* The place from which a message moved up when the pump of t took its first.
Shift(t, w, g, n) == IF w = "box" /\ g = t THEN n + 1 ELSE n

\* A step that leaves the places that have to do with message i and p, but for
\* one that is gone and one that comes in place of it or where there was none.
Kept(i, p, t, gw, gg, gn, fw, fg, fn) ==
  \A w \in Where, g \in Hubs, n \in Nat : Holds(w, g, n, i, p)' =>
    \/ /\ w = fw /\ g = fg /\ n = fn
       /\ \A v \in Where, f \in Hubs, k \in Nat :
            Holds(v, f, k, i, p) => v = gw /\ f = gg /\ k = gn
    \/ /\ Holds(w, g, Shift(t, w, g, n), i, p)
       /\ ~(w = gw /\ g = gg /\ Shift(t, w, g, n) = gn)

\* It leaves message i and p in one place at most.
LEMMA LoneStep ==
  ASSUME NEW i, NEW p, Lone(i, p), NEW t, NEW gw, NEW gg, NEW gn, NEW fw, NEW fg, NEW fn,
         Kept(i, p, t, gw, gg, gn, fw, fg, fn)
  PROVE  Lone(i, p)'
<1> SUFFICES ASSUME NEW v \in Where, NEW w \in Where, NEW f \in Hubs, NEW g \in Hubs,
                    NEW k \in Nat, NEW n \in Nat,
                    Holds(v, f, k, i, p)', Holds(w, g, n, i, p)'
             PROVE  v = w /\ f = g /\ k = n
  BY DEF Lone
<1>1. /\ \A x \in Where, d \in Hubs, j \in Nat : Shift(t, x, d, j) \in Nat
      /\ \A x \in Where, d \in Hubs, j, l \in Nat : Shift(t, x, d, j) = Shift(t, x, d, l) => j = l
  BY DEF Shift
<1> DEFINE Old(x, d, j) == /\ Holds(x, d, Shift(t, x, d, j), i, p)
                           /\ ~(x = gw /\ d = gg /\ Shift(t, x, d, j) = gn)
           Only == \A x \in Where, d \in Hubs, j \in Nat :
                     Holds(x, d, j, i, p) => x = gw /\ d = gg /\ j = gn
<1>2. (v = fw /\ f = fg /\ k = fn /\ Only) \/ Old(v, f, k)
  BY DEF Kept
<1>3. (w = fw /\ g = fg /\ n = fn /\ Only) \/ Old(w, g, n)
  BY DEF Kept
<1>4. ~(Only /\ Old(v, f, k)) /\ ~(Only /\ Old(w, g, n))
  BY <1>1
<1>5. ASSUME Old(v, f, k), Old(w, g, n) PROVE v = w /\ f = g /\ k = n
  <2>1. v = w /\ f = g /\ Shift(t, v, f, k) = Shift(t, w, g, n)
    BY <1>1, <1>5 DEF Lone
  <2> QED BY <1>1, <2>1
<1> QED BY <1>2, <1>3, <1>4, <1>5

Calm(i, p) == /\ Lone(i, p)'
              /\ Spent(i, p)' => Spent(i, p)
              /\ Live(i, p)' => Live(i, p)

\* A copy has to do with the message.
LEMMA CopyHolds ==
  ASSUME NEW w, NEW g, NEW n, NEW i, NEW p, CopyAt(w, g, n, i, p) PROVE Holds(w, g, n, i, p)
BY DEF CopyAt, Holds

\* The same when what comes is what is gone, and no copy comes of a bounce.
Moves(i, p, t, gw, gg, gn, fw, fg, fn) ==
  \A w \in Where, g \in Hubs, n \in Nat : Holds(w, g, n, i, p)' =>
    \/ /\ w = fw /\ g = fg /\ n = fn
       /\ Holds(gw, gg, gn, i, p)
       /\ CopyAt(w, g, n, i, p)' => CopyAt(gw, gg, gn, i, p)
    \/ /\ Holds(w, g, Shift(t, w, g, n), i, p)
       /\ ~(w = gw /\ g = gg /\ Shift(t, w, g, n) = gn)
       /\ CopyAt(w, g, n, i, p)' => CopyAt(w, g, Shift(t, w, g, n), i, p)

\* After it nobody has more to do with the message than before.
LEMMA CalmStep ==
  ASSUME NEW i, NEW p, Lone(i, p), NEW t, NEW gw \in Where, NEW gg \in Hubs, NEW gn \in Nat,
         NEW fw, NEW fg, NEW fn, Moves(i, p, t, gw, gg, gn, fw, fg, fn)
  PROVE  Calm(i, p)
<1>1. \A w \in Where, g \in Hubs, n \in Nat : Shift(t, w, g, n) \in Nat
  BY DEF Shift
<1>2. Lone(i, p)'
  <2>1. Holds(gw, gg, gn, i, p) =>
          \A v \in Where, f \in Hubs, k \in Nat :
            Holds(v, f, k, i, p) => v = gw /\ f = gg /\ k = gn
    BY DEF Lone
  <2>2. Kept(i, p, t, gw, gg, gn, fw, fg, fn)
    BY <2>1 DEF Kept, Moves
  <2> QED BY <2>2, LoneStep
<1>3. Spent(i, p)' => Spent(i, p)
  <2> SUFFICES ASSUME NEW w \in Where, NEW g \in Hubs, NEW n \in Nat, Holds(w, g, n, i, p)'
               PROVE  Spent(i, p)
    BY DEF Spent
  <2> QED BY <1>1 DEF Spent, Moves
<1>4. Live(i, p)' => Live(i, p)
  <2> SUFFICES ASSUME NEW w \in Where, NEW g \in Hubs, NEW n \in Nat, CopyAt(w, g, n, i, p)'
               PROVE  Live(i, p)
    BY DEF Live
  <2>1. Holds(w, g, n, i, p)'
    BY DEF CopyAt, Holds
  <2> QED BY <1>1, <2>1 DEF Live, Moves
<1> QED BY <1>2, <1>3, <1>4 DEF Calm

\* Nothing has to do with a message that was not sent.
LEMMA SpentIsSent ==
  ASSUME TypeInv, OriginInv, NEW i \in Ids, NEW p \in Peers, Spent(i, p)
  PROVE  i \in 1 .. Len(sent)
<1>1. PICK w \in Where, g \in Hubs, n \in Nat : Holds(w, g, n, i, p)
  BY DEF Spent
<1>2. CASE BoxAt(g, n, i, p)
  BY <1>2 DEF BoxAt, Carries, OriginInv, BoxOrigin, Genuine
<1>3. CASE HandAt(g, n, i, p)
  <2>1. n \in 1 .. Len(stack[g]) /\ stack[g][n] \in Frames
    BY <1>3, ElementOfSeq, LenProperties DEF HandAt, TypeInv, TurnType
  <2>2. stack[g][n].msg \in Messages
    BY <1>3, <2>1 DEF HandAt, TypeInv, TurnType, Frames
  <2> QED BY <1>3, <2>1, <2>2 DEF HandAt, OriginInv, TurnOrigin, Genuine
<1>4. CASE PostAt(g, n, i, p)
  BY <1>4 DEF PostAt, OriginInv, CallOrigin
<1>5. CASE ToldAt(g, n, i, p)
  <2>1. reports[<<g, p, i>>] \in Nat
    BY DEF TypeInv, RestType
  <2>2. reports[<<g, p, i>>] > 0
    BY <1>5, <2>1 DEF ToldAt
  <2> QED BY <2>2 DEF OriginInv, ToldOrigin
<1> QED BY <1>1, <1>2, <1>3, <1>4, <1>5 DEF Holds

\* Where what hub h posts turns up.
Site(h, m) == IF Routable(h, m.dst) THEN m.dst ELSE h

\* A post adds at most one place, and that for what is posted.
LEMMA PostBoxAt ==
  ASSUME TypeInv, NEW h \in Hubs, NEW ms \in SUBSET Messages, PostP2PeerMsg(inbox, h, ms),
         \A m \in ms : m.kind # "exception" => m.of = "none",
         NEW i, NEW p, NEW g \in Hubs, NEW n \in Nat, BoxAt(g, n, i, p)'
  PROVE  \/ BoxAt(g, n, i, p) /\ inbox'[g][n] = inbox[g][n]
         \/ /\ n = Len(inbox[g]) + 1
            /\ \E m \in ms : /\ Carries(m, i, p) /\ g = Site(h, m)
                             /\ inbox'[g][n].kind # "exception" => m.kind # "exception"
<1>1. inbox \in [Hubs -> Seq(Messages)]
  BY DEF TypeInv, MailType
<1>2. n \in 1 .. Len(inbox'[g])
  BY DEF BoxAt
<1>3. PICK x : x = inbox'[g][n]
  OBVIOUS
<1>4. Carries(x, i, p)
  BY <1>3 DEF BoxAt, Carries
<1>5. \/ n \in 1 .. Len(inbox[g]) /\ x = inbox[g][n]
      \/ n = Len(inbox[g]) + 1 /\ \E m \in ms : x = Lands(h, m)[2] /\ Lands(h, m)[1] = g
  <2>1. \/ n \in 1 .. Len(inbox[g]) /\ inbox'[g][n] = inbox[g][n]
        \/ n = Len(inbox[g]) + 1 /\ \E m \in ms : /\ inbox'[g][n] = Lands(h, m)[2]
                                                  /\ Lands(h, m)[1] = g
    BY ONLY <1>1, <1>2, PostBox, PostP2PeerMsg(inbox, h, ms), h \in Hubs, ms \in SUBSET Messages,
            g \in Hubs
  <2> QED BY <1>3, <2>1
<1>6. ASSUME n \in 1 .. Len(inbox[g]), x = inbox[g][n] PROVE BoxAt(g, n, i, p)
  BY <1>4, <1>6 DEF BoxAt
<1>7. ASSUME NEW m \in ms, x = Lands(h, m)[2], Lands(h, m)[1] = g
      PROVE  Carries(m, i, p) /\ g = Site(h, m) /\ (x.kind # "exception" => m.kind # "exception")
  <2>1. CASE Routable(h, m.dst)
    <3>1. x = m /\ g = m.dst
      BY <1>7, <2>1 DEF Lands
    <3> QED BY <1>4, <2>1, <3>1 DEF Site
  <2>2. CASE ~Routable(h, m.dst) /\ m.kind = "exception"
    BY <1>7, <2>2, HubsAssumption DEF Lands
  <2>3. CASE ~Routable(h, m.dst) /\ m.kind # "exception"
    <3>1. g = h /\ x = Exception(m, m.dst)
      BY <1>7, <2>3 DEF Lands
    <3> QED BY <1>4, <2>3, <3>1 DEF Site, Exception, Carries
  <2> QED BY <2>1, <2>2, <2>3
<1> QED BY <1>3, <1>5, <1>6, <1>7

\* A callback that begins or ends: the other turns in message handlers stay.
LEMMA PushHandAt ==
  ASSUME TypeInv, NEW h \in Hubs, NEW m \in Messages \cup {None},
         NEW step \in {"handler", "callback"}, step = "handler" => m # None,
         stack' = [stack EXCEPT ![h] = Append(@, Frame(h, m, step))],
         curMsg' \in [Hubs -> Messages \cup {None}], curThread' \in [Hubs -> Hubs \cup {None}],
         NEW i, NEW p, NEW g \in Hubs, NEW n \in Nat, HandAt(g, n, i, p)'
  PROVE  \/ HandAt(g, n, i, p)
         \/ /\ step = "handler" /\ g = h /\ n = Len(stack[h]) + 1 /\ p = h /\ m.id = i
<1>1. /\ Len(stack'[h]) = Len(stack[h]) + 1 /\ Len(stack[h]) \in Nat
      /\ \A k \in 1 .. Len(stack[h]) : stack'[h][k] = stack[h][k]
      /\ stack'[h][Len(stack[h]) + 1] = Frame(h, m, step)
      /\ \A d \in Hubs : d # h => stack'[d] = stack[d]
  BY PushType DEF TypeInv
<1>2. Frame(h, m, step).msg = m /\ Frame(h, m, step).step = step
  BY DEF Frame
<1>3. \/ n \in 1 .. Len(stack[g]) /\ stack'[g][n] = stack[g][n]
      \/ g = h /\ n = Len(stack[h]) + 1 /\ stack'[g][n] = Frame(h, m, step)
  BY <1>1 DEF HandAt
<1> QED BY <1>2, <1>3 DEF HandAt

\* One that ends is the innermost.
LEMMA PopHandAt ==
  ASSUME TypeInv, NEW h \in Hubs, Inside(h),
         stack' = [stack EXCEPT ![h] = SubSeq(@, 1, Len(@) - 1)],
         curMsg' \in [Hubs -> Messages \cup {None}], curThread' \in [Hubs -> Hubs \cup {None}],
         NEW i, NEW p, NEW g \in Hubs, NEW n \in Nat, HandAt(g, n, i, p)'
  PROVE  HandAt(g, n, i, p) /\ ~(g = h /\ n = Len(stack[h]))
<1>1. /\ Len(stack'[h]) = Len(stack[h]) - 1 /\ Len(stack[h]) \in Nat \ {0}
      /\ \A k \in 1 .. Len(stack[h]) - 1 : stack'[h][k] = stack[h][k]
      /\ \A d \in Hubs : d # h => stack'[d] = stack[d]
  BY PopType DEF TypeInv
<1>2. /\ n \in 1 .. Len(stack[g]) /\ stack'[g][n] = stack[g][n]
      /\ ~(g = h /\ n = Len(stack[h]))
  BY <1>1 DEF HandAt
<1> QED BY <1>2 DEF HandAt

\* Nothing of a message changes its place.
LEMMA CalmStay ==
  ASSUME TypeInv, NEW i \in Ids, NEW p \in Peers, Lone(i, p),
         \A g \in Hubs, n \in Nat : BoxAt(g, n, i, p)' =>
           BoxAt(g, n, i, p) /\ inbox'[g][n] = inbox[g][n],
         \A g \in Hubs, n \in Nat : HandAt(g, n, i, p)' => HandAt(g, n, i, p),
         \A g \in Hubs, n \in Nat : PostAt(g, n, i, p)' => PostAt(g, n, i, p),
         reports' = reports
  PROVE  Calm(i, p)
<1>1. ASSUME NEW w \in Where, NEW g \in Hubs, NEW n \in Nat, Holds(w, g, n, i, p)'
      PROVE  /\ Holds(w, g, Shift(None, w, g, n), i, p)
             /\ CopyAt(w, g, n, i, p)' => CopyAt(w, g, Shift(None, w, g, n), i, p)
  <2>1. Shift(None, w, g, n) = n
    BY HubsAssumption DEF Shift
  <2>2. ToldAt(g, n, i, p)' => ToldAt(g, n, i, p)
    BY DEF ToldAt
  <2>3. Holds(w, g, n, i, p)
    BY <1>1, <2>2 DEF Holds
  <2>4. CopyAt(w, g, n, i, p)' => CopyAt(w, g, n, i, p)
    BY <1>1 DEF CopyAt
  <2> QED BY <2>1, <2>3, <2>4
<1>2. Lone(i, p)'
  <2> SUFFICES ASSUME NEW v \in Where, NEW w \in Where, NEW f \in Hubs, NEW g \in Hubs,
                      NEW k \in Nat, NEW n \in Nat,
                      Holds(v, f, k, i, p)', Holds(w, g, n, i, p)'
               PROVE  v = w /\ f = g /\ k = n
    BY DEF Lone
  <2>1. Shift(None, v, f, k) = k /\ Shift(None, w, g, n) = n
    BY HubsAssumption DEF Shift
  <2> QED BY <1>1, <2>1 DEF Lone
<1>3. (Spent(i, p)' => Spent(i, p)) /\ (Live(i, p)' => Live(i, p))
  <2>1. \A w, g, n : Shift(None, w, g, n) = n \/ g = None
    BY DEF Shift
  <2>2. ASSUME NEW w \in Where, NEW g \in Hubs, NEW n \in Nat, Holds(w, g, n, i, p)'
        PROVE  Spent(i, p)
    BY <1>1, <2>1, <2>2, HubsAssumption DEF Spent
  <2>3. ASSUME NEW w \in Where, NEW g \in Hubs, NEW n \in Nat, CopyAt(w, g, n, i, p)'
        PROVE  Live(i, p)
    <3>1. Holds(w, g, n, i, p)'
      BY <2>3 DEF CopyAt, Holds
    <3>2. CopyAt(w, g, n, i, p)
      BY <1>1, <2>1, <2>3, <3>1, HubsAssumption
    <3> QED BY <3>2 DEF Live
  <2> QED BY <2>2, <2>3 DEF Spent, Live
<1> QED BY <1>2, <1>3 DEF Calm

-----------------------------------------------------------------------------
(* Reports: the steps *)

\* A pump takes a message into a message handler, into the report of a bounce,
\* or nowhere.
LEMMA TurnCalm ==
  ASSUME TypeInv, OriginInv, NEW h \in Hubs, Turn(h), NEW i \in Ids, NEW p \in Peers, Lone(i, p)
  PROVE  Calm(i, p)
<1> DEFINE m == Head(inbox[h])
<1>1. TakeHead(h) /\ UNCHANGED <<netVars, call, sent>>
  BY DEF Turn, Deliver, ReportBounce, OnPost, Consume
<1>2. m \in Messages /\ m # None
  BY <1>1, TakeType, NoneAssumption DEF TypeInv
<1>3. /\ 1 \in 1 .. Len(inbox[h]) /\ inbox[h][1] = m
      /\ \A n \in 1 .. Len(inbox'[h]) : /\ n + 1 \in 1 .. Len(inbox[h])
                                        /\ inbox'[h][n] = inbox[h][n + 1]
      /\ \A d \in Hubs : d # h => inbox'[d] = inbox[d]
  BY <1>1, TakeBox DEF TypeInv
<1>4. Genuine(m, h)
  BY <1>3 DEF OriginInv, BoxOrigin
<1>5. stack[h] \in Seq(Frames) /\ Len(stack[h]) \in Nat
  BY LenProperties DEF TypeInv, TurnType
<1>6. \A g \in Hubs : reports[<<g, p, i>>] \in Nat
  BY DEF TypeInv, RestType
<1> HIDE DEF m
<1>7. ASSUME NEW g \in Hubs, NEW n \in Nat, BoxAt(g, n, i, p)'
      PROVE  /\ BoxAt(g, Shift(h, "box", g, n), i, p)
             /\ ~(g = h /\ Shift(h, "box", g, n) = 1)
             /\ inbox'[g][n] = inbox[g][Shift(h, "box", g, n)]
  <2>1. CASE g = h
    <3>1. n \in 1 .. Len(inbox'[h]) /\ Shift(h, "box", g, n) = n + 1
      BY <1>7, <2>1 DEF BoxAt, Shift
    <3>2. n + 1 \in 1 .. Len(inbox[h]) /\ inbox'[h][n] = inbox[h][n + 1] /\ n # 0
      BY <1>3, <3>1
    <3> QED BY <1>7, <2>1, <3>1, <3>2 DEF BoxAt, Carries
  <2>2. CASE g # h
    BY <1>3, <1>7, <2>2 DEF BoxAt, Shift, Carries
  <2> QED BY <2>1, <2>2
<1>8. \A g \in Hubs, n \in Nat : PostAt(g, n, i, p)' => PostAt(g, n, i, p)
  BY <1>1 DEF PostAt
<1>9. \A w \in {"hand", "post", "told"}, g \in Hubs, n \in Nat : Shift(h, w, g, n) = n
  BY DEF Shift
<1>10. CASE Deliver(h)
  <2>1. /\ curMsg' \in [Hubs -> Messages \cup {None}]
        /\ curThread' \in [Hubs -> Hubs \cup {None}]
        /\ stack' = [stack EXCEPT ![h] = Append(@, Frame(h, m, "handler"))]
        /\ m.kind # "exception" /\ reports' = reports
    BY <1>2, <1>10 DEF Deliver, BeginScope, TypeInv, TurnType, m, IsDelivered, CastKinds
  <2>2. ASSUME NEW g \in Hubs, NEW n \in Nat, HandAt(g, n, i, p)'
        PROVE  \/ HandAt(g, n, i, p)
               \/ g = h /\ n = Len(stack[h]) + 1 /\ p = h /\ m.id = i
    BY <1>2, <2>1, <2>2, PushHandAt
  <2>3. p = h /\ m.id = i => BoxAt(h, 1, i, p)
    BY <1>3, <1>4, <2>1 DEF BoxAt, Carries, Genuine
  <2>4. ASSUME NEW w \in Where, NEW g \in Hubs, NEW n \in Nat, Holds(w, g, n, i, p)'
        PROVE  \/ /\ w = "hand" /\ g = h /\ n = Len(stack[h]) + 1
                  /\ Holds("box", h, 1, i, p)
                  /\ CopyAt(w, g, n, i, p)' => CopyAt("box", h, 1, i, p)
               \/ /\ Holds(w, g, Shift(h, w, g, n), i, p)
                  /\ ~(w = "box" /\ g = h /\ Shift(h, w, g, n) = 1)
                  /\ CopyAt(w, g, n, i, p)' => CopyAt(w, g, Shift(h, w, g, n), i, p)
    <3>1. CASE w = "box"
      BY <1>7, <2>4, <3>1 DEF Holds, CopyAt
    <3>2. CASE w = "hand"
      <4>1. Shift(h, w, g, n) = n /\ HandAt(g, n, i, p)'
        BY <1>9, <2>4, <3>2 DEF Holds
      <4>2. CASE HandAt(g, n, i, p)
        BY <3>2, <4>1, <4>2 DEF Holds, CopyAt
      <4>3. CASE g = h /\ n = Len(stack[h]) + 1 /\ p = h /\ m.id = i
        BY <1>3, <2>1, <2>3, <3>2, <4>3 DEF Holds, CopyAt
      <4> QED BY <2>2, <4>1, <4>2, <4>3
    <3>3. CASE w = "post"
      BY <1>8, <1>9, <2>4, <3>3 DEF Holds, CopyAt
    <3>4. CASE w = "told"
      BY <1>9, <2>1, <2>4, <3>4 DEF Holds, CopyAt, ToldAt
    <3> QED BY <3>1, <3>2, <3>3, <3>4 DEF Where
  <2>5. Moves(i, p, h, "box", h, 1, "hand", h, Len(stack[h]) + 1)
    BY <2>4 DEF Moves
  <2>6. "box" \in Where /\ 1 \in Nat
    BY DEF Where
  <2> QED BY <2>5, <2>6, CalmStep
<1>11. CASE ~Deliver(h)
  <2>1. ASSUME NEW g \in Hubs, NEW n \in Nat, HandAt(g, n, i, p)'
        PROVE  HandAt(g, n, i, p)
    <3>1. CASE ReportBounce(h) \/ OnPost(h)
      <4>1. /\ curMsg' \in [Hubs -> Messages \cup {None}]
            /\ curThread' \in [Hubs -> Hubs \cup {None}]
            /\ stack' = [stack EXCEPT ![h] = Append(@, Frame(h, m, "callback"))]
        BY <3>1 DEF ReportBounce, OnPost, TypeInv, TurnType, m, curVars
      <4> QED BY <1>2, <2>1, <4>1, PushHandAt
    <3>2. CASE Consume(h)
      BY <2>1, <3>2 DEF Consume, HandAt
    <3> QED BY <1>11, <3>1, <3>2 DEF Turn
  <2> DEFINE told == reports[<<h, p, i>>] + 1
  <2>2. ASSUME NEW g \in Hubs, NEW n \in Nat, ToldAt(g, n, i, p)'
        PROVE  ToldAt(g, n, i, p) \/ (g = h /\ n = told /\ BoxAt(h, 1, i, p))
    <3>1. CASE reports' = reports
      BY <2>2, <3>1 DEF ToldAt
    <3>2. CASE ReportBounce(h)
      <4>1. /\ reports' = [reports EXCEPT ![<<h, m.src, m.id>>] = @ + 1]
            /\ m.kind = "exception" /\ m.of # "exception"
        BY <3>2 DEF ReportBounce, m, IsReported
      <4>2. CASE g = h /\ p = m.src /\ i = m.id
        <5>1. BoxAt(h, 1, i, p)
          BY <1>3, <4>1, <4>2 DEF BoxAt, Carries
        <5>2. reports'[<<h, p, i>>] = told
          BY <4>1, <4>2 DEF TypeInv, RestType
        <5> QED BY <1>6, <2>2, <4>2, <5>1, <5>2 DEF ToldAt
      <4>3. CASE ~(g = h /\ p = m.src /\ i = m.id)
        <5>1. reports'[<<g, p, i>>] = reports[<<g, p, i>>]
          BY <4>1, <4>3 DEF TypeInv, RestType
        <5> QED BY <2>2, <5>1 DEF ToldAt
      <4> QED BY <4>2, <4>3
    <3> QED BY <1>11, <3>1, <3>2 DEF Turn, OnPost, Consume
  <2> HIDE DEF told
  <2>3. ASSUME NEW w \in Where, NEW g \in Hubs, NEW n \in Nat, Holds(w, g, n, i, p)'
        PROVE  \/ /\ w = "told" /\ g = h /\ n = told
                  /\ Holds("box", h, 1, i, p)
                  /\ CopyAt(w, g, n, i, p)' => CopyAt("box", h, 1, i, p)
               \/ /\ Holds(w, g, Shift(h, w, g, n), i, p)
                  /\ ~(w = "box" /\ g = h /\ Shift(h, w, g, n) = 1)
                  /\ CopyAt(w, g, n, i, p)' => CopyAt(w, g, Shift(h, w, g, n), i, p)
    <3>1. CASE w = "box"
      BY <1>7, <2>3, <3>1 DEF Holds, CopyAt
    <3>2. CASE w = "hand"
      BY <1>9, <2>1, <2>3, <3>2 DEF Holds, CopyAt
    <3>3. CASE w = "post"
      BY <1>8, <1>9, <2>3, <3>3 DEF Holds, CopyAt
    <3>4. CASE w = "told"
      BY <1>9, <2>2, <2>3, <3>4 DEF Holds, CopyAt
    <3> QED BY <3>1, <3>2, <3>3, <3>4 DEF Where
  <2>4. Moves(i, p, h, "box", h, 1, "told", h, told)
    BY <2>3 DEF Moves
  <2>5. "box" \in Where /\ 1 \in Nat
    BY DEF Where
  <2> QED BY <2>4, <2>5, CalmStep
<1> QED BY <1>10, <1>11

\* A copy of a broadcast is posted, or cannot be.
LEMMA PostNextCalm ==
  ASSUME TypeInv, OriginInv, NEW h \in Hubs, NEW q \in Hubs, PostNext(h, q),
         NEW i \in Ids, NEW p \in Peers, Lone(i, p)
  PROVE  Calm(i, p)
<1> DEFINE m == [kind |-> "bcast", id |-> call[h].id, src |-> h, dst |-> q,
                 quiet |-> sent[call[h].id].quiet, of |-> "none"]
           ok == ~done[h]
           site == Site(h, m)
<1>1. call[h].id \in 1 .. Len(sent) /\ q \in call[h].todo
  BY DEF OriginInv, CallOrigin, PostNext
<1>2. sent[call[h].id] \in Menu /\ call[h].id \in Ids
  BY <1>1, ElementOfSeq, LenProperties, BoundsAssumption DEF TypeInv, CallType, Ids
<1>3. m \in Messages
  BY <1>2, MenuAssumption DEF Messages, SendKinds, CastKinds, Peers
<1>4. stack' = stack /\ reports' = reports /\ call' = [call EXCEPT ![h] = Posted(call[h], q, ok)]
  BY DEF PostNext
<1>5. call[h] \in Calls /\ call \in [Hubs -> Calls]
  BY DEF TypeInv, CallType
<1> HIDE DEF ok
<1>6. /\ Posted(call[h], q, ok).todo = call[h].todo \ {q}
      /\ Posted(call[h], q, ok).id = call[h].id
  BY <1>5 DEF Posted, Calls
<1>7. \A g \in Hubs, n \in Nat : PostAt(g, n, i, p)' =>
        PostAt(g, n, i, p) /\ ~(g = h /\ p = q)
  BY <1>4, <1>5, <1>6 DEF PostAt
<1>8. p = q /\ i = call[h].id => PostAt(h, 0, i, p)
  BY <1>1 DEF PostAt
<1>9. ASSUME NEW g \in Hubs, NEW n \in Nat, BoxAt(g, n, i, p)'
      PROVE  \/ BoxAt(g, n, i, p) /\ inbox'[g][n] = inbox[g][n]
             \/ g = site /\ n = Len(inbox[site]) + 1 /\ p = q /\ i = call[h].id
  <2>1. CASE done[h]
    BY <1>9, <2>1 DEF PostNext, mailVars, BoxAt, Carries
  <2>2. CASE ~done[h]
    <3>1. PostP2PeerMsg(inbox, h, {m})
      BY <2>2 DEF PostNext
    <3>2. m.of = "none" /\ m.id = call[h].id /\ m.dst = q /\ m.kind = "bcast"
      OBVIOUS
    <3> HIDE DEF m
    <3>3. \/ BoxAt(g, n, i, p) /\ inbox'[g][n] = inbox[g][n]
          \/ n = Len(inbox[g]) + 1 /\ Carries(m, i, p) /\ g = Site(h, m)
      <4>1. {m} \in SUBSET Messages /\ \A x \in {m} : x.kind # "exception" => x.of = "none"
        BY <1>3, <3>2
      <4>2. \/ BoxAt(g, n, i, p) /\ inbox'[g][n] = inbox[g][n]
            \/ /\ n = Len(inbox[g]) + 1
               /\ \E x \in {m} : /\ Carries(x, i, p) /\ g = Site(h, x)
                                 /\ inbox'[g][n].kind # "exception" => x.kind # "exception"
        BY <1>9, <3>1, <4>1, PostBoxAt
      <4> QED BY <4>2
    <3> QED BY <3>2, <3>3 DEF Carries
  <2> QED BY <2>1, <2>2
<1> HIDE DEF m, site
<1>10. CASE ~(p = q /\ i = call[h].id)
  <2>1. \A g \in Hubs, n \in Nat : BoxAt(g, n, i, p)' =>
          BoxAt(g, n, i, p) /\ inbox'[g][n] = inbox[g][n]
    BY <1>9, <1>10
  <2>2. \A g \in Hubs, n \in Nat : HandAt(g, n, i, p)' => HandAt(g, n, i, p)
    BY <1>4 DEF HandAt
  <2> QED BY <1>4, <1>7, <2>1, <2>2, CalmStay
<1>11. CASE p = q /\ i = call[h].id
  <2>1. ASSUME NEW w \in Where, NEW g \in Hubs, NEW n \in Nat, Holds(w, g, n, i, p)'
        PROVE  \/ /\ w = "box" /\ g = site /\ n = Len(inbox[site]) + 1
                  /\ Holds("post", h, 0, i, p)
                  /\ CopyAt(w, g, n, i, p)' => CopyAt("post", h, 0, i, p)
               \/ /\ Holds(w, g, Shift(None, w, g, n), i, p)
                  /\ ~(w = "post" /\ g = h /\ Shift(None, w, g, n) = 0)
                  /\ CopyAt(w, g, n, i, p)' => CopyAt(w, g, Shift(None, w, g, n), i, p)
    <3>1. Shift(None, w, g, n) = n
      BY HubsAssumption DEF Shift
    <3>2. CASE w = "box"
      <4>1. BoxAt(g, n, i, p)'
        BY <2>1, <3>2 DEF Holds
      <4>2. CASE BoxAt(g, n, i, p) /\ inbox'[g][n] = inbox[g][n]
        BY <3>1, <3>2, <4>2 DEF Holds, CopyAt
      <4>3. CASE g = site /\ n = Len(inbox[site]) + 1
        BY <1>8, <1>11, <3>2, <4>3 DEF Holds, CopyAt
      <4> QED BY <1>9, <4>1, <4>2, <4>3
    <3>3. CASE w = "hand"
      BY <1>4, <2>1, <3>1, <3>3 DEF Holds, CopyAt, HandAt
    <3>4. CASE w = "told"
      BY <1>4, <2>1, <3>1, <3>4 DEF Holds, CopyAt, ToldAt
    <3>5. CASE w = "post"
      <4>1. PostAt(g, n, i, p)' /\ PostAt(g, n, i, p) /\ g # h
        BY <1>7, <1>11, <2>1, <3>5 DEF Holds
      <4> QED BY <3>1, <3>5, <4>1 DEF Holds, CopyAt
    <3> QED BY <3>2, <3>3, <3>4, <3>5 DEF Where
  <2>2. Moves(i, p, None, "post", h, 0, "box", site, Len(inbox[site]) + 1)
    BY <2>1 DEF Moves
  <2>3. "post" \in Where /\ 0 \in Nat
    BY DEF Where
  <2> QED BY <2>2, <2>3, CalmStep
<1> QED BY <1>10, <1>11

\* A login or a close is seen.
LEMMA MarkCalm ==
  ASSUME TypeInv, NEW h \in Hubs, NEW q \in Hubs, MarkPeer(h, q),
         NEW i \in Ids, NEW p \in Peers, Lone(i, p)
  PROVE  Calm(i, p)
<1>1. /\ curMsg' \in [Hubs -> Messages \cup {None}] /\ curThread' \in [Hubs -> Hubs \cup {None}]
      /\ stack' = [stack EXCEPT ![h] = Append(@, Frame(h, None, "callback"))]
      /\ inbox' = inbox /\ reports' = reports
  BY DEF MarkPeer, TypeInv, TurnType, curVars, mailVars
<1>2. \A g \in Hubs : call'[g].id = call[g].id /\ call'[g].todo = call[g].todo
  BY DEF MarkPeer, TypeInv, CallType, Calls
<1>3. \A g \in Hubs, n \in Nat : PostAt(g, n, i, p)' => PostAt(g, n, i, p)
  BY <1>2 DEF PostAt
<1>4. ASSUME NEW g \in Hubs, NEW n \in Nat, HandAt(g, n, i, p)' PROVE HandAt(g, n, i, p)
  BY <1>1, <1>4, PushHandAt
<1>5. \A g \in Hubs, n \in Nat : BoxAt(g, n, i, p)' =>
        BoxAt(g, n, i, p) /\ inbox'[g][n] = inbox[g][n]
  BY <1>1 DEF BoxAt, Carries
<1> QED BY <1>1, <1>3, <1>4, <1>5, CalmStay

\* Another callback than a message handler ends: the bounce of a bounce is
\* about nobody.
LEMMA CallbackCalm ==
  ASSUME TypeInv, OriginInv, NEW h \in Hubs, CallbackReturns(h),
         NEW i \in Ids, NEW p \in Peers, Lone(i, p)
  PROVE  Calm(i, p)
<1>1. /\ Inside(h) /\ UNCHANGED <<netVars, curVars, call, sent, reports>>
      /\ stack' = [stack EXCEPT ![h] = SubSeq(@, 1, Len(@) - 1)]
  BY DEF CallbackReturns
<1>2. /\ Top(h) \in Frames
      /\ curMsg' \in [Hubs -> Messages \cup {None}] /\ curThread' \in [Hubs -> Hubs \cup {None}]
  BY <1>1, PopType DEF TypeInv, TurnType, curVars
<1>3. PICK m \in Messages \cup {None} : m = Top(h).msg
  BY <1>2 DEF Frames
<1>4. PostP2PeerMsg(inbox, h, Further(h, m)) /\ Further(h, m) \in SUBSET Messages
  BY <1>3, FurtherType DEF CallbackReturns
<1>5. \A x \in Further(h, m) : x.kind = "exception" /\ x.of = "exception"
  BY DEF Further, Exception
<1>6. ASSUME NEW g \in Hubs, NEW n \in Nat, BoxAt(g, n, i, p)'
      PROVE  BoxAt(g, n, i, p) /\ inbox'[g][n] = inbox[g][n]
  <2>1. \/ BoxAt(g, n, i, p) /\ inbox'[g][n] = inbox[g][n]
        \/ /\ n = Len(inbox[g]) + 1
           /\ \E x \in Further(h, m) : /\ Carries(x, i, p) /\ g = Site(h, x)
                                       /\ inbox'[g][n].kind # "exception" => x.kind # "exception"
    <3>1. \A x \in Further(h, m) : x.kind # "exception" => x.of = "none"
      BY <1>5
    <3> QED BY <1>4, <1>6, <3>1, PostBoxAt
  <2> QED BY <1>5, <2>1 DEF Carries
<1>7. ASSUME NEW g \in Hubs, NEW n \in Nat, HandAt(g, n, i, p)' PROVE HandAt(g, n, i, p)
  BY <1>1, <1>2, <1>7, PopHandAt
<1>8. \A g \in Hubs, n \in Nat : PostAt(g, n, i, p)' => PostAt(g, n, i, p)
  BY <1>1 DEF PostAt
<1> QED BY <1>1, <1>6, <1>7, <1>8, CalmStay

\* Nothing happens to the mail, the turns and the posts.
LEMMA IdleCalm ==
  ASSUME TypeInv, NEW i \in Ids, NEW p \in Peers, Lone(i, p),
         UNCHANGED <<inbox, stack, reports>>,
         \A g \in Hubs, n \in Nat : PostAt(g, n, i, p)' => PostAt(g, n, i, p)
  PROVE  Calm(i, p)
<1>1. \A g \in Hubs, n \in Nat : BoxAt(g, n, i, p)' =>
        BoxAt(g, n, i, p) /\ inbox'[g][n] = inbox[g][n]
  BY DEF BoxAt, Carries
<1>2. \A g \in Hubs, n \in Nat : HandAt(g, n, i, p)' => HandAt(g, n, i, p)
  BY DEF HandAt
<1> QED BY <1>1, <1>2, CalmStay

\* What comes where there was nothing comes to one place.
LEMMA NewLone ==
  ASSUME NEW i, NEW p, ~Spent(i, p), NEW fw, NEW fg, NEW fn,
         \A w \in Where, g \in Hubs, n \in Nat : Holds(w, g, n, i, p)' =>
           Holds(w, g, n, i, p) \/ (w = fw /\ g = fg /\ n = fn)
  PROVE  Lone(i, p)'
<1> SUFFICES ASSUME NEW v \in Where, NEW w \in Where, NEW f \in Hubs, NEW g \in Hubs,
                    NEW k \in Nat, NEW n \in Nat,
                    Holds(v, f, k, i, p)', Holds(w, g, n, i, p)'
             PROVE  v = w /\ f = g /\ k = n
  BY DEF Lone
<1> QED BY DEF Spent

\* A program sends or posts: only the new message is anywhere new.
LEMMA SendCalm ==
  ASSUME TypeInv, OriginInv, OnceInv, NEW item \in Menu, Send(item) \/ Post(item),
         NEW i \in Ids, NEW p \in Peers
  PROVE  LET new == Len(sent) + 1
             dst == IF item.kind = "post" THEN item.src ELSE item.dst
         IN /\ i # new => Calm(i, p)
            /\ i = new => Lone(i, p)' /\ (Spent(i, p)' => p = dst) /\ (Live(i, p)' => p = dst)
<1> DEFINE new == Len(sent) + 1
           dst == IF item.kind = "post" THEN item.src ELSE item.dst
           x == [Fresh(item) EXCEPT !.dst = dst]
           h == item.src
           site == Site(h, x)
<1>1. /\ Len(sent) < MaxSends /\ sent' = Append(sent, item)
      /\ UNCHANGED <<netVars, curVars, stack, done, call, declined, reports>>
  BY DEF Send, Post
<1>2. /\ Fresh(item) \in Messages /\ h \in Hubs /\ item.dst \in Peers /\ new \in Ids
  BY <1>1, FreshType
<1>3. x \in Messages
  BY <1>2, CopyType DEF Peers
<1>4. x.id = new /\ x.dst = dst /\ x.of = "none" /\ x.kind = item.kind /\ item.kind # "exception"
  BY DEF Fresh, Send, Post
<1>5. PostP2PeerMsg(inbox, h, {x})
  <2>1. CASE Send(item)
    <3>1. x = Fresh(item)
      BY <2>1 DEF Send, Fresh
    <3> QED BY <2>1, <3>1 DEF Send
  <2>2. CASE Post(item)
    BY <2>2 DEF Post
  <2> QED BY <2>1, <2>2
<1> HIDE DEF x, dst, h, new
<1>6. ASSUME NEW g \in Hubs, NEW n \in Nat, BoxAt(g, n, i, p)'
      PROVE  \/ BoxAt(g, n, i, p) /\ inbox'[g][n] = inbox[g][n]
             \/ g = site /\ n = Len(inbox[site]) + 1 /\ p = dst /\ i = new
  <2>1. {x} \in SUBSET Messages /\ \A y \in {x} : y.kind # "exception" => y.of = "none"
    BY <1>3, <1>4
  <2>2. \/ BoxAt(g, n, i, p) /\ inbox'[g][n] = inbox[g][n]
        \/ /\ n = Len(inbox[g]) + 1
           /\ \E y \in {x} : /\ Carries(y, i, p) /\ g = Site(h, y)
                             /\ inbox'[g][n].kind # "exception" => y.kind # "exception"
    BY <1>2, <1>5, <1>6, <2>1, PostBoxAt
  <2> QED BY <1>4, <2>2 DEF Carries
<1>7. /\ \A g \in Hubs, n \in Nat : HandAt(g, n, i, p)' => HandAt(g, n, i, p)
      /\ \A g \in Hubs, n \in Nat : PostAt(g, n, i, p)' => PostAt(g, n, i, p)
      /\ \A g \in Hubs, n \in Nat : ToldAt(g, n, i, p)' => ToldAt(g, n, i, p)
      /\ reports' = reports
  BY <1>1 DEF HandAt, PostAt, ToldAt
<1>8. ASSUME i # new PROVE Calm(i, p)
  <2>1. Lone(i, p)
    BY DEF OnceInv
  <2>2. \A g \in Hubs, n \in Nat : BoxAt(g, n, i, p)' =>
          BoxAt(g, n, i, p) /\ inbox'[g][n] = inbox[g][n]
    BY <1>6, <1>8
  <2> QED BY <1>7, <2>1, <2>2, CalmStay
<1>9. ASSUME i = new
      PROVE  Lone(i, p)' /\ (Spent(i, p)' => p = dst) /\ (Live(i, p)' => p = dst)
  <2>1. Len(sent) \in Nat
    BY LenProperties DEF TypeInv, CallType
  <2>2. ~Spent(i, p)
    BY <1>9, <2>1, SpentIsSent DEF new
  <2>3. ASSUME NEW w \in Where, NEW g \in Hubs, NEW n \in Nat, Holds(w, g, n, i, p)'
        PROVE  \/ Holds(w, g, n, i, p)
               \/ w = "box" /\ g = site /\ n = Len(inbox[site]) + 1 /\ p = dst
    BY <1>6, <1>7, <2>3 DEF Holds
  <2>4. Lone(i, p)'
    <3> HIDE DEF site
    <3> DEFINE at == Len(inbox[site]) + 1
    <3>1. \A w \in Where, g \in Hubs, n \in Nat : Holds(w, g, n, i, p)' =>
            Holds(w, g, n, i, p) \/ (w = "box" /\ g = site /\ n = at)
      BY <2>3
    <3> HIDE DEF at
    <3> QED BY ONLY <2>2, <3>1, NewLone
  <2>5. Spent(i, p)' => p = dst
    BY <2>2, <2>3 DEF Spent
  <2>6. Live(i, p)' => Spent(i, p)'
    BY CopyHolds DEF Live, Spent, CopyAt, Holds
  <2> QED BY <2>4, <2>5, <2>6
<1> QED BY <1>8, <1>9 DEF new, dst

\* A Broadcast begins: only the new message is anywhere new.
LEMMA BroadcastCalm ==
  ASSUME TypeInv, OriginInv, OnceInv, NEW item \in Menu, Broadcast(item),
         NEW i \in Ids, NEW p \in Peers
  PROVE  LET new == Len(sent) + 1
         IN /\ i # new => Calm(i, p)
            /\ i = new => /\ Lone(i, p)'
                          /\ Spent(i, p)' => p \in peers[item.src]
                          /\ Live(i, p)' => p \in peers[item.src]
<1> DEFINE new == Len(sent) + 1
           h == item.src
<1>1. h \in Hubs
  BY MenuAssumption
<1>2. /\ call'[h].id = new /\ call'[h].todo = peers[h]
      /\ \A g \in Hubs : g # h => call'[g] = call[g]
      /\ UNCHANGED <<inbox, stack, reports>>
  BY <1>1 DEF Broadcast, TypeInv, CallType, mailVars
<1> HIDE DEF new, h
<1>3. \A g \in Hubs, n \in Nat : PostAt(g, n, i, p)' =>
        PostAt(g, n, i, p) \/ (g = h /\ n = 0 /\ i = new /\ p \in peers[h])
  BY <1>2 DEF PostAt
<1>4. ASSUME i # new PROVE Calm(i, p)
  <2>1. Lone(i, p)
    BY DEF OnceInv
  <2> QED BY <1>2, <1>3, <1>4, <2>1, IdleCalm
<1>5. ASSUME i = new
      PROVE  Lone(i, p)' /\ (Spent(i, p)' => p \in peers[h]) /\ (Live(i, p)' => p \in peers[h])
  <2>1. Len(sent) \in Nat
    BY LenProperties DEF TypeInv, CallType
  <2>2. ~Spent(i, p)
    BY <1>5, <2>1, SpentIsSent DEF new
  <2>3. /\ \A g \in Hubs, n \in Nat : BoxAt(g, n, i, p)' => BoxAt(g, n, i, p)
        /\ \A g \in Hubs, n \in Nat : HandAt(g, n, i, p)' => HandAt(g, n, i, p)
        /\ \A g \in Hubs, n \in Nat : ToldAt(g, n, i, p)' => ToldAt(g, n, i, p)
    BY <1>2 DEF BoxAt, Carries, HandAt, ToldAt
  <2>4. ASSUME NEW w \in Where, NEW g \in Hubs, NEW n \in Nat, Holds(w, g, n, i, p)'
        PROVE  Holds(w, g, n, i, p) \/ (w = "post" /\ g = h /\ n = 0 /\ p \in peers[h])
    BY <1>3, <2>3, <2>4 DEF Holds
  <2>5. Lone(i, p)'
    <3>1. \A w \in Where, g \in Hubs, n \in Nat : Holds(w, g, n, i, p)' =>
            Holds(w, g, n, i, p) \/ (w = "post" /\ g = h /\ n = 0)
      BY <2>4
    <3> QED BY ONLY <2>2, <3>1, NewLone
  <2>6. Spent(i, p)' => p \in peers[h]
    BY <2>2, <2>4 DEF Spent
  <2>7. Live(i, p)' => Spent(i, p)'
    BY CopyHolds DEF Live, Spent, CopyAt, Holds
  <2> QED BY <2>5, <2>6, <2>7
<1> QED BY <1>4, <1>5 DEF new, h

\* A copy that is relayed goes to a hub that the message is for next.
LEMMA RelayedOnto ==
  ASSUME NEW h \in Hubs, NEW m \in Messages, m.kind \in CastKinds, NEW x \in Relayed(h, m)
  PROVE  \E y \in Onto(m.kind, m.src, h) : x = [m EXCEPT !.dst = y] /\ <<h, y>> \in conn
<1>1. PICK p \in (IF m.kind = "bcast" THEN Kids[h] ELSE {q \in Hubs : h \in Kids[q]}) :
        <<h, p>> \in conn /\ p # m.src /\ x = [m EXCEPT !.dst = p]
  BY DEF Relayed
<1>2. p \in Hubs
  BY <1>1, LinksAssumption
<1>3. p \in Onto(m.kind, m.src, h)
  BY <1>1, <1>2 DEF Onto, CastKinds
<1> QED BY <1>1, <1>3

\* What a message handler leaves when it returns: the copies for those the
\* message is for next, and a bounce about the hub itself.
LEMMA HandlerPlaces ==
  ASSUME TypeInv, OriginInv, NEW h \in Hubs, NEW declines \in BOOLEAN,
         HandlerReturns(h, declines),
         NEW m, m = Top(h).msg, NEW i \in Ids, NEW p \in Peers
  PROVE  /\ \A g \in Hubs, n \in Nat : HandAt(g, n, i, p)' =>
              HandAt(g, n, i, p) /\ ~(g = h /\ n = Len(stack[h]))
         /\ \A g \in Hubs, n \in Nat : BoxAt(g, n, i, p)' =>
              \/ BoxAt(g, n, i, p) /\ inbox'[g][n] = inbox[g][n]
              \/ /\ i = m.id /\ p = h
                 /\ g = Site(h, Exception(m, h)) /\ n = Len(inbox[g]) + 1
                 /\ inbox'[g][n].kind = "exception"
              \/ /\ i = m.id /\ p \in Onto(m.kind, m.src, h)
                 /\ g = p /\ n = Len(inbox[g]) + 1
<1>1. Inside(h) /\ stack' = [stack EXCEPT ![h] = SubSeq(@, 1, Len(@) - 1)]
  BY DEF HandlerReturns
<1>2. /\ m \in Messages /\ Genuine(m, h) /\ m.kind # "exception"
      /\ curMsg' \in [Hubs -> Messages \cup {None}] /\ curThread' \in [Hubs -> Hubs \cup {None}]
  BY HandlerMsg
<1>3. ASSUME NEW g \in Hubs, NEW n \in Nat, HandAt(g, n, i, p)'
      PROVE  HandAt(g, n, i, p) /\ ~(g = h /\ n = Len(stack[h]))
  BY <1>1, <1>2, <1>3, PopHandAt
<1>4. /\ PostP2PeerMsg(inbox, h, AfterHandler(h, m, declines))
      /\ AfterHandler(h, m, declines) \in SUBSET Messages
  BY <1>2, AfterHandlerType DEF HandlerReturns
<1>5. ASSUME NEW x \in AfterHandler(h, m, declines)
      PROVE  \/ x = Exception(m, h)
             \/ \E y \in Onto(m.kind, m.src, h) : x = [m EXCEPT !.dst = y] /\ <<h, y>> \in conn
  BY <1>2, <1>5, RelayedOnto DEF AfterHandler
<1>6. /\ m.of = "none"
      /\ Exception(m, h).kind = "exception" /\ Exception(m, h).id = m.id
      /\ Exception(m, h).src = h /\ Exception(m, h).dst = m.src /\ Exception(m, h).of = m.kind
      /\ \A y : /\ [m EXCEPT !.dst = y].kind = m.kind /\ [m EXCEPT !.dst = y].id = m.id
                /\ [m EXCEPT !.dst = y].dst = y /\ [m EXCEPT !.dst = y].of = m.of
  BY <1>2 DEF Genuine, Exception, Messages
<1>7. ASSUME NEW g \in Hubs, NEW n \in Nat, BoxAt(g, n, i, p)'
       PROVE  \/ BoxAt(g, n, i, p) /\ inbox'[g][n] = inbox[g][n]
              \/ /\ i = m.id /\ p = h
                 /\ g = Site(h, Exception(m, h)) /\ n = Len(inbox[g]) + 1
                 /\ inbox'[g][n].kind = "exception"
              \/ /\ i = m.id /\ p \in Onto(m.kind, m.src, h)
                 /\ g = p /\ n = Len(inbox[g]) + 1
  <2>1. \A x \in AfterHandler(h, m, declines) : x.kind # "exception" => x.of = "none"
    <3>1. ASSUME NEW x \in AfterHandler(h, m, declines), x.kind # "exception",
                 NEW y, x = [m EXCEPT !.dst = y]
          PROVE  x.of = "none"
      BY <1>6, <3>1
    <3> QED BY <1>5, <1>6, <3>1
  <2>2. \/ BoxAt(g, n, i, p) /\ inbox'[g][n] = inbox[g][n]
        \/ /\ n = Len(inbox[g]) + 1
           /\ \E x \in AfterHandler(h, m, declines) :
                /\ Carries(x, i, p) /\ g = Site(h, x)
                /\ inbox'[g][n].kind # "exception" => x.kind # "exception"
    BY <1>4, <1>7, <2>1, PostBoxAt
  <2>3. ASSUME NEW x \in AfterHandler(h, m, declines), n = Len(inbox[g]) + 1,
               Carries(x, i, p), g = Site(h, x), BoxAt(g, n, i, p)',
               inbox'[g][n].kind # "exception" => x.kind # "exception"
        PROVE  \/ /\ i = m.id /\ p = h
                  /\ g = Site(h, Exception(m, h)) /\ n = Len(inbox[g]) + 1
                  /\ inbox'[g][n].kind = "exception"
               \/ /\ i = m.id /\ p \in Onto(m.kind, m.src, h)
                  /\ g = p /\ n = Len(inbox[g]) + 1
    <3>1. CASE x = Exception(m, h)
      <4>1. i = m.id /\ p = h
        BY <1>6, <2>3, <3>1 DEF Carries
      <4>2. inbox'[g][n].kind = "exception" /\ g = Site(h, Exception(m, h))
        BY <1>6, <2>3, <3>1
      <4> QED BY <2>3, <4>1, <4>2
    <3>2. ASSUME NEW y \in Onto(m.kind, m.src, h), x = [m EXCEPT !.dst = y], <<h, y>> \in conn
          PROVE  i = m.id /\ p = y /\ g = p
      <4>1. x.kind # "exception" /\ x.dst = y /\ x.id = m.id
        BY <1>2, <1>6, <3>2
      <4>2. Routable(h, y)
        BY <3>2 DEF Routable
      <4> QED BY <2>3, <4>1, <4>2 DEF Carries, Site
    <3> QED BY <1>5, <2>3, <3>1, <3>2
  <2> QED BY <1>7, <2>2, <2>3
<1> QED BY <1>3, <1>7

\* For everyone but those the message is for next nothing is added; the hub
\* itself has no copy any more.
LEMMA HandlerCalm ==
  ASSUME Tree, TypeInv, OriginInv, NEW h \in Hubs, NEW declines \in BOOLEAN,
         HandlerReturns(h, declines),
         NEW m, m = Top(h).msg, NEW i \in Ids, NEW p \in Peers, Lone(i, p),
         i # m.id \/ p \notin Onto(m.kind, m.src, h)
  PROVE  Calm(i, p) /\ (i = m.id /\ p = h => ~Live(i, p)')
<1> DEFINE at == Len(stack[h])
           site == Site(h, Exception(m, h))
           in == Len(inbox[site]) + 1
<1>1. /\ HandAt(h, at, m.id, h) /\ at \in Nat
      /\ \A g \in Hubs, n \in Nat : HandAt(g, n, i, p)' =>
           HandAt(g, n, i, p) /\ ~(g = h /\ n = at)
      /\ \A g \in Hubs, n \in Nat : BoxAt(g, n, i, p)' =>
           \/ BoxAt(g, n, i, p) /\ inbox'[g][n] = inbox[g][n]
           \/ i = m.id /\ p = h /\ g = site /\ n = in /\ inbox'[g][n].kind = "exception"
  BY HandlerPlaces, HandlerMsg DEF HandAt
<1> HIDE DEF at, site, in
<1>2. /\ \A g \in Hubs, n \in Nat : PostAt(g, n, i, p)' => PostAt(g, n, i, p)
      /\ \A g \in Hubs, n \in Nat : ToldAt(g, n, i, p)' => ToldAt(g, n, i, p)
      /\ reports' = reports
  BY DEF HandlerReturns, PostAt, ToldAt
<1>3. CASE ~(i = m.id /\ p = h)
  <2>1. \A g \in Hubs, n \in Nat : BoxAt(g, n, i, p)' =>
          BoxAt(g, n, i, p) /\ inbox'[g][n] = inbox[g][n]
    BY <1>1, <1>3
  <2>2. \A g \in Hubs, n \in Nat : HandAt(g, n, i, p)' => HandAt(g, n, i, p)
    BY <1>1
  <2>3. Calm(i, p)
    BY <1>2, <2>1, <2>2, CalmStay
  <2> QED BY <1>3, <2>3
<1>4. CASE i = m.id /\ p = h
  <2>1. ASSUME NEW w \in Where, NEW g \in Hubs, NEW n \in Nat, Holds(w, g, n, i, p)'
        PROVE  \/ w = "box" /\ g = site /\ n = in /\ ~CopyAt(w, g, n, i, p)'
               \/ /\ Holds(w, g, n, i, p)
                  /\ ~(w = "hand" /\ g = h /\ n = at)
                  /\ CopyAt(w, g, n, i, p)' => CopyAt(w, g, n, i, p)
    <3>1. CASE w = "box"
      BY <1>1, <2>1, <3>1 DEF Holds, CopyAt
    <3>2. CASE w = "hand"
      BY <1>1, <2>1, <3>2 DEF Holds, CopyAt
    <3>3. CASE w = "post"
      BY <1>2, <2>1, <3>3 DEF Holds, CopyAt
    <3>4. CASE w = "told"
      BY <1>2, <2>1, <3>4 DEF Holds, CopyAt
    <3> QED BY <3>1, <3>2, <3>3, <3>4 DEF Where
  <2>2. Holds("hand", h, at, i, p) /\ "hand" \in Where
    BY <1>1, <1>4 DEF Holds, Where
  <2>3. \A w \in Where, g \in Hubs, n \in Nat : Shift(None, w, g, n) = n
    BY HubsAssumption DEF Shift
  <2>4. Moves(i, p, None, "hand", h, at, "box", site, in)
    BY <2>1, <2>2, <2>3 DEF Moves
  <2>5. Calm(i, p)
    BY <1>1, <2>2, <2>4, CalmStep
  <2>6. ASSUME NEW w \in Where, NEW g \in Hubs, NEW n \in Nat, CopyAt(w, g, n, i, p)'
        PROVE  FALSE
    <3>1. Holds(w, g, n, i, p)'
      BY <2>6 DEF CopyAt, Holds
    <3>2. Holds(w, g, n, i, p) /\ ~(w = "hand" /\ g = h /\ n = at)
      BY <2>1, <2>6, <3>1
    <3> QED BY <1>1, <2>2, <3>2 DEF Lone
  <2> QED BY <2>5, <2>6 DEF Live
<1> QED BY <1>3, <1>4

\* Each of those gets the one copy he has ever had.
LEMMA HandlerCopies ==
  ASSUME Tree, TypeInv, OriginInv, NEW h \in Hubs, NEW declines \in BOOLEAN,
         HandlerReturns(h, declines),
         NEW m, m = Top(h).msg, NEW p \in Onto(m.kind, m.src, h), ~Spent(m.id, p)
  PROVE  Lone(m.id, p)'
<1> DEFINE i == m.id
           in == Len(inbox[p]) + 1
<1>1. p \in Hubs /\ p # h
  BY NoReturn DEF Onto
<1>2. m \in Messages
  BY HandlerMsg
<1>3. i \in Ids /\ p \in Peers
  BY <1>1, <1>2 DEF Messages, Peers
<1>4. /\ \A g \in Hubs, n \in Nat : HandAt(g, n, i, p)' => HandAt(g, n, i, p)
      /\ \A g \in Hubs, n \in Nat : BoxAt(g, n, i, p)' =>
           BoxAt(g, n, i, p) \/ (g = p /\ n = in)
  BY <1>1, <1>3, HandlerPlaces
<1> HIDE DEF i, in
<1>5. /\ \A g \in Hubs, n \in Nat : PostAt(g, n, i, p)' => PostAt(g, n, i, p)
      /\ \A g \in Hubs, n \in Nat : ToldAt(g, n, i, p)' => ToldAt(g, n, i, p)
  BY DEF HandlerReturns, PostAt, ToldAt
<1>6. \A w \in Where, g \in Hubs, n \in Nat : Holds(w, g, n, i, p)' =>
        Holds(w, g, n, i, p) \/ (w = "box" /\ g = p /\ n = in)
  BY <1>4, <1>5 DEF Holds
<1>7. ~Spent(i, p)
  BY DEF i
<1>8. Lone(i, p)'
  BY ONLY <1>6, <1>7, NewLone
<1> QED BY <1>8, <1>2 DEF i

-----------------------------------------------------------------------------
(* Reports: whom a message may still reach *)

\* What is not added to flows on.
LEMMA CalmFlows ==
  ASSUME NEW i, NEW kind, NEW s, Flows(i, kind, s), \A p \in Peers : Calm(i, p)
  PROVE  Flows(i, kind, s)'
<1>1. ASSUME NEW p \in Peers, NEW q \in Hubs, Spent(i, p)', Live(i, q)'
      PROVE  p \notin Ahead(kind, s, q)
  BY <1>1 DEF Calm, Flows, Peers
<1>2. ASSUME kind # "bcast", NEW p \in Hubs, NEW q \in Hubs, Live(i, p)', Live(i, q)'
      PROVE  p = q
  BY <1>2 DEF Calm, Flows, Peers
<1> QED BY <1>1, <1>2 DEF Flows

\* What is sent flows from its sender.
LEMMA CalmFlow ==
  ASSUME TypeInv, Remembers, FlowInv, sent' = sent, \A i \in Ids, p \in Peers : Calm(i, p)
  PROVE  OnceInv' /\ FlowInv'
<1>1. OnceInv'
  BY DEF OnceInv, Calm
<1>2. FlowInv'
  <2> SUFFICES ASSUME NEW i \in 1 .. Len(sent), NEW kind \in SendKinds, NEW s \in Hubs,
                      kind = sent[i].kind, s = sent[i].src
               PROVE  Flows(i, kind, s)'
    BY DEF FlowInv
  <2>1. Flows(i, kind, s) /\ i \in Ids
    BY BoundsAssumption DEF FlowInv, Ids, TypeInv, CallType, Remembers
  <2> QED BY <2>1, CalmFlows
<1> QED BY <1>1, <1>2

\* A message that is relayed has left those it has come to: the links form a
\* tree, so nobody it is for next can be reached by another copy of it.
LEMMA HandlerFlow ==
  ASSUME Tree, TypeInv, OriginInv, OnceInv, FlowInv, NEW h \in Hubs, NEW declines \in BOOLEAN,
         HandlerReturns(h, declines)
  PROVE  OnceInv' /\ FlowInv'
<1>1. PICK m : m = Top(h).msg
  OBVIOUS
<1>2. /\ m \in Messages /\ Genuine(m, h) /\ m.kind # "exception"
      /\ HandAt(h, Len(stack[h]), m.id, h) /\ Len(stack[h]) \in Nat
  BY <1>1, HandlerMsg DEF HandAt
<1> DEFINE id == m.id
           kind == m.kind
           s == m.src
           next == Onto(kind, s, h)
<1>3. /\ id \in Ids /\ id \in 1 .. Len(sent) /\ kind = sent[id].kind /\ s = sent[id].src
      /\ kind \in SendKinds /\ s \in Hubs /\ sent' = sent
  <2>1. sent[id] \in Menu
    BY <1>2, ElementOfSeq, LenProperties DEF Genuine, TypeInv, CallType
  <2> QED BY <1>2, <2>1, MenuAssumption DEF Genuine, Messages, HandlerReturns
<1>4. Flows(id, kind, s)
  BY <1>3 DEF FlowInv
<1> HIDE DEF id, kind, s
<1>5. Live(id, h)
  BY <1>2 DEF Live, CopyAt, Where, id
<1>6. next \subseteq Hubs /\ next \subseteq Ahead(kind, s, h)
  BY AheadStep DEF Onto
<1>7. \A y \in next : ~Spent(id, y)
  BY <1>4, <1>5, <1>6 DEF Flows, Peers
<1>8. ASSUME NEW i \in Ids, NEW p \in Peers, i # id \/ p \notin next
      PROVE  Calm(i, p) /\ (i = id /\ p = h => ~Live(i, p)')
  <2>1. Lone(i, p)
    BY DEF OnceInv
  <2> QED BY <1>1, <1>8, <2>1, HandlerCalm DEF id, kind, s
<1>9. ASSUME NEW y \in next PROVE Lone(id, y)'
  BY <1>1, <1>7, <1>9, HandlerCopies DEF id, kind, s
<1>10. OnceInv'
  BY <1>8, <1>9 DEF OnceInv, Calm
<1>11. \A p \in Peers : Spent(id, p)' => Spent(id, p) \/ p \in next
  BY <1>3, <1>8 DEF Calm
<1>12. \A q \in Hubs : Live(id, q)' => (Live(id, q) /\ q # h) \/ q \in next
  BY <1>3, <1>8 DEF Calm, Peers
<1> HIDE DEF next
<1>13. ASSUME NEW p \in next, NEW q \in Hubs, (Live(id, q) /\ q # h) \/ q \in next
       PROVE  p \notin Ahead(kind, s, q)
  <2> SUFFICES ASSUME p \in Ahead(kind, s, q) PROVE FALSE
    OBVIOUS
  <2>1. PICK x \in {q} \cup Ahead(kind, s, q) : p \in Onto(kind, s, x)
    BY AheadFrom
  <2>2. x \in Hubs /\ p \in Onto(kind, s, h)
    BY <1>13, <2>1 DEF next, Ahead
  <2>3. CASE kind = "bcast"
    <3>1. x = h
      BY <2>1, <2>2, <2>3, OneGiver
    <3>2. CASE q \in next
      BY <2>1, <3>1, <3>2, NoReturn DEF next
    <3>3. CASE Live(id, q) /\ q # h
      <4>1. h \in Ahead(kind, s, q) /\ h \in Peers
        BY <2>1, <3>1, <3>3 DEF Peers
      <4>2. Spent(id, h)
        BY <1>5, CopyHolds DEF Live, Spent
      <4> QED BY <1>4, <3>3, <4>1, <4>2 DEF Flows
    <3> QED BY <1>13, <3>2, <3>3
  <2>4. CASE kind # "bcast"
    <3>1. q \in next
      BY <1>4, <1>5, <1>13, <2>4 DEF Flows
    <3>2. kind = "ucast"
      BY <2>2, <2>4 DEF Onto
    <3>3. p = q
      BY <2>2, <3>1, <3>2, OneGiver DEF next
    <3> QED BY <3>3, NoReturn
  <2> QED BY <2>3, <2>4
<1>14. Flows(id, kind, s)'
  <2>1. ASSUME NEW p \in Peers, NEW q \in Hubs, Spent(id, p)', Live(id, q)'
        PROVE  p \notin Ahead(kind, s, q)
    <3>1. (Live(id, q) /\ q # h) \/ q \in next
      BY <1>12, <2>1
    <3>2. CASE p \in next
      BY <1>13, <3>1, <3>2
    <3>3. CASE Spent(id, p) /\ Live(id, q)
      BY <1>4, <3>3 DEF Flows
    <3>4. CASE Spent(id, p) /\ q \in next
      <4>1. p \notin Ahead(kind, s, h)
        BY <1>4, <1>5, <3>4 DEF Flows
      <4> QED BY <3>4, <4>1, AheadStep DEF next
    <3> QED BY <1>11, <2>1, <3>1, <3>2, <3>3, <3>4
  <2>2. ASSUME kind # "bcast", NEW p \in Hubs, NEW q \in Hubs, Live(id, p)', Live(id, q)'
        PROVE  p = q
    <3>1. \A x \in Hubs : Live(id, x)' => x \in next
      BY <1>4, <1>5, <1>12, <2>2 DEF Flows
    <3>2. kind = "ucast"
      BY <2>2, <3>1 DEF next, Onto
    <3> QED BY <2>2, <3>1, <3>2, OneGiver DEF next
  <2> QED BY <2>1, <2>2 DEF Flows
<1>15. FlowInv'
  <2> SUFFICES ASSUME NEW i \in 1 .. Len(sent), NEW k \in SendKinds, NEW t \in Hubs,
                      k = sent[i].kind, t = sent[i].src
               PROVE  Flows(i, k, t)'
    BY <1>3 DEF FlowInv
  <2>1. CASE i = id
    BY <1>3, <1>14, <2>1
  <2>2. CASE i # id
    <3>1. i \in Ids
      BY LenProperties, BoundsAssumption DEF Ids, TypeInv, CallType
    <3>2. Flows(i, k, t)
      BY DEF FlowInv
    <3> QED BY <1>8, <2>2, <3>1, <3>2, CalmFlows
  <2> QED BY <2>1, <2>2
<1> QED BY <1>10, <1>15

\* What is sent starts from whom it was sent to.
LEMMA SendFlow ==
  ASSUME Tree, TypeInv, Remembers, OriginInv, OnceInv, FlowInv, NEW item \in Menu,
         Send(item) \/ Post(item) \/ Broadcast(item)
  PROVE  OnceInv' /\ FlowInv'
<1> PICK new : new = Len(sent) + 1
  OBVIOUS
<1> DEFINE h == item.src
           Firsts(p) == IF item.kind = "bcast" THEN p \in peers[h]
                        ELSE p = IF item.kind = "post" THEN item.src ELSE item.dst
<1>1. sent' = Append(sent, item) /\ Len(sent) < MaxSends
  BY DEF Send, Post, Broadcast
<1>2. /\ Len(sent) \in Nat /\ Len(sent') = new /\ sent'[new] = item /\ new \in Ids
      /\ \A i \in 1 .. Len(sent) : sent'[i] = sent[i]
      /\ h \in Hubs
  BY <1>1, AppendProperties, LenProperties, FreshType DEF TypeInv, CallType
<1>3. ASSUME NEW i \in Ids, NEW p \in Peers
      PROVE  /\ i # new => Calm(i, p)
             /\ i = new => Lone(i, p)' /\ (Spent(i, p)' => Firsts(p)) /\ (Live(i, p)' => Firsts(p))
  <2>1. CASE Send(item) \/ Post(item)
    <3>1. item.kind # "bcast"
      BY <2>1 DEF Send, Post
    <3> QED BY <2>1, <3>1, SendCalm
  <2>2. CASE Broadcast(item)
    <3>1. item.kind = "bcast"
      BY <2>2 DEF Broadcast
    <3> QED BY <2>2, <3>1, BroadcastCalm
  <2> QED BY <2>1, <2>2
<1>4. OnceInv'
  BY <1>3 DEF OnceInv, Calm
<1>5. Flows(new, item.kind, h)'
  <2>1. ASSUME NEW p \in Peers, NEW q \in Hubs, Firsts(p), Firsts(q)
        PROVE  p \notin Ahead(item.kind, h, q)
    <3>1. CASE item.kind # "bcast"
      <4>1. p = q
        BY <2>1, <3>1
      <4> QED BY <4>1, NoReturn
    <3>2. CASE item.kind = "bcast"
      <4>1. <<h, p>> \in Links /\ <<h, q>> \in Links /\ p \in Hubs
        BY <1>2, <2>1, <3>2 DEF OriginInv, CallOrigin, TypeInv, RestType
      <4> QED BY <1>2, <3>2, <4>1, NoCross
    <3> QED BY <3>1, <3>2
  <2>2. \A p \in Hubs, q \in Hubs : item.kind # "bcast" /\ Firsts(p) /\ Firsts(q) => p = q
    OBVIOUS
  <2> HIDE DEF Firsts
  <2>3. \A p \in Peers : (Spent(new, p)' => Firsts(p)) /\ (Live(new, p)' => Firsts(p))
    BY <1>2, <1>3
  <2> QED BY <2>1, <2>2, <2>3 DEF Flows, Peers
<1>6. FlowInv'
  <2> SUFFICES ASSUME NEW i \in 1 .. Len(sent'), NEW k \in SendKinds, NEW s \in Hubs,
                      k = sent'[i].kind, s = sent'[i].src
               PROVE  Flows(i, k, s)'
    BY DEF FlowInv
  <2>1. CASE i = new
    BY <1>2, <1>5, <2>1
  <2>2. CASE i # new
    <3>1. i \in 1 .. Len(sent) /\ i \in Ids /\ Flows(i, k, s)
      BY <1>2, <2>2, BoundsAssumption DEF FlowInv, Ids, TypeInv, CallType
    <3> QED BY <1>3, <2>2, <3>1, CalmFlows
  <2> QED BY <2>1, <2>2
<1> QED BY <1>4, <1>6

\* Every step keeps every message in one place for each peer, and flowing.
LEMMA FlowNext ==
  ASSUME Tree PROVE TypeInv /\ CastInv /\ OriginInv /\ OnceInv /\ FlowInv /\ [Next]_vars
                    => OnceInv' /\ FlowInv'
<1> SUFFICES ASSUME TypeInv, CastInv, OriginInv, OnceInv, FlowInv, [Next]_vars
             PROVE  OnceInv' /\ FlowInv'
  OBVIOUS
<1>1. Remembers
  BY NextRemembers
<1>2. \A i \in Ids, p \in Peers : Lone(i, p)
  BY DEF OnceInv
<1>3. ASSUME NEW h \in Hubs, NEW q \in Hubs,
             Turn(h) \/ CallbackReturns(h) \/ MarkPeer(h, q) \/ PostNext(h, q)
      PROVE  OnceInv' /\ FlowInv'
  <2>1. sent' = sent
    BY <1>3 DEF Turn, Deliver, ReportBounce, OnPost, Consume, CallbackReturns, MarkPeer, PostNext
  <2>2. \A i \in Ids, p \in Peers : Calm(i, p)
    BY <1>2, <1>3, TurnCalm, CallbackCalm, MarkCalm, PostNextCalm
  <2> QED BY <1>1, <2>1, <2>2, CalmFlow
<1>4. ASSUME UNCHANGED <<inbox, stack, reports, sent>>,
             \A g \in Hubs, n \in Nat, i \in Ids, p \in Peers :
               PostAt(g, n, i, p)' => PostAt(g, n, i, p)
      PROVE  OnceInv' /\ FlowInv'
  <2>1. \A i \in Ids, p \in Peers : Calm(i, p)
    BY <1>2, <1>4, IdleCalm
  <2> QED BY <1>1, <1>4, <2>1, CalmFlow
<1>5. ASSUME NEW h \in Hubs, BroadcastReturns(h) PROVE OnceInv' /\ FlowInv'
  <2>1. \A g \in Hubs, n \in Nat, i \in Ids, p \in Peers : PostAt(g, n, i, p)' => PostAt(g, n, i, p)
    BY <1>5 DEF BroadcastReturns, PostAt, NoCall, TypeInv, CallType
  <2> QED BY <1>4, <1>5, <2>1 DEF BroadcastReturns, mailVars
<1>6. CASE UNCHANGED <<inbox, stack, reports, sent, call>>
  BY <1>4, <1>6 DEF PostAt
<1>7. ASSUME NEW l \in Links, ConLost(l) \/ Redial(l) PROVE OnceInv' /\ FlowInv'
  BY <1>6, <1>7 DEF ConLost, Redial, mailVars
<1>8. ASSUME NEW h \in Hubs, PumpStops(h) PROVE OnceInv' /\ FlowInv'
  BY <1>6, <1>8 DEF PumpStops, mailVars
<1> QED BY <1>1, <1>3, <1>5, <1>6, <1>7, <1>8, SendFlow, HandlerFlow DEF Next, vars, mailVars

\* Where the hubs of a network form a tree, as the addresses of its endpoints
\* do, a sender is told of each peer that is owed it, once at most, and nobody
\* else is told.
THEOREM ReportsOwed == ASSUME Tree PROVE Spec => []ReportsAreOwed
<1>1. Init => OriginInv /\ OnceInv /\ FlowInv
  <2> SUFFICES ASSUME Init PROVE OriginInv /\ OnceInv /\ FlowInv
    OBVIOUS
  <2>1. \A w \in Where, g \in Hubs, n \in Nat, i \in Ids, p \in Peers : ~Holds(w, g, n, i, p)
    BY EmptySeq DEF Init, Holds, BoxAt, HandAt, PostAt, ToldAt, NoCall
  <2>2. OnceInv
    BY <2>1 DEF OnceInv, Lone
  <2>3. Len(sent) = 0
    BY EmptySeq DEF Init
  <2>4. OriginInv
    BY EmptySeq DEF Init, OriginInv, BoxOrigin, TurnOrigin, CallOrigin, ToldOrigin, NoCall
  <2> QED BY <2>2, <2>3, <2>4 DEF FlowInv
<1>2. TypeInv /\ OriginInv /\ OnceInv => ReportsAreOwed
  <2> SUFFICES ASSUME TypeInv, OriginInv, OnceInv, NEW h \in Hubs, NEW p \in Peers, NEW i \in Ids,
                      reports[<<h, p, i>>] > 0
               PROVE  /\ reports[<<h, p, i>>] = 1
                      /\ i \in DOMAIN sent /\ sent[i].src = h
                      /\ Owed(i, p)
    BY DEF ReportsAreOwed, Owed
  <2>1. i \in 1 .. Len(sent) /\ sent[i].src = h /\ Owed(i, p)
    BY DEF OriginInv, ToldOrigin
  <2>2. DOMAIN sent = 1 .. Len(sent)
    BY LenProperties DEF TypeInv, CallType
  <2>3. reports[<<h, p, i>>] \in Nat
    BY DEF TypeInv, RestType
  <2>4. ASSUME reports[<<h, p, i>>] > 1 PROVE FALSE
    <3>1. Holds("told", h, 1, i, p) /\ Holds("told", h, 2, i, p)
      BY <2>3, <2>4 DEF Holds, ToldAt
    <3>2. "told" \in Where /\ Lone(i, p)
      BY DEF Where, OnceInv
    <3> QED BY <3>1, <3>2 DEF Lone
  <2> QED BY <2>1, <2>2, <2>3, <2>4
<1>3. Init => CastInv
  BY DEF Init, CastInv, NoCall
<1> QED BY <1>1, <1>2, <1>3, TypeInit, TypeNext, CastNext, OriginNext, FlowNext, PTL DEF Spec
=============================================================================
