---------------------------- MODULE ComHubProofs ----------------------------
(***************************************************************************)
(* What ComHub promises for any clients, any capacity of the queue and any *)
(* number of events and sinks: the queue implements the event stream, the  *)
(* message properties answer the handler of a message only, a sink hears   *)
(* all that is raised while it is advised and is not fetched after it, and *)
(* the object outlives whatever may still run in it.                       *)
(***************************************************************************)
EXTENDS ComHub, FiniteSetTheorems, SequenceTheorems, WellFoundedInduction, TLAPS

-----------------------------------------------------------------------------
(* Types *)

\* A push, once begun, has something to push.
QueueType ==
  /\ queue \in Seq(Events) /\ pushed \in Seq(Events) /\ raised \in Seq(Events)
  /\ popped \in Seq(Fired)
  /\ cDropped \in Nat /\ cRefused \in Nat
  /\ pump \in {"idle", "check", "info", "fields", "push", "signal"}
  /\ toPush \in Seq(Events) /\ (pump # "idle" => toPush # <<>>)

\* What was accepted is what was raised and what is queued.
QueueInv == QueueType /\ pushed = raised \o queue /\ cDropped <= cRefused

\* An event behind what is raised is still behind it when one more is accepted.
LEMMA PushKeeps ==
  ASSUME NEW r \in Seq(Events), NEW q \in Seq(Events), NEW e \in Events
  PROVE  Append(r \o q, e) = r \o Append(q, e)
<1>1. r \o q \in Seq(Events) /\ <<e>> \in Seq(Events)
  BY ConcatProperties
<1>2. Append(r \o q, e) = (r \o q) \o <<e>> /\ Append(q, e) = q \o <<e>>
  BY <1>1, AppendIsConcat
<1>3. (r \o q) \o <<e>> = r \o (q \o <<e>>)
  BY <1>1, ConcatAssociative
<1> QED BY <1>2, <1>3

\* The head of the queue is the next event to be raised.
LEMMA PopKeeps ==
  ASSUME NEW S, NEW r \in Seq(S), NEW q \in Seq(S), q # <<>>
  PROVE  /\ Head(q) \in S /\ Tail(q) \in Seq(S)
         /\ r \o q = Append(r, Head(q)) \o Tail(q)
         /\ Len(r) < Len(r \o q) /\ (r \o q)[Len(r) + 1] = Head(q)
<1>1. /\ Head(q) \in S /\ Tail(q) \in Seq(S) /\ Len(Tail(q)) = Len(q) - 1
      /\ \A i \in 1 .. Len(Tail(q)) : Tail(q)[i] = q[i + 1]
      /\ Len(q) \in Nat /\ Len(q) > 0 /\ Head(q) = q[1] /\ Len(r) \in Nat
  BY HeadTailProperties, EmptySeq, LenProperties
<1>2. /\ r \o q \in Seq(S) /\ Len(r \o q) = Len(r) + Len(q)
      /\ \A i \in 1 .. Len(r) + Len(q) :
           (r \o q)[i] = IF i <= Len(r) THEN r[i] ELSE q[i - Len(r)]
  BY ConcatProperties
<1> DEFINE a == Append(r, Head(q))
<1>3. /\ a \in Seq(S) /\ Len(a) = Len(r) + 1
      /\ \A i \in 1 .. Len(r) : a[i] = r[i]
      /\ a[Len(r) + 1] = Head(q)
  BY <1>1, AppendProperties
<1> HIDE DEF a
<1>4. /\ a \o Tail(q) \in Seq(S) /\ Len(a \o Tail(q)) = Len(a) + Len(Tail(q))
      /\ \A i \in 1 .. Len(a) + Len(Tail(q)) :
           (a \o Tail(q))[i] = IF i <= Len(a) THEN a[i] ELSE Tail(q)[i - Len(a)]
  BY <1>1, <1>3, ConcatProperties
<1>5. ASSUME NEW i \in 1 .. Len(r) + Len(q) PROVE (r \o q)[i] = (a \o Tail(q))[i]
  <2>1. CASE i <= Len(r)
    BY <1>1, <1>2, <1>3, <1>4, <2>1
  <2>2. CASE i = Len(r) + 1
    BY <1>1, <1>2, <1>3, <1>4, <2>2
  <2>3. CASE i > Len(r) + 1
    <3>1. i - Len(a) \in 1 .. Len(Tail(q)) /\ (i - Len(a)) + 1 = i - Len(r)
      BY <1>1, <1>3, <2>3
    <3> QED BY <1>1, <1>2, <1>3, <1>4, <2>3, <3>1
  <2>4. i \in Int /\ Len(r) \in Int
    BY <1>1
  <2>5. i <= Len(r) \/ i = Len(r) + 1 \/ i > Len(r) + 1
    BY <2>4
  <2> QED BY <2>1, <2>2, <2>3, <2>5
<1>6. r \o q = a \o Tail(q)
  BY <1>1, <1>2, <1>3, <1>4, <1>5, SeqEqual
<1> QED BY <1>1, <1>2, <1>6 DEF a

\* What is left to push once the first is pushed.
LEMMA TailKeeps ==
  ASSUME NEW S, NEW q \in Seq(S), q # <<>>
  PROVE  /\ Head(q) \in S /\ Tail(q) \in Seq(S)
         /\ Len(q) # 1 => Tail(q) # <<>>
<1> DEFINE rest == Tail(q)
<1>1. Head(q) \in S /\ rest \in Seq(S) /\ Len(rest) = Len(q) - 1
  BY HeadTailProperties
<1>2. Len(q) \in Int
  BY LenProperties
<1> HIDE DEF rest
<1>3. ASSUME rest = <<>> PROVE Len(q) = 1
  <2>1. Len(rest) = 0
    BY <1>3, EmptySeq
  <2> HIDE <1>3
  <2> QED BY <1>1, <1>2, <2>1
<1>4. Head(q) \in S /\ rest \in Seq(S) /\ (Len(q) # 1 => rest # <<>>)
  BY <1>1, <1>3
<1> QED BY <1>4 DEF rest

\* Which steps touch the queue and the pump.
LEMMA QueueSteps ==
  ASSUME Next
  PROVE  Report \/ CheckHub \/ ReadMessage \/ Push \/ Signal \/ Pop
         \/ UNCHANGED <<queueVars, pumpVars>>
<1>1. CASE Report \/ PumpStep
  BY <1>1 DEF PumpStep
<1>2. CASE DispatchStep
  BY <1>2 DEF DispatchStep, Wake, Snapshot, Fetch, Invoke, HandlerReturns, FireDone, ThreadEnds
<1>3. ASSUME NEW t \in Callers, Begin(t) PROVE UNCHANGED <<queueVars, pumpVars>>
  BY <1>3 DEF Begin, Advise, Close, EnterCall, ReleaseHub, Unlist
<1>4. ASSUME NEW t \in Callers, CallStep(t) PROVE UNCHANGED <<queueVars, pumpVars>>
  BY <1>4 DEF CallStep, CreateHub, ListHub, Abandon, ReturnCall, Claim, KernelClosed,
              ReadOwner, ClearOwner, ForgetHub, Revoke
<1>5. CASE SweepHubs \/ NetGone \/ Freed
  BY <1>5 DEF SweepHubs, NetGone, Freed
<1> QED BY <1>1, <1>2, <1>3, <1>4, <1>5 DEF Next

\* The queue's invariant holds at the start.
LEMMA QueueInit == Init => QueueInv
<1> SUFFICES ASSUME Init PROVE QueueInv
  OBVIOUS
<1>1. <<>> \in Seq(Events) /\ <<>> \in Seq(Fired) /\ <<>> \o <<>> = <<>>
  BY EmptySeq, ConcatEmptySeq
<1> QED BY <1>1 DEF Init, QueueInv, QueueType

\* Every step keeps it.
LEMMA QueueNext == QueueInv /\ [Next]_vars => QueueInv'
<1> SUFFICES ASSUME QueueInv, [Next]_vars PROVE QueueInv'
  OBVIOUS
<1>0. MaxEvents \in Nat
  BY BoundsAssumption
<1>1. CASE Report
  <2>1. Reported \in Nat
    BY LenProperties DEF QueueInv, QueueType, Reported
  <2>2. toPush' \in Seq(Events) /\ toPush' # <<>>
    <3>1. ASSUME NEW k \in Kinds, Reported < MaxEvents
          PROVE  Fresh(k, 1) \in Events
      BY <1>0, <2>1, <3>1 DEF Fresh, Events
    <3>2. ASSUME NEW k \in Kinds, Reported + 1 < MaxEvents
          PROVE  Fresh(k, 1) \in Events /\ Fresh(k, 2) \in Events
      BY <1>0, <2>1, <3>2 DEF Fresh, Events
    <3>3. CASE Reported < MaxEvents /\ toPush' = <<Fresh("message", 1)>>
      BY <3>1, <3>3 DEF Kinds
    <3>4. CASE Reported < MaxEvents /\ toPush' = <<Fresh("peer", 1)>>
      BY <3>1, <3>4 DEF Kinds
    <3>5. CASE Reported + 1 < MaxEvents
               /\ toPush' = <<Fresh("error", 1), Fresh("event", 2)>>
      BY <3>2, <3>5 DEF Kinds
    <3> QED BY <1>1, <3>3, <3>4, <3>5 DEF Report
  <2> QED BY <1>1, <2>2 DEF Report, queueVars, QueueInv, QueueType
<1>2. CASE CheckHub \/ ReadMessage
  BY <1>2 DEF CheckHub, ReadMessage, queueVars, QueueInv, QueueType
<1>3. CASE Push
  <2>1. /\ Head(toPush) \in Events /\ Tail(toPush) \in Seq(Events)
        /\ Len(toPush) # 1 => Tail(toPush) # <<>>
    BY <1>3, TailKeeps DEF Push, QueueInv, QueueType
  <2>2. CASE Len(queue) >= kMaxQueued
    <3>1. cDropped' \in Nat /\ cRefused' \in Nat /\ cDropped' <= cRefused'
      BY <1>3, <2>2 DEF Push, QueueInv, QueueType
    <3>2. UNCHANGED <<queue, pushed, raised, popped>>
      BY <1>3, <2>2 DEF Push
    <3>3. toPush' \in Seq(Events) /\ pump' \in {"idle", "push"}
          /\ (pump' # "idle" => toPush' # <<>>)
      BY <1>3, <2>1, <2>2 DEF Push
    <3> QED BY <3>1, <3>2, <3>3 DEF QueueInv, QueueType
  <2>3. CASE ~(Len(queue) >= kMaxQueued)
    <3>1. /\ Append(queue, Head(toPush)) \in Seq(Events)
          /\ Append(pushed, Head(toPush)) \in Seq(Events)
          /\ Append(pushed, Head(toPush)) = raised \o Append(queue, Head(toPush))
      <4>1. queue \in Seq(Events) /\ pushed \in Seq(Events) /\ raised \in Seq(Events)
            /\ pushed = raised \o queue
        BY DEF QueueInv, QueueType
      <4>2. Append(raised \o queue, Head(toPush)) = raised \o Append(queue, Head(toPush))
        <5> DEFINE e == Head(toPush)
        <5>1. e \in Events
          BY <2>1
        <5> HIDE DEF e
        <5>2. Append(raised \o queue, e) = raised \o Append(queue, e)
          BY <4>1, <5>1, PushKeeps, Zenon
        <5> QED BY <5>2 DEF e
      <4> QED BY <2>1, <4>1, <4>2, AppendProperties
    <3>2. /\ queue' = Append(queue, Head(toPush)) /\ pushed' = Append(pushed, Head(toPush))
          /\ pump' = "signal" /\ pump = "push"
          /\ UNCHANGED <<cDropped, cRefused, toPush, raised, popped>>
      BY <1>3, <2>3 DEF Push
    <3> QED BY <3>1, <3>2 DEF QueueInv, QueueType
  <2> QED BY <2>2, <2>3
<1>4. CASE Signal
  <2>1. Tail(toPush) \in Seq(Events) /\ (Len(toPush) # 1 => Tail(toPush) # <<>>)
    BY <1>4, TailKeeps DEF Signal, QueueInv, QueueType
  <2>2. toPush' \in Seq(Events) /\ pump' \in {"idle", "push"}
        /\ (pump' # "idle" => toPush' # <<>>)
    BY <1>4, <2>1 DEF Signal
  <2>3. UNCHANGED <<queue, cDropped, pushed, raised, cRefused, popped>>
    BY <1>4 DEF Signal, queueVars
  <2> QED BY <2>2, <2>3 DEF QueueInv, QueueType
<1>5. CASE Pop
  <2>1. CASE queue # <<>> /\ ev' = Head(queue) /\ queue' = Tail(queue)
             /\ raised' = Append(raised, ev') /\ popped' = Append(popped, ev')
             /\ UNCHANGED <<cDropped, pushed, cRefused, pumpVars>>
    <3>1. /\ Head(queue) \in Events /\ Tail(queue) \in Seq(Events)
          /\ pushed = Append(raised, Head(queue)) \o Tail(queue)
      BY <2>1, PopKeeps DEF QueueInv, QueueType
    <3>2. /\ Append(raised, Head(queue)) \in Seq(Events)
          /\ Append(popped, Head(queue)) \in Seq(Fired)
      BY <3>1, AppendProperties DEF QueueInv, QueueType, Fired
    <3> QED BY <2>1, <3>1, <3>2 DEF QueueInv, QueueType, pumpVars
  <2>2. CASE queue = <<>> /\ cDropped # 0 /\ ev' = [kind |-> "gap", n |-> cDropped]
             /\ cDropped' = 0 /\ popped' = Append(popped, ev')
             /\ UNCHANGED <<queue, raised, pushed, cRefused, pumpVars>>
    <3>1. ev' \in Fired
      BY <2>2 DEF QueueInv, QueueType, Fired
    <3>2. Append(popped, ev') \in Seq(Fired)
      BY <3>1, AppendProperties DEF QueueInv, QueueType
    <3> QED BY <2>2, <3>2 DEF QueueInv, QueueType, pumpVars
  <2>3. CASE UNCHANGED <<queue, cDropped, raised, popped, pushed, cRefused, pumpVars>>
    BY <2>3 DEF QueueInv, QueueType, pumpVars
  <2> QED BY <1>5, <2>1, <2>2, <2>3 DEF Pop
<1>6. CASE UNCHANGED <<queueVars, pumpVars>>
  BY <1>6 DEF queueVars, pumpVars, QueueInv, QueueType
<1> QED BY <1>1, <1>2, <1>3, <1>4, <1>5, <1>6, QueueSteps DEF vars

\* So it holds of every state.
LEMMA SpecQueueInv == Spec => []QueueInv
BY QueueInit, QueueNext, PTL DEF Spec

-----------------------------------------------------------------------------
(* The event stream *)

\* A step of the queue is a step of the stream.
LEMMA StreamNext ==
  QueueInv /\ QueueInv' /\ [Next]_vars
    => [Stream!Next]_<<pushed, raised, cRefused, cRefused - cDropped>>
<1> SUFFICES ASSUME QueueInv, QueueInv', [Next]_vars
             PROVE  Stream!Next \/ UNCHANGED <<pushed, raised, cRefused, cRefused - cDropped>>
  OBVIOUS
<1>1. CASE Report \/ CheckHub \/ ReadMessage \/ Signal
  BY <1>1 DEF Report, CheckHub, ReadMessage, Signal, queueVars
<1>2. CASE Push
  <2>1. CASE Len(queue) >= kMaxQueued
    BY <1>2, <2>1 DEF Push, Stream!Next, Stream!Refuse, QueueInv, QueueType
  <2>2. CASE ~(Len(queue) >= kMaxQueued)
    <3>1. Head(toPush) \in Events
      BY <1>2, HeadTailProperties DEF Push, QueueInv, QueueType
    <3> QED BY <1>2, <2>2, <3>1 DEF Push, Stream!Next, Stream!Accept
  <2> QED BY <2>1, <2>2
<1>3. CASE Pop
  <2>1. CASE queue # <<>> /\ raised' = Append(raised, Head(queue))
             /\ UNCHANGED <<cDropped, pushed, cRefused>>
    <3>1. Len(raised) < Len(pushed) /\ pushed[Len(raised) + 1] = Head(queue)
      BY <2>1, PopKeeps DEF QueueInv, QueueType
    <3> QED BY <2>1, <3>1 DEF Stream!Next, Stream!Raise
  <2>2. CASE queue = <<>> /\ cDropped' = 0 /\ UNCHANGED <<raised, pushed, cRefused>>
    <3>1. raised = pushed
      BY <2>2, ConcatEmptySeq DEF QueueInv, QueueType
    <3> QED BY <2>2, <3>1 DEF Stream!Next, Stream!Report, QueueInv, QueueType
  <2>3. CASE UNCHANGED <<cDropped, raised, pushed, cRefused>>
    BY <2>3
  <2> QED BY <1>3, <2>1, <2>2, <2>3 DEF Pop
<1>4. CASE UNCHANGED <<queueVars, pumpVars>>
  BY <1>4 DEF queueVars
<1> QED BY <1>1, <1>2, <1>3, <1>4, QueueSteps DEF vars, queueVars

\* Push, Pop and the dispatch thread implement EventStream: what is accepted is
\* raised in order and once, and a refusal is counted and reported behind it.
THEOREM QueueIsStream == Spec => IsEventStream
<1>1. Init => Stream!Init
  BY DEF Init, Stream!Init
<1> QED BY <1>1, SpecQueueInv, StreamNext, PTL DEF Spec, IsEventStream, Stream!Spec

-----------------------------------------------------------------------------
(* The handler of a message *)

\* The message flag is up while a message is with its sinks, and only then.
FireInv ==
  /\ msgActive \in BOOLEAN
  /\ msgActive <=> disp \in {"invoke", "fetched", "handler"} /\ ev.kind = "message"
  /\ msgActive => pCurEvent = ev

\* Which steps touch the dispatch thread.
LEMMA FireSteps ==
  ASSUME Next
  PROVE  DispatchStep \/ UNCHANGED <<disp, ev, todo, msgActive, pCurEvent, heard>>
<1>1. CASE Report \/ PumpStep
  BY <1>1 DEF PumpStep, Report, CheckHub, ReadMessage, Push, Signal, fireVars
<1>2. ASSUME NEW t \in Callers, Begin(t) PROVE UNCHANGED fireVars
  BY <1>2 DEF Begin, Advise, Close, EnterCall, ReleaseHub, Unlist
<1>3. ASSUME NEW t \in Callers, CallStep(t) PROVE UNCHANGED fireVars
  BY <1>3 DEF CallStep, CreateHub, ListHub, Abandon, ReturnCall, Claim, KernelClosed,
              ReadOwner, ClearOwner, ForgetHub, Revoke
<1>4. CASE SweepHubs \/ NetGone \/ Freed
  BY <1>4 DEF SweepHubs, NetGone, Freed, fireVars
<1> QED BY <1>1, <1>2, <1>3, <1>4 DEF Next, fireVars

\* Snapshot raises the flag and FireDone lowers it; in between `ev' stays.
LEMMA FireNext == FireInv /\ [Next]_vars => FireInv'
<1> SUFFICES ASSUME FireInv, [Next]_vars PROVE FireInv'
  OBVIOUS
<1>1. CASE Wake \/ HandlerReturns \/ ThreadEnds
  BY <1>1 DEF Wake, HandlerReturns, ThreadEnds, FireInv
<1>2. CASE Pop
  BY <1>2 DEF Pop, Drained, FireInv
<1>3. CASE Snapshot
  BY <1>3 DEF Snapshot, FireInv
<1>4. CASE Fetch \/ Invoke
  <2>1. /\ disp' \in {"invoke", "fetched", "handler"} /\ disp \in {"invoke", "fetched"}
        /\ UNCHANGED <<ev, msgActive, pCurEvent>>
    BY <1>4 DEF Fetch, Invoke
  <2> QED BY <2>1 DEF FireInv
<1>5. CASE FireDone
  BY <1>5 DEF FireDone, FireInv
<1>6. CASE UNCHANGED <<disp, ev, todo, msgActive, pCurEvent, heard>>
  BY <1>6 DEF FireInv
<1> QED BY <1>1, <1>2, <1>3, <1>4, <1>5, <1>6, FireSteps DEF DispatchStep, vars, fireVars

\* GetCurMsg and its like answer the handler of a message, and it alone.
THEOREM CurEventHolds == Spec => []CurEventIsRaised
<1>1. Init => FireInv
  BY DEF Init, FireInv
<1>2. FireInv => CurEventIsRaised
  <2> SUFFICES ASSUME FireInv, NEW t \in Callers, MayCall(t)
               PROVE  CurEvent(t) = IF t = Disp /\ ev.kind = "message" THEN ev ELSE None
    BY DEF CurEventIsRaised
  <2>1. CASE t = Disp /\ ev.kind = "message"
    <3>1. ev # None
      BY <2>1 DEF None
    <3> QED BY <2>1, <3>1 DEF FireInv, MayCall, CurEvent
  <2>2. CASE ~(t = Disp /\ ev.kind = "message")
    BY <2>2 DEF FireInv, MayCall, CurEvent
  <2> QED BY <2>1, <2>2
<1> QED BY <1>1, <1>2, FireNext, PTL DEF Spec

-----------------------------------------------------------------------------
(* Unadvise *)

\* What each sink heard is a function of the cookies.
HeardInv == heard = [s \in Cookies |-> heard[s]]

\* A sink is fetched through its entry of the global table, and no other way, and
\* called once for each time it is fetched: whoever unadvised it, and in whatever
\* round.
THEOREM UnadvisedIsSilent == Spec => UnadvisedHearsNoMore
<1>1. Init => HeardInv
  BY DEF Init, HeardInv
<1>2. HeardInv /\ [Next]_vars => HeardInv'
  <2> SUFFICES ASSUME HeardInv, [Next]_vars PROVE HeardInv'
    OBVIOUS
  <2>1. CASE Invoke
    BY <2>1 DEF Invoke, HeardInv
  <2>2. CASE UNCHANGED heard
    BY <2>2 DEF HeardInv
  <2> QED BY <2>1, <2>2, FireSteps DEF DispatchStep, Wake, Pop, Snapshot, Fetch, HandlerReturns,
             FireDone, ThreadEnds, vars, fireVars
<1>3. HeardInv /\ [Next]_vars
        => [\A s \in Cookies : s \notin git =>
              /\ Fetched(s)' => Fetched(s)
              /\ heard'[s] # heard[s] => Fetched(s) /\ ~Fetched(s)']_vars
  <2> SUFFICES ASSUME HeardInv, [Next]_vars, NEW s \in Cookies, s \notin git
               PROVE  /\ Fetched(s)' => Fetched(s)
                      /\ heard'[s] # heard[s] => Fetched(s) /\ ~Fetched(s)'
    OBVIOUS
  <2>1. CASE Fetch
    BY <2>1 DEF Fetch, Fetched
  <2>2. CASE Invoke
    <3>1. disp = "fetched" /\ disp' = "handler"
      BY <2>2 DEF Invoke
    <3>2. s # Least(todo) => heard'[s] = heard[s]
      BY <2>2 DEF Invoke, HeardInv
    <3> QED BY <3>1, <3>2 DEF Fetched
  <2>3. CASE Wake \/ Pop \/ Snapshot \/ HandlerReturns \/ FireDone \/ ThreadEnds
    <3>1. disp' # "fetched" /\ heard' = heard
      BY <2>3 DEF Wake, Pop, Drained, Snapshot, HandlerReturns, FireDone, ThreadEnds
    <3> QED BY <3>1 DEF Fetched
  <2>4. CASE UNCHANGED <<disp, todo, heard>>
    BY <2>4 DEF Fetched
  <2> QED BY <2>1, <2>2, <2>3, <2>4, FireSteps DEF DispatchStep, vars, fireVars
<1> QED BY <1>1, <1>2, <1>3, PTL DEF Spec, UnadvisedHearsNoMore

-----------------------------------------------------------------------------
(* What a sink hears *)

\* What a sink heard is the stretch of what was raised from the i-th to the k-th.
Stretch(p, h, i, k) ==
  /\ i \in 1 .. Len(p) + 1 /\ k \in 0 .. Len(p) /\ i <= k + 1
  /\ h = SubSeq(p, i, k)

\* How far a sink has got: the last event raised is still ahead of those the
\* round has yet to take up or to call.
Reached(s) == IF disp = "fire" \/ s \in todo THEN Len(popped) - 1 ELSE Len(popped)

\* Cookies are given out in order, a round is of cookies that were, and what an
\* Unadvise has yet to revoke is not listed.
SinkType ==
  /\ nextCookie \in 1 .. MaxSinks + 1
  /\ sinks \subseteq git /\ git \subseteq Cookies /\ todo \subseteq Cookies
  /\ \A s \in git \cup todo : s < nextCookie
  /\ dropping \in [Callers -> Nat]
  /\ \A t \in Callers : dropping[t] \notin sinks /\ dropping[t] < nextCookie
  /\ since \in [Cookies -> Nat] /\ HeardInv

\* A round is of the event raised last.
RoundInv ==
  /\ disp \notin {"invoke", "fetched", "handler"} => todo = {}
  /\ disp = "fetched" => todo # {}
  /\ disp \in {"fire", "invoke", "fetched", "handler"} => popped # <<>> /\ ev = popped[Len(popped)]

\* A sink that is advised has heard everything since, and one that was heard a
\* stretch, which the round it is still in may add to.
ListedInv ==
  \A s \in sinks : \E i \in 1 .. since[s] + 1 : Stretch(popped, heard[s], i, Reached(s))
PastInv ==
  \A s \in Cookies \ sinks : s < nextCookie =>
    \E i \in Nat, k \in Nat :
      Stretch(popped, heard[s], i, k) /\ (s \in todo => k = Len(popped) - 1)
FutureInv == \A s \in Cookies : s >= nextCookie => heard[s] = <<>>

SinkInv == SinkType /\ RoundInv /\ ListedInv /\ PastInv /\ FutureInv

\* A set of cookies that is not empty has a least one, the next to be called.
LEMMA LeastIsIn ==
  ASSUME NEW T, T \subseteq Nat, T # {}
  PROVE  Least(T) \in T
<1> DEFINE R == OpToRel(<, Nat)
<1>1. IsWellFoundedOn(R, Nat)
  BY NatLessThanWellFounded
<1>2. ASSUME NEW x \in Nat, NEW y \in Nat, ~(<<y, x>> \in R) PROVE x <= y
  BY <1>2 DEF OpToRel
<1> HIDE DEF R
<1>3. PICK x \in T : \A y \in T : ~(<<y, x>> \in R)
  BY <1>1, WFMin
<1>4. ASSUME NEW y \in T PROVE x <= y
  <2>1. x \in Nat /\ y \in Nat /\ ~(<<y, x>> \in R)
    BY <1>3
  <2> QED BY <1>2, <2>1
<1> QED BY <1>3, <1>4 DEF Least

\* What was heard is still a stretch when one more event is raised.
LEMMA StretchKept ==
  ASSUME NEW p \in Seq(Fired), NEW e \in Fired, NEW h, NEW i, NEW k, Stretch(p, h, i, k)
  PROVE  Stretch(Append(p, e), h, i, k)
<1>1. /\ Append(p, e) \in Seq(Fired) /\ Len(Append(p, e)) = Len(p) + 1
      /\ \A x \in 1 .. Len(p) : Append(p, e)[x] = p[x]
      /\ Len(p) \in Nat /\ \A x \in 1 .. Len(p) : p[x] \in Fired
  BY AppendProperties, LenProperties, ElementOfSeq
<1>2. i \in Int /\ k \in Int /\ i >= 1 /\ k <= Len(p) /\ i <= k + 1 /\ h = SubSeq(p, i, k)
  BY <1>1 DEF Stretch
<1> DEFINE a == Append(p, e)  u == SubSeq(p, i, k)  v == SubSeq(a, i, k)
<1>3. \A x \in i .. k : p[x] \in Fired /\ a[x] \in Fired /\ a[x] = p[x]
  BY <1>1, <1>2
<1>4. /\ u \in Seq(Fired) /\ Len(u) = IF i <= k THEN k - i + 1 ELSE 0
      /\ \A x \in 1 .. k - i + 1 : u[x] = p[i + x - 1]
  BY <1>2, <1>3, SubSeqProperties
<1>5. /\ v \in Seq(Fired) /\ Len(v) = IF i <= k THEN k - i + 1 ELSE 0
      /\ \A x \in 1 .. k - i + 1 : v[x] = a[i + x - 1]
  BY <1>2, <1>3, SubSeqProperties
<1> HIDE DEF a, u, v
<1>6. Len(u) = Len(v) /\ \A x \in 1 .. Len(u) : u[x] = v[x]
  <2>1. \A x \in 1 .. Len(u) : i + x - 1 \in i .. k /\ x \in 1 .. k - i + 1
    BY <1>2, <1>4
  <2> QED BY <1>3, <1>4, <1>5, <2>1
<1>7. u = v
  BY <1>4, <1>5, <1>6, SeqEqual
<1> QED BY <1>1, <1>2, <1>7 DEF Stretch, a, u, v

\* A sink that is called with the event raised last has caught up.
LEMMA StretchGrows ==
  ASSUME NEW p \in Seq(Fired), p # <<>>, NEW h, NEW i, Stretch(p, h, i, Len(p) - 1)
  PROVE  Stretch(p, Append(h, p[Len(p)]), i, Len(p))
<1>1. Len(p) \in Nat /\ Len(p) > 0 /\ \A x \in 1 .. Len(p) : p[x] \in Fired
  BY LenProperties, ElementOfSeq, EmptySeq
<1>2. i \in 1 .. Len(p) /\ h = SubSeq(p, i, Len(p) - 1)
  BY <1>1 DEF Stretch
<1>3. SubSeq(p, i, Len(p)) = h \o <<p[Len(p)]>>
  BY <1>1, <1>2, SubSeqRecursiveSecond
<1>4. h \in Seq(Fired)
  BY <1>1, <1>2, SubSeqProperties
<1>5. Append(h, p[Len(p)]) = h \o <<p[Len(p)]>>
  BY <1>1, <1>4, AppendIsConcat
<1> QED BY <1>1, <1>2, <1>3, <1>5 DEF Stretch

\* A sink advised now has heard nothing, up to any point.
LEMMA StretchStarts ==
  ASSUME NEW p \in Seq(Fired), NEW k \in 0 .. Len(p)
  PROVE  Stretch(p, <<>>, k + 1, k)
<1>1. Len(p) \in Nat
  BY LenProperties
<1>2. SubSeq(p, k + 1, k) = <<>>
  BY <1>1, SubSeqEmpty
<1> QED BY <1>1, <1>2 DEF Stretch

\* Which steps a sink's place in the stream depends on.
LEMMA SinkSteps ==
  ASSUME Next
  PROVE  \/ \E t \in Callers : Advise(t) \/ \E s \in Cookies : Unlist(t, s)
         \/ (\E t \in Callers : Revoke(t)) \/ Freed
         \/ DispatchStep
         \/ UNCHANGED <<popped, sinkVars, disp, ev, todo, heard>>
<1>1. CASE Report \/ PumpStep
  BY <1>1 DEF PumpStep, Report, CheckHub, ReadMessage, Push, Signal, fireVars, sinkVars, queueVars
<1>2. ASSUME NEW t \in Callers, Begin(t)
      PROVE  \/ Advise(t) \/ \E s \in Cookies : Unlist(t, s)
             \/ UNCHANGED <<popped, sinkVars, disp, ev, todo, heard>>
  BY <1>2 DEF Begin, Close, EnterCall, ReleaseHub, fireVars, sinkVars, queueVars
<1>3. ASSUME NEW t \in Callers, CallStep(t)
      PROVE  Revoke(t) \/ UNCHANGED <<popped, sinkVars, disp, ev, todo, heard>>
  BY <1>3 DEF CallStep, CreateHub, ListHub, Abandon, ReturnCall, Claim, KernelClosed,
              ReadOwner, ClearOwner, ForgetHub, fireVars, sinkVars, queueVars
<1>4. CASE SweepHubs \/ NetGone
  BY <1>4 DEF SweepHubs, NetGone, fireVars, sinkVars, queueVars
<1> QED BY <1>1, <1>2, <1>3, <1>4 DEF Next

\* Advise lists a sink that has heard nothing, with nothing behind it to hear.
LEMMA AdviseKeeps ==
  ASSUME QueueInv, SinkInv, NEW t \in Callers, Advise(t)
  PROVE  SinkInv'
<1> DEFINE c == nextCookie
<1>0. /\ popped \in Seq(Fired) /\ Len(popped) \in Nat /\ MaxSinks \in Nat
      /\ c \in Cookies /\ c \in Nat
  BY BoundsAssumption, LenProperties DEF QueueInv, QueueType, Advise, SinkInv, SinkType, Cookies
<1>1. /\ git' = git \cup {c} /\ sinks' = sinks \cup {c} /\ nextCookie' = c + 1
      /\ since' = [since EXCEPT ![c] = Len(popped)]
      /\ UNCHANGED <<popped, dropping, disp, ev, todo, heard>>
  BY DEF Advise, queueVars, fireVars
<1>2. SinkType'
  BY <1>0, <1>1 DEF SinkInv, SinkType, HeardInv, Cookies
<1>3. RoundInv'
  BY <1>1 DEF SinkInv, RoundInv
<1>4. c \notin todo /\ c \notin sinks /\ heard[c] = <<>>
  BY <1>0 DEF SinkInv, SinkType, FutureInv
<1>5. ListedInv'
  <2> SUFFICES ASSUME NEW s \in sinks'
               PROVE  \E i \in 1 .. since'[s] + 1 : Stretch(popped, heard[s], i, Reached(s))
    BY <1>1 DEF ListedInv, Reached
  <2>1. CASE s = c
    <3>0. Reached(s) \in 0 .. Len(popped)
      <4>1. CASE disp = "fire"
        <5>1. Len(popped) > 0
          BY <1>0, <4>1, EmptySeq DEF SinkInv, RoundInv
        <5> QED BY <1>0, <4>1, <5>1 DEF Reached
      <4>2. CASE disp # "fire"
        BY <1>0, <1>4, <2>1, <4>2 DEF Reached
      <4> QED BY <4>1, <4>2
    <3>1. PICK k \in 0 .. Len(popped) : k = Reached(s)
      BY <3>0
    <3>2. Stretch(popped, heard[s], k + 1, k)
      BY <1>0, <1>4, <2>1, StretchStarts
    <3>3. since'[s] = Len(popped)
      BY <1>0, <1>1, <2>1 DEF SinkInv, SinkType
    <3> QED BY <1>0, <3>1, <3>2, <3>3
  <2>2. CASE s # c
    BY <1>0, <1>1, <2>2 DEF SinkInv, SinkType, ListedInv
  <2> QED BY <2>1, <2>2
<1>6. PastInv'
  <2> SUFFICES ASSUME NEW s \in Cookies \ sinks', s < nextCookie'
               PROVE  \E i \in Nat, k \in Nat :
                        Stretch(popped, heard[s], i, k) /\ (s \in todo => k = Len(popped) - 1)
    BY <1>1 DEF PastInv
  <2>1. s \in Cookies \ sinks /\ s < nextCookie
    BY <1>0, <1>1 DEF Cookies
  <2> QED BY <2>1 DEF SinkInv, PastInv
<1>7. FutureInv'
  BY <1>0, <1>1 DEF SinkInv, FutureInv, Cookies
<1> QED BY <1>2, <1>3, <1>5, <1>6, <1>7 DEF SinkInv

\* A sink that is no longer listed keeps its stretch.
LEMMA UnlistKeeps ==
  ASSUME QueueInv, SinkInv, sinks' \subseteq sinks, git' \subseteq git, sinks' \subseteq git',
         dropping' \in [Callers -> Nat],
         \A t \in Callers : dropping'[t] \notin sinks' /\ dropping'[t] < nextCookie,
         UNCHANGED <<popped, nextCookie, since, disp, ev, todo, heard>>
  PROVE  SinkInv'
<1>0. popped \in Seq(Fired) /\ Len(popped) \in Nat
  BY LenProperties DEF QueueInv, QueueType
<1>1. SinkType' /\ RoundInv' /\ FutureInv'
  BY DEF SinkInv, SinkType, HeardInv, RoundInv, FutureInv
<1>2. ListedInv'
  BY DEF SinkInv, ListedInv, Reached
<1>3. PastInv'
  <2> SUFFICES ASSUME NEW s \in Cookies \ sinks', s < nextCookie
               PROVE  \E i \in Nat, k \in Nat :
                        Stretch(popped, heard[s], i, k) /\ (s \in todo => k = Len(popped) - 1)
    BY DEF PastInv
  <2>1. CASE s \in sinks
    <3>1. PICK i \in 1 .. since[s] + 1 : Stretch(popped, heard[s], i, Reached(s))
      BY <2>1 DEF SinkInv, ListedInv
    <3>2. PICK k \in 0 .. Len(popped) : k = Reached(s)
      BY <3>1 DEF Stretch
    <3>3. i \in Nat /\ k \in Nat
      BY <1>0, <3>1, <3>2 DEF Stretch
    <3>4. s \in todo => k = Len(popped) - 1
      BY <3>2 DEF Reached
    <3> QED BY <3>1, <3>2, <3>3, <3>4
  <2>2. CASE s \notin sinks
    BY <2>2 DEF SinkInv, PastInv
  <2> QED BY <2>1, <2>2
<1> QED BY <1>1, <1>2, <1>3 DEF SinkInv

\* Pop raises one more event, that everyone has yet to hear.
LEMMA RaiseKeeps ==
  ASSUME QueueInv, QueueInv', SinkInv, disp = "drain", disp' = "fire",
         NEW e \in Fired, ev' = e, popped' = Append(popped, e),
         UNCHANGED <<sinkVars, todo, heard>>
  PROVE  SinkInv'
<1>0. /\ popped \in Seq(Fired) /\ Len(popped) \in Nat /\ Len(popped') = Len(popped) + 1
      /\ popped' # <<>> /\ popped'[Len(popped')] = e
  <2>1. popped \in Seq(Fired) /\ Len(popped) \in Nat
    BY LenProperties DEF QueueInv, QueueType
  <2>2. /\ Append(popped, e) # <<>> /\ Len(Append(popped, e)) = Len(popped) + 1
        /\ Append(popped, e)[Len(popped) + 1] = e
    BY <2>1, AppendProperties
  <2> QED BY <2>1, <2>2
<1>1. UNCHANGED <<sinks, git, nextCookie, dropping, since, todo, heard>> /\ todo = {}
  BY DEF sinkVars, SinkInv, RoundInv
<1>2. SinkType' /\ RoundInv' /\ FutureInv'
  BY <1>0, <1>1 DEF SinkInv, SinkType, HeardInv, RoundInv, FutureInv
<1>3. ASSUME NEW h, NEW i, NEW k, Stretch(popped, h, i, k)
      PROVE  Stretch(popped', h, i, k)
  BY <1>0, <1>3, StretchKept
<1>4. ListedInv'
  <2> SUFFICES ASSUME NEW s \in sinks
               PROVE  \E i \in 1 .. since[s] + 1 :
                        Stretch(popped', heard[s], i, Len(popped') - 1)
    BY <1>1 DEF ListedInv, Reached
  <2>1. Reached(s) = Len(popped') - 1
    BY <1>0, <1>1 DEF Reached
  <2>2. PICK i \in 1 .. since[s] + 1 : Stretch(popped, heard[s], i, Reached(s))
    BY DEF SinkInv, ListedInv
  <2> QED BY <1>3, <2>1, <2>2
<1>5. PastInv'
  <2> SUFFICES ASSUME NEW s \in Cookies \ sinks, s < nextCookie
               PROVE  \E i \in Nat, k \in Nat : Stretch(popped', heard[s], i, k)
    BY <1>1 DEF PastInv
  <2> QED BY <1>3 DEF SinkInv, PastInv
<1> QED BY <1>2, <1>4, <1>5 DEF SinkInv

\* Fire's snapshot takes up those that are listed, and none but them.
LEMMA SnapshotKeeps ==
  ASSUME QueueInv, SinkInv, Snapshot
  PROVE  SinkInv'
<1>1. /\ UNCHANGED <<popped, sinks, git, nextCookie, dropping, since, heard>>
      /\ disp = "fire" /\ todo = {} /\ todo' = sinks
      /\ (disp' = "drain" /\ sinks = {}) \/ (disp' = "invoke" /\ ev' = ev)
  BY DEF Snapshot, queueVars, sinkVars, SinkInv, RoundInv
<1>2. SinkType'
  BY <1>1 DEF SinkInv, SinkType, HeardInv
<1>3. RoundInv'
  BY <1>1 DEF SinkInv, RoundInv
<1>4. ListedInv'
  BY <1>1 DEF SinkInv, ListedInv, Reached
<1>5. PastInv'
  BY <1>1 DEF SinkInv, PastInv
<1>6. FutureInv'
  BY <1>1 DEF SinkInv, FutureInv
<1> QED BY <1>2, <1>3, <1>4, <1>5, <1>6 DEF SinkInv

\* The fetch of one sink: it stays with the round, or is gone and passed over.
LEMMA FetchKeeps ==
  ASSUME QueueInv, SinkInv, Fetch
  PROVE  SinkInv'
<1> DEFINE c == Least(todo)
<1>0. Len(popped) \in Nat
  BY LenProperties DEF QueueInv, QueueType
<1>1. /\ UNCHANGED <<popped, sinks, git, nextCookie, dropping, since, ev, heard>>
      /\ disp = "invoke" /\ todo # {}
      /\ \/ disp' = "fetched" /\ todo' = todo
         \/ c \notin git /\ disp' = "invoke" /\ todo' = todo \ {c}
  BY DEF Fetch, queueVars, sinkVars
<1>2. SinkType' /\ RoundInv' /\ FutureInv'
  BY <1>1 DEF SinkInv, SinkType, HeardInv, RoundInv, FutureInv
<1>3. ListedInv'
  <2> SUFFICES ASSUME NEW s \in sinks
               PROVE  \E i \in 1 .. since[s] + 1 : Stretch(popped, heard[s], i, Reached(s)')
    BY <1>1 DEF ListedInv
  <2>1. s \in todo' <=> s \in todo
    BY <1>1 DEF SinkInv, SinkType
  <2> QED BY <1>1, <2>1 DEF SinkInv, ListedInv, Reached
<1>4. PastInv'
  BY <1>1 DEF SinkInv, PastInv
<1> QED BY <1>2, <1>3, <1>4 DEF SinkInv

\* The call of the sink that was fetched: it catches up.
LEMMA InvokeKeeps ==
  ASSUME QueueInv, SinkInv, Invoke
  PROVE  SinkInv'
<1> DEFINE c == Least(todo)
<1>0. /\ popped \in Seq(Fired) /\ Len(popped) \in Nat /\ popped # <<>>
      /\ ev = popped[Len(popped)]
  BY LenProperties DEF QueueInv, QueueType, Invoke, SinkInv, RoundInv
<1>1. /\ UNCHANGED <<popped, sinks, git, nextCookie, dropping, since, ev>>
      /\ disp = "fetched" /\ disp' = "handler" /\ todo' = todo \ {c}
      /\ heard' = [heard EXCEPT ![c] = Append(@, ev)]
  BY DEF Invoke, queueVars, sinkVars
<1>2. c \in todo /\ c \in Cookies
  <2>1. todo \subseteq Nat /\ todo # {} /\ todo \subseteq Cookies
    BY DEF Invoke, SinkInv, SinkType, RoundInv, Cookies
  <2> QED BY <2>1, LeastIsIn
<1> HIDE DEF c
<1>3. SinkType'
  BY <1>1, <1>2 DEF SinkInv, SinkType, HeardInv
<1>4. RoundInv'
  BY <1>0, <1>1 DEF RoundInv
<1>5. (\A s \in Cookies : s # c => heard'[s] = heard[s]) /\ heard'[c] = Append(heard[c], ev)
  BY <1>1, <1>2 DEF SinkInv, SinkType, HeardInv
<1>6. ListedInv'
  <2> SUFFICES ASSUME NEW s \in sinks
               PROVE  \E i \in 1 .. since[s] + 1 :
                        Stretch(popped, heard'[s], i,
                                IF s \in todo' THEN Len(popped) - 1 ELSE Len(popped))
    BY <1>1 DEF ListedInv, Reached
  <2>1. PICK i \in 1 .. since[s] + 1 : Stretch(popped, heard[s], i, Reached(s))
    BY DEF SinkInv, ListedInv
  <2>2. CASE s = c
    <3>1. Stretch(popped, heard[s], i, Len(popped) - 1)
      BY <1>2, <2>1, <2>2 DEF Reached
    <3>2. s \notin todo'
      BY <1>1, <2>2
    <3> QED BY <1>0, <1>5, <2>2, <3>1, <3>2, StretchGrows
  <2>3. CASE s # c
    <3>1. s \in Cookies /\ (s \in todo' <=> s \in todo)
      BY <1>1, <2>3 DEF SinkInv, SinkType
    <3> QED BY <1>1, <1>5, <2>1, <2>3, <3>1 DEF Reached
  <2> QED BY <2>2, <2>3
<1>7. PastInv'
  <2> SUFFICES ASSUME NEW s \in Cookies \ sinks, s < nextCookie
               PROVE  \E i \in Nat, k \in Nat :
                        Stretch(popped, heard'[s], i, k) /\ (s \in todo' => k = Len(popped) - 1)
    BY <1>1 DEF PastInv
  <2>1. PICK i \in Nat, k \in Nat :
          Stretch(popped, heard[s], i, k) /\ (s \in todo => k = Len(popped) - 1)
    BY DEF SinkInv, PastInv
  <2>2. CASE s = c
    <3>1. Stretch(popped, heard[s], i, Len(popped) - 1)
      BY <1>2, <2>1, <2>2
    <3> QED BY <1>0, <1>1, <1>5, <2>2, <3>1, StretchGrows
  <2>3. CASE s # c
    BY <1>1, <1>5, <2>1, <2>3
  <2> QED BY <2>2, <2>3
<1>8. FutureInv'
  BY <1>1, <1>2, <1>5 DEF SinkInv, SinkType, FutureInv, Cookies
<1> QED BY <1>3, <1>4, <1>6, <1>7, <1>8 DEF SinkInv

\* The other steps of the dispatch thread leave every sink where it is.
LEMMA RestKeeps ==
  ASSUME SinkInv, UNCHANGED <<popped, sinkVars, todo, heard>>, disp # "fire", disp' # "fire",
         disp' \in {"invoke", "handler"} => disp \in {"invoke", "handler"} /\ ev' = ev,
         disp' \notin {"invoke", "handler"} => todo = {}, disp' # "fetched"
  PROVE  SinkInv'
<1>1. UNCHANGED <<popped, sinks, git, nextCookie, dropping, since, todo, heard>>
  BY DEF sinkVars
<1>2. SinkType' /\ RoundInv' /\ FutureInv'
  BY <1>1 DEF SinkInv, SinkType, HeardInv, RoundInv, FutureInv
<1>3. ListedInv' /\ PastInv'
  BY <1>1 DEF SinkInv, ListedInv, PastInv, Reached
<1> QED BY <1>2, <1>3 DEF SinkInv

\* Every step keeps the sinks' invariant.
LEMMA SinkNext == QueueInv /\ QueueInv' /\ SinkInv /\ [Next]_vars => SinkInv'
<1> SUFFICES ASSUME QueueInv, QueueInv', SinkInv, [Next]_vars PROVE SinkInv'
  OBVIOUS
<1>1. ASSUME NEW t \in Callers, Advise(t) PROVE SinkInv'
  BY <1>1, AdviseKeeps
<1>2. ASSUME NEW t \in Callers, NEW s \in Cookies, Unlist(t, s) PROVE SinkInv'
  <2>1. /\ sinks' = sinks \ {s} /\ s \in sinks /\ dropping' = [dropping EXCEPT ![t] = s]
        /\ UNCHANGED <<popped, git, nextCookie, since, disp, ev, todo, heard>>
    BY <1>2 DEF Unlist, queueVars, fireVars
  <2>2. /\ dropping' \in [Callers -> Nat] /\ sinks' \subseteq git'
        /\ \A u \in Callers : dropping'[u] \notin sinks' /\ dropping'[u] < nextCookie
    BY <2>1 DEF SinkInv, SinkType, Cookies
  <2> QED BY <2>1, <2>2, UnlistKeeps
<1>3. CASE (\E t \in Callers : Revoke(t)) \/ Freed
  <2>1. ASSUME NEW t \in Callers, Revoke(t) PROVE SinkInv'
    <3>1. /\ git' = git \ {dropping[t]} /\ dropping' = [dropping EXCEPT ![t] = 0]
          /\ UNCHANGED <<popped, sinks, nextCookie, since, disp, ev, todo, heard>>
      BY <2>1 DEF Revoke, queueVars, fireVars
    <3>2. MaxSinks \in Nat
      BY BoundsAssumption
    <3>3. /\ dropping' \in [Callers -> Nat] /\ sinks' \subseteq git'
          /\ \A u \in Callers : dropping'[u] \notin sinks' /\ dropping'[u] < nextCookie
      BY <3>1, <3>2 DEF SinkInv, SinkType, Cookies
    <3> QED BY <3>1, <3>3, UnlistKeeps
  <2>2. CASE Freed
    BY <2>2, UnlistKeeps DEF Freed, queueVars, fireVars, SinkInv, SinkType
  <2> QED BY <1>3, <2>1, <2>2
<1>4. CASE Pop
  <2>1. disp = "drain" /\ UNCHANGED <<sinkVars, todo, heard>>
    BY <1>4 DEF Pop
  <2>2. CASE disp' = "fire"
    <3>1. ev' \in Fired /\ popped' = Append(popped, ev')
      <4>1. CASE queue # <<>> /\ ev' = Head(queue) /\ popped' = Append(popped, ev')
        BY <4>1, HeadTailProperties DEF QueueInv, QueueType, Fired
      <4>2. CASE cDropped # 0 /\ ev' = [kind |-> "gap", n |-> cDropped]
                 /\ popped' = Append(popped, ev')
        BY <4>2 DEF QueueInv, QueueType, Fired
      <4> QED BY <1>4, <2>2, <4>1, <4>2 DEF Pop, Drained
    <3>2. PICK e \in Fired : e = ev'
      BY <3>1
    <3> QED BY <2>1, <2>2, <3>1, <3>2, RaiseKeeps
  <2>3. CASE disp' # "fire"
    BY <1>4, <2>3, RestKeeps DEF Pop, Drained, SinkInv, RoundInv
  <2> QED BY <2>2, <2>3
<1>5. CASE Snapshot
  BY <1>5, SnapshotKeeps
<1>6. CASE Fetch \/ Invoke
  BY <1>6, FetchKeeps, InvokeKeeps
<1>7. CASE Wake \/ HandlerReturns \/ FireDone \/ ThreadEnds
  BY <1>7, RestKeeps DEF Wake, HandlerReturns, FireDone, ThreadEnds, queueVars, SinkInv, RoundInv
<1>8. CASE UNCHANGED <<popped, sinkVars, disp, ev, todo, heard>>
  BY <1>8 DEF sinkVars, SinkInv, SinkType, HeardInv, RoundInv, FutureInv, ListedInv, PastInv,
              Reached
<1> QED BY <1>1, <1>2, <1>3, <1>4, <1>5, <1>6, <1>7, <1>8, SinkSteps
        DEF DispatchStep, vars, queueVars, fireVars

\* A sink hears every event raised while it is advised, once and in turn, in
\* spite of Fire's snapshot and of sinks that come and go meanwhile.
THEOREM SinksHearAll == Spec => []HeardWithoutGaps
<1>1. Init => SinkInv
  <2> SUFFICES ASSUME Init PROVE SinkInv
    OBVIOUS
  <2>1. MaxSinks \in Nat
    BY BoundsAssumption
  <2>2. SinkType /\ RoundInv /\ ListedInv /\ FutureInv
    BY <2>1 DEF Init, SinkType, HeardInv, RoundInv, ListedInv, FutureInv
  <2>3. PastInv
    BY DEF Init, PastInv, Cookies
  <2> QED BY <2>2, <2>3 DEF SinkInv
<1>2. QueueInv /\ SinkInv => HeardWithoutGaps
  <2> SUFFICES ASSUME QueueInv, SinkInv, NEW s \in Cookies, s < nextCookie
               PROVE  \E i \in 1 .. Len(popped) + 1, j \in 0 .. Len(popped) :
                        /\ heard[s] = SubSeq(popped, i, j)
                        /\ s \in sinks /\ disp \in {"wait", "drain"} =>
                             j = Len(popped) /\ i <= since[s] + 1
    BY DEF HeardWithoutGaps
  <2>0. Len(popped) \in Nat
    BY LenProperties DEF QueueInv, QueueType
  <2>1. CASE s \in sinks
    <3>1. PICK i \in 1 .. since[s] + 1 : Stretch(popped, heard[s], i, Reached(s))
      BY <2>1 DEF SinkInv, ListedInv
    <3>2. disp \in {"wait", "drain"} => Reached(s) = Len(popped)
      BY DEF Reached, SinkInv, RoundInv
    <3>3. since[s] \in Nat
      BY DEF SinkInv, SinkType
    <3>4. /\ i \in 1 .. Len(popped) + 1 /\ Reached(s) \in 0 .. Len(popped)
          /\ heard[s] = SubSeq(popped, i, Reached(s)) /\ i <= since[s] + 1
      BY <3>1, <3>3 DEF Stretch
    <3> QED BY <3>2, <3>4
  <2>2. CASE s \notin sinks
    BY <2>2 DEF SinkInv, PastInv, Stretch
  <2> QED BY <2>1, <2>2
<1> QED BY <1>1, <1>2, SpecQueueInv, SinkNext, PTL DEF Spec

-----------------------------------------------------------------------------
(* The life of the object *)

NewSteps == {"creating", "created", "failed"}

LifeType ==
  /\ at \in [Callers -> Steps] /\ holds \subseteq Clients
  /\ quit \in BOOLEAN /\ hubClosed \in BOOLEAN
  /\ pHub \in BOOLEAN /\ pOwner \in BOOLEAN /\ inNet \in BOOLEAN
  /\ refs \in Int /\ kernel \in {"none", "open", "closing", "deleted"}

\* A client in a call holds a reference, or is still creating the hub.
ClientInv ==
  /\ \A c \in Clients : at[c] # "out" => c \in holds \/ at[c] \in NewSteps
  /\ at[Disp] \notin NewSteps /\ at[Net] \notin NewSteps

\* While the hub is created nobody but its creator and the dispatch thread can
\* know of it.
NewInv ==
  \A c \in Clients : at[c] \in NewSteps =>
    /\ holds = {} /\ net = "held" /\ ~inNet /\ ~pHub /\ pOwner /\ sinks = {}
    /\ disp \notin {"invoke", "fetched", "handler"}
    /\ \A t \in Callers \ {c, Disp} : at[t] = "out"
    /\ at[c] # "failed" =>
         ~quit /\ ~hubClosed /\ at[Disp] = "out" /\ disp \notin {"leave", "gone"}
    /\ kernel = IF at[c] = "created" THEN "open" ELSE "none"

\* The dispatch thread is in a call from a handler, or on its way out; when it
\* has passed CloseKernelHub the hub is closed.
DispInv ==
  /\ disp \notin {"handler", "leave"} => at[Disp] = "out"
  /\ disp = "leave" => at[Disp] \in {"claim", "closing", "out"}
  /\ disp = "handler" => at[Disp] \in {"out", "owner", "clear", "forget"}
  /\ disp \in {"leave", "gone"} /\ at[Disp] = "out" => hubClosed

\* The network closes what it listed only while it sweeps.
NetInv == (at[Net] # "out" => net = "sweeping") /\ (net # "held" => ~inNet)

\* The facade's hub is open, has someone to close it, or is closed; its pump
\* runs in the first two cases only.
KernelInv ==
  /\ kernel \in {"none", "deleted"} => pump = "idle"
  /\ kernel = "closing" => \E t \in Callers : at[t] = "closing"
  /\ hubClosed => kernel # "open"
  /\ kernel = "open" /\ ~hubClosed => pHub \/ \E c \in Clients : at[c] = "created"

\* An entry of the network's list has someone to take it out, and the facade's
\* hub is closed by one thread.
OwnerInv ==
  /\ inNet => pOwner \/ \E t \in Callers : at[t] = "forget"
  /\ \A t, u \in Callers : at[t] = "closing" /\ at[u] = "closing" => t = u
  /\ \A t \in Callers : at[t] = "closing" => hubClosed /\ kernel = "closing"

LifeInv ==
  /\ LifeType /\ ClientInv /\ NewInv /\ DispInv /\ NetInv /\ KernelInv /\ OwnerInv

\* The life's invariant holds at the start.
LEMMA LifeInit == Init => LifeInv
<1> SUFFICES ASSUME Init PROVE LifeInv
  OBVIOUS
<1>0. PICK c \in Clients : at = [t \in Callers |-> IF t = c THEN "creating" ELSE "out"]
  BY DEF Init
<1>1. LifeType /\ ClientInv
  <2>1. at \in [Callers -> Steps]
    BY <1>0 DEF Callers, Steps
  <2>2. LifeType
    <3>1. quit \in BOOLEAN /\ hubClosed \in BOOLEAN /\ pHub \in BOOLEAN /\ pOwner \in BOOLEAN
          /\ inNet \in BOOLEAN
      BY DEF Init
    <3>2. refs \in Int /\ holds \subseteq Clients
          /\ kernel \in {"none", "open", "closing", "deleted"}
      BY DEF Init
    <3> QED BY <2>1, <3>1, <3>2 DEF LifeType
  <2>3. ClientInv
    BY <1>0, ThreadsAssumption DEF ClientInv, NewSteps, Callers
  <2> QED BY <2>2, <2>3
<1>2. NewInv /\ DispInv /\ NetInv
  BY <1>0, ThreadsAssumption DEF Init, NewInv, DispInv, NetInv, NewSteps, Callers
<1>3. KernelInv /\ OwnerInv
  BY <1>0, ThreadsAssumption DEF Init, KernelInv, OwnerInv, Callers
<1> QED BY <1>1, <1>2, <1>3 DEF LifeInv

\* Every step keeps it.
LEMMA LifeNext == LifeInv /\ [Next]_vars => LifeInv'
<1> SUFFICES ASSUME LifeInv, [Next]_vars PROVE LifeInv'
  OBVIOUS
<1> USE ThreadsAssumption
    DEF LifeInv, LifeType, ClientInv, NewInv, DispInv, NetInv, KernelInv, OwnerInv, NewSteps,
        Callers, Steps, Goto, queueVars, sinkVars, fireVars, lifeVars, pumpVars
<1>1. ASSUME NEW c \in Clients, CreateHub(c) PROVE LifeInv'
  <2>1. LifeType'
    <3>1. at' \in [Callers -> Steps]
      BY <1>1 DEF CreateHub
    <3>2. refs' \in Int /\ holds' \subseteq Clients
      BY <1>1 DEF CreateHub
    <3>3. quit' \in BOOLEAN
      BY <1>1 DEF CreateHub
    <3>4. hubClosed' \in BOOLEAN
      BY <1>1 DEF CreateHub
    <3>5. pHub' \in BOOLEAN
      BY <1>1 DEF CreateHub
    <3>6. pOwner' \in BOOLEAN
      BY <1>1 DEF CreateHub
    <3>7. inNet' \in BOOLEAN
      BY <1>1 DEF CreateHub
    <3>8. kernel' \in {"none", "open", "closing", "deleted"}
      BY <1>1 DEF CreateHub
    <3> QED BY <3>1, <3>2, <3>3, <3>4, <3>5, <3>6, <3>7, <3>8
  <2>2. ClientInv'
    BY <1>1 DEF CreateHub
  <2>3. NewInv'
    BY <1>1 DEF CreateHub
  <2>4. DispInv'
    BY <1>1 DEF CreateHub
  <2>5. NetInv'
    BY <1>1 DEF CreateHub
  <2>6. KernelInv'
    BY <1>1 DEF CreateHub
  <2>7. OwnerInv'
    BY <1>1 DEF CreateHub
  <2> HIDE DEF LifeType, ClientInv, NewInv, DispInv, NetInv, KernelInv, OwnerInv
  <2> QED BY <2>1, <2>2, <2>3, <2>4, <2>5, <2>6, <2>7
<1>2. ASSUME NEW c \in Clients, ListHub(c) PROVE LifeInv'
  BY <1>2 DEF ListHub
<1>3. ASSUME NEW c \in Clients, Abandon(c) PROVE LifeInv'
  BY <1>3 DEF Abandon
<1>4. ASSUME NEW c \in Clients, EnterCall(c) PROVE LifeInv'
  BY <1>4 DEF EnterCall, MayCall
<1>5. ASSUME NEW c \in Clients, ReturnCall(c) PROVE LifeInv'
  BY <1>5 DEF ReturnCall
<1>6. ASSUME NEW c \in Clients, ReleaseHub(c) PROVE LifeInv'
  BY <1>6 DEF ReleaseHub
<1>7. CASE Report
  BY <1>7 DEF Report
<1>8. CASE PumpStep
  BY <1>8 DEF PumpStep, CheckHub, ReadMessage, Push, Signal
<1>9. CASE Wake
  BY <1>9 DEF Wake
<1>10. CASE Pop
  BY <1>10 DEF Pop, Drained
<1>11. CASE Snapshot
  BY <1>11 DEF Snapshot
<1>12. CASE Fetch \/ Invoke
  BY <1>12 DEF Fetch, Invoke
<1>13. CASE HandlerReturns
  BY <1>13 DEF HandlerReturns
<1>14. CASE FireDone
  BY <1>14 DEF FireDone
<1>15. CASE ThreadEnds
  BY <1>15 DEF ThreadEnds
<1>16. ASSUME NEW t \in Callers, Advise(t) PROVE LifeInv'
  BY <1>16 DEF Advise, MayCall
<1>17. ASSUME NEW t \in Callers, NEW s \in Cookies, Unlist(t, s) PROVE LifeInv'
  BY <1>17 DEF Unlist
<1>18. CASE (\E t \in Callers : Revoke(t)) \/ Freed
  BY <1>18 DEF Revoke, Freed
<1>19. ASSUME NEW t \in Callers, Close(t) PROVE LifeInv'
  BY <1>19 DEF Close, BeginClose, MayCall
<1>20. ASSUME NEW t \in Callers, Claim(t) PROVE LifeInv'
  <2>1. LifeType'
    <3>1. at' \in [Callers -> Steps]
      BY <1>20 DEF Claim, AfterKernel
    <3>2. refs' \in Int /\ holds' \subseteq Clients
      BY <1>20 DEF Claim, AfterKernel
    <3>3. quit' \in BOOLEAN
      BY <1>20 DEF Claim, AfterKernel
    <3>4. hubClosed' \in BOOLEAN
      BY <1>20 DEF Claim, AfterKernel
    <3>5. pHub' \in BOOLEAN
      BY <1>20 DEF Claim, AfterKernel
    <3>6. pOwner' \in BOOLEAN
      BY <1>20 DEF Claim, AfterKernel
    <3>7. inNet' \in BOOLEAN
      BY <1>20 DEF Claim, AfterKernel
    <3>8. kernel' \in {"none", "open", "closing", "deleted"}
      BY <1>20 DEF Claim, AfterKernel
    <3> QED BY <3>1, <3>2, <3>3, <3>4, <3>5, <3>6, <3>7, <3>8
  <2>2. ClientInv'
    BY <1>20 DEF Claim, AfterKernel
  <2>3. NewInv'
    BY <1>20 DEF Claim, AfterKernel
  <2>4. DispInv'
    BY <1>20 DEF Claim, AfterKernel
  <2>5. NetInv'
    BY <1>20 DEF Claim, AfterKernel
  <2>6. KernelInv'
    BY <1>20 DEF Claim, AfterKernel
  <2>7. OwnerInv'
    BY <1>20 DEF Claim, AfterKernel
  <2> HIDE DEF LifeType, ClientInv, NewInv, DispInv, NetInv, KernelInv, OwnerInv
  <2> QED BY <2>1, <2>2, <2>3, <2>4, <2>5, <2>6, <2>7
<1>21. ASSUME NEW t \in Callers, KernelClosed(t) PROVE LifeInv'
  <2>1. LifeType'
    BY <1>21 DEF KernelClosed, AfterKernel
  <2>2. ClientInv'
    BY <1>21 DEF KernelClosed, AfterKernel
  <2>3. NewInv'
    BY <1>21 DEF KernelClosed, AfterKernel
  <2>4. DispInv'
    BY <1>21 DEF KernelClosed, AfterKernel
  <2>5. NetInv'
    BY <1>21 DEF KernelClosed, AfterKernel
  <2>6. KernelInv'
    BY <1>21 DEF KernelClosed, AfterKernel
  <2>7. OwnerInv'
    BY <1>21 DEF KernelClosed, AfterKernel
  <2> HIDE DEF LifeType, ClientInv, NewInv, DispInv, NetInv, KernelInv, OwnerInv
  <2> QED BY <2>1, <2>2, <2>3, <2>4, <2>5, <2>6, <2>7
<1>22. ASSUME NEW t \in Callers, ReadOwner(t) PROVE LifeInv'
  BY <1>22 DEF ReadOwner, AfterClose
<1>23. ASSUME NEW t \in Callers, ClearOwner(t) PROVE LifeInv'
  <2>1. LifeType'
    <3>1. at' \in [Callers -> Steps]
      BY <1>23 DEF ClearOwner
    <3>2. refs' \in Int /\ holds' \subseteq Clients
      BY <1>23 DEF ClearOwner
    <3>3. quit' \in BOOLEAN
      BY <1>23 DEF ClearOwner
    <3>4. hubClosed' \in BOOLEAN
      BY <1>23 DEF ClearOwner
    <3>5. pHub' \in BOOLEAN
      BY <1>23 DEF ClearOwner
    <3>6. pOwner' \in BOOLEAN
      BY <1>23 DEF ClearOwner
    <3>7. inNet' \in BOOLEAN
      BY <1>23 DEF ClearOwner
    <3>8. kernel' \in {"none", "open", "closing", "deleted"}
      BY <1>23 DEF ClearOwner
    <3> QED BY <3>1, <3>2, <3>3, <3>4, <3>5, <3>6, <3>7, <3>8
  <2>2. ClientInv'
    BY <1>23 DEF ClearOwner
  <2>3. NewInv'
    BY <1>23 DEF ClearOwner
  <2>4. DispInv'
    BY <1>23 DEF ClearOwner
  <2>5. NetInv'
    BY <1>23 DEF ClearOwner
  <2>6. KernelInv'
    BY <1>23 DEF ClearOwner
  <2>7. OwnerInv'
    BY <1>23 DEF ClearOwner
  <2> HIDE DEF LifeType, ClientInv, NewInv, DispInv, NetInv, KernelInv, OwnerInv
  <2> QED BY <2>1, <2>2, <2>3, <2>4, <2>5, <2>6, <2>7
<1>24. ASSUME NEW t \in Callers, ForgetHub(t) PROVE LifeInv'
  <2>1. LifeType'
    <3>1. at' \in [Callers -> Steps]
      BY <1>24 DEF ForgetHub, AfterClose
    <3>2. refs' \in Int /\ holds' \subseteq Clients
      BY <1>24 DEF ForgetHub, AfterClose
    <3>3. quit' \in BOOLEAN
      BY <1>24 DEF ForgetHub, AfterClose
    <3>4. hubClosed' \in BOOLEAN
      BY <1>24 DEF ForgetHub, AfterClose
    <3>5. pHub' \in BOOLEAN
      BY <1>24 DEF ForgetHub, AfterClose
    <3>6. pOwner' \in BOOLEAN
      BY <1>24 DEF ForgetHub, AfterClose
    <3>7. inNet' \in BOOLEAN
      BY <1>24 DEF ForgetHub, AfterClose
    <3>8. kernel' \in {"none", "open", "closing", "deleted"}
      BY <1>24 DEF ForgetHub, AfterClose
    <3> QED BY <3>1, <3>2, <3>3, <3>4, <3>5, <3>6, <3>7, <3>8
  <2>2. ClientInv'
    BY <1>24 DEF ForgetHub, AfterClose
  <2>3. NewInv'
    BY <1>24 DEF ForgetHub, AfterClose
  <2>4. DispInv'
    BY <1>24 DEF ForgetHub, AfterClose
  <2>5. NetInv'
    BY <1>24 DEF ForgetHub, AfterClose
  <2>6. KernelInv'
    BY <1>24 DEF ForgetHub, AfterClose
  <2>7. OwnerInv'
    BY <1>24 DEF ForgetHub, AfterClose
  <2> HIDE DEF LifeType, ClientInv, NewInv, DispInv, NetInv, KernelInv, OwnerInv
  <2> QED BY <2>1, <2>2, <2>3, <2>4, <2>5, <2>6, <2>7
<1>25. CASE SweepHubs
  <2>1. LifeType'
    <3>1. at' \in [Callers -> Steps]
      BY <1>25 DEF SweepHubs, BeginClose
    <3>2. refs' \in Int /\ holds' \subseteq Clients
      BY <1>25 DEF SweepHubs, BeginClose
    <3>3. quit' \in BOOLEAN
      BY <1>25 DEF SweepHubs, BeginClose
    <3>4. hubClosed' \in BOOLEAN
      BY <1>25 DEF SweepHubs, BeginClose
    <3>5. pHub' \in BOOLEAN
      BY <1>25 DEF SweepHubs, BeginClose
    <3>6. pOwner' \in BOOLEAN
      BY <1>25 DEF SweepHubs, BeginClose
    <3>7. inNet' \in BOOLEAN
      BY <1>25 DEF SweepHubs, BeginClose
    <3>8. kernel' \in {"none", "open", "closing", "deleted"}
      BY <1>25 DEF SweepHubs, BeginClose
    <3> QED BY <3>1, <3>2, <3>3, <3>4, <3>5, <3>6, <3>7, <3>8
  <2>2. ClientInv'
    BY <1>25 DEF SweepHubs, BeginClose
  <2>3. NewInv'
    BY <1>25 DEF SweepHubs, BeginClose
  <2>4. DispInv'
    BY <1>25 DEF SweepHubs, BeginClose
  <2>5. NetInv'
    BY <1>25 DEF SweepHubs, BeginClose
  <2>6. KernelInv'
    BY <1>25 DEF SweepHubs, BeginClose
  <2>7. OwnerInv'
    BY <1>25 DEF SweepHubs, BeginClose
  <2> HIDE DEF LifeType, ClientInv, NewInv, DispInv, NetInv, KernelInv, OwnerInv
  <2> QED BY <2>1, <2>2, <2>3, <2>4, <2>5, <2>6, <2>7
<1>26. CASE NetGone
  BY <1>26 DEF NetGone
<1>27. CASE UNCHANGED vars
  BY <1>27 DEF vars
<1> HIDE ThreadsAssumption
    DEF LifeInv, LifeType, ClientInv, NewInv, DispInv, NetInv, KernelInv, OwnerInv, NewSteps,
        Callers, Steps, Goto, queueVars, sinkVars, fireVars, lifeVars, pumpVars
<1>28. ASSUME NEW t \in Callers, Begin(t) PROVE LifeInv'
  BY <1>4, <1>6, <1>16, <1>17, <1>19, <1>28 DEF Begin, EnterCall
<1>29. ASSUME NEW t \in Callers, CallStep(t) PROVE LifeInv'
  BY <1>1, <1>2, <1>3, <1>5, <1>18, <1>20, <1>21, <1>22, <1>23, <1>24, <1>29 DEF CallStep
<1>30. CASE DispatchStep
  BY <1>9, <1>10, <1>11, <1>12, <1>13, <1>14, <1>15, <1>30 DEF DispatchStep
<1> QED BY <1>7, <1>8, <1>18, <1>25, <1>26, <1>27, <1>28, <1>29, <1>30 DEF Next

-----------------------------------------------------------------------------
(* The reference count *)

IsNew == \E c \in Clients : at[c] \in NewSteps
Bit(b) == IF b THEN 1 ELSE 0

\* The object is held by its clients, by its dispatch thread, by the network's
\* list, by its creator until it is listed, and twice by the sweep.
CountInv ==
  refs = Cardinality(holds) + Bit(disp # "gone") + Bit(inNet) + Bit(IsNew)
           + 2 * Bit(at[Net] # "out")

\* What leaves all of those alone leaves the count right.
LEMMA CountFrame ==
  ASSUME CountInv, UNCHANGED <<refs, holds, inNet>>, IsNew' <=> IsNew,
         disp' = "gone" <=> disp = "gone", at'[Net] = "out" <=> at[Net] = "out"
  PROVE  CountInv'
BY DEF CountInv, Bit

\* Every step keeps the count.
LEMMA CountNext == LifeInv /\ CountInv /\ [Next]_vars => CountInv'
<1> SUFFICES ASSUME LifeInv, CountInv, [Next]_vars PROVE CountInv'
  OBVIOUS
<1>0. /\ IsFiniteSet(holds) /\ Cardinality(holds) \in Nat /\ Cardinality(Clients) \in Nat
      /\ Cardinality({}) = 0
  BY FiniteAssumption, FS_Subset, FS_CardinalityType, FS_EmptySet DEF LifeInv, LifeType
<1>1. ASSUME NEW c \in Clients, CreateHub(c) PROVE CountInv'
  <2>1. IsNew /\ IsNew'
    BY <1>1 DEF CreateHub, Goto, LifeInv, LifeType, Callers, IsNew, NewSteps
  <2>2. UNCHANGED <<refs, holds, inNet, disp>> /\ at'[Net] = at[Net]
    BY <1>1, ThreadsAssumption DEF CreateHub, Goto, LifeInv, LifeType, Callers, fireVars
  <2> QED BY <2>1, <2>2, CountFrame
<1>2. ASSUME NEW c \in Clients, ListHub(c) PROVE CountInv'
  <2>1. IsNew /\ ~IsNew' /\ at[Net] = "out" /\ at'[Net] = "out"
    BY <1>2, ThreadsAssumption
       DEF ListHub, Goto, LifeInv, LifeType, NewInv, Callers, IsNew, NewSteps
  <2>2. holds = {} /\ holds' = Clients /\ ~inNet /\ inNet' /\ disp' = disp
        /\ refs' = refs + Cardinality(Clients)
    BY <1>2 DEF ListHub, LifeInv, NewInv, NewSteps, fireVars
  <2>3. disp # "gone"
    BY <1>2 DEF ListHub, LifeInv, NewInv, NewSteps
  <2>4. refs = 2
    BY <1>0, <2>1, <2>2, <2>3 DEF CountInv, Bit
  <2> QED BY <1>0, <2>1, <2>2, <2>3, <2>4 DEF CountInv, Bit
<1>3. ASSUME NEW c \in Clients, Abandon(c) PROVE CountInv'
  <2>1. IsNew /\ ~IsNew' /\ at'[Net] = at[Net]
    BY <1>3, ThreadsAssumption
       DEF Abandon, Goto, LifeInv, LifeType, NewInv, ClientInv, Callers, IsNew, NewSteps
  <2>2. UNCHANGED <<holds, inNet, disp>> /\ refs' = refs - 1
    BY <1>3 DEF Abandon, fireVars
  <2> QED BY <1>0, <2>1, <2>2 DEF CountInv, Bit
<1>4. CASE ThreadEnds
  BY <1>0, <1>4 DEF ThreadEnds, CountInv, Bit, IsNew
<1>5. ASSUME NEW t \in Callers, ForgetHub(t) PROVE CountInv'
  <2>1. IsNew' <=> IsNew
    BY <1>5 DEF ForgetHub, AfterClose, Goto, LifeInv, LifeType, Callers, IsNew, NewSteps
  <2>2. (at'[Net] = "out" <=> at[Net] = "out") /\ disp' = disp /\ holds' = holds
    BY <1>5 DEF ForgetHub, AfterClose, Goto, LifeInv, LifeType, Callers, fireVars
  <2>3. CASE net = "gone" \/ ~inNet
    <3>1. inNet' = inNet /\ refs' = refs
      BY <1>5, <2>3 DEF ForgetHub, LifeInv, LifeType, NetInv
    <3> QED BY <2>1, <2>2, <3>1, CountFrame
  <2>4. CASE net # "gone" /\ inNet
    <3>1. ~inNet' /\ refs' = refs - 1
      BY <1>5, <2>4 DEF ForgetHub
    <3> QED BY <1>0, <2>1, <2>2, <2>4, <3>1 DEF CountInv, Bit
  <2> QED BY <2>3, <2>4
<1>6. ASSUME NEW c \in Clients, ReleaseHub(c) PROVE CountInv'
  <2>1. Cardinality(holds \ {c}) = Cardinality(holds) - 1
    BY <1>0, <1>6, FS_RemoveElement DEF ReleaseHub
  <2>2. holds' = holds \ {c} /\ refs' = refs - 1 /\ UNCHANGED <<at, inNet, disp>>
    BY <1>6 DEF ReleaseHub, fireVars
  <2> QED BY <1>0, <2>1, <2>2 DEF CountInv, Bit, IsNew
<1>7. CASE SweepHubs
  <2>1. ~IsNew /\ ~IsNew' /\ disp' = disp /\ holds' = holds
    BY <1>7, ThreadsAssumption
       DEF SweepHubs, BeginClose, Goto, LifeInv, LifeType, Callers, IsNew, NewSteps, fireVars
  <2>2. CASE inNet
    <3>1. at[Net] = "out" /\ at'[Net] # "out" /\ ~inNet' /\ refs' = refs + 1
      BY <1>7, <2>2, ThreadsAssumption DEF SweepHubs, BeginClose, Goto, LifeInv, LifeType, Callers
    <3> QED BY <1>0, <2>1, <2>2, <3>1 DEF CountInv, Bit
  <2>3. CASE ~inNet
    <3>1. at' = at /\ refs' = refs /\ ~inNet'
      BY <1>7, <2>3 DEF SweepHubs
    <3> QED BY <1>0, <2>1, <2>3, <3>1 DEF CountInv, Bit
  <2> QED BY <2>2, <2>3
<1>8. CASE NetGone
  <2>1. (IsNew' <=> IsNew) /\ at'[Net] = "out" /\ UNCHANGED <<disp, holds, inNet>>
    BY <1>8, ThreadsAssumption
       DEF NetGone, Goto, LifeInv, LifeType, Callers, IsNew, NewSteps, fireVars
  <2>2. \/ at[Net] = "drop" /\ refs' = refs - 2
        \/ at[Net] = "out" /\ refs' = refs
    <3>1. at[Net] \in {"drop", "out"}
          /\ refs' = IF at[Net] = "drop" THEN refs - 2 ELSE refs
      BY <1>8 DEF NetGone
    <3> QED BY <3>1
  <2>3. CASE at[Net] = "drop" /\ refs' = refs - 2
    BY <1>0, <2>1, <2>3 DEF CountInv, Bit
  <2>4. CASE at[Net] = "out" /\ refs' = refs
    BY <2>1, <2>4, CountFrame
  <2> QED BY <2>2, <2>3, <2>4
<1>9. ASSUME NEW t \in Callers,
             Claim(t) \/ KernelClosed(t) \/ ReadOwner(t) \/ ClearOwner(t)
      PROVE  CountInv'
  <2>1. IsNew' <=> IsNew
    BY <1>9 DEF Claim, KernelClosed, ReadOwner, ClearOwner, AfterKernel, AfterClose, Goto,
                LifeInv, LifeType, Callers, IsNew, NewSteps
  <2>2. at'[Net] = "out" <=> at[Net] = "out"
    BY <1>9, ThreadsAssumption
       DEF Claim, KernelClosed, ReadOwner, ClearOwner, AfterKernel, AfterClose, Goto,
           LifeInv, LifeType, Callers
  <2>3. UNCHANGED <<refs, holds, inNet, disp>>
    BY <1>9 DEF Claim, KernelClosed, ReadOwner, ClearOwner, fireVars, lifeVars
  <2> QED BY <2>1, <2>2, <2>3, CountFrame
<1>10. ASSUME NEW c \in Clients, EnterCall(c) \/ ReturnCall(c) PROVE CountInv'
  <2>1. (IsNew' <=> IsNew) /\ at'[Net] = at[Net]
    BY <1>10, ThreadsAssumption
       DEF EnterCall, ReturnCall, MayCall, Goto, LifeInv, LifeType, Callers, IsNew, NewSteps
  <2>2. UNCHANGED <<refs, holds, inNet, disp>>
    BY <1>10 DEF EnterCall, ReturnCall, fireVars, lifeVars
  <2> QED BY <2>1, <2>2, CountFrame
<1>11. ASSUME NEW t \in Callers, Close(t) PROVE CountInv'
  <2>1. (IsNew' <=> IsNew) /\ at'[Net] = at[Net]
    BY <1>11, ThreadsAssumption
       DEF Close, BeginClose, MayCall, Goto, LifeInv, LifeType, Callers, IsNew, NewSteps
  <2>2. UNCHANGED <<refs, holds, inNet, disp>>
    BY <1>11 DEF Close, fireVars, lifeVars
  <2> QED BY <2>1, <2>2, CountFrame
<1>12. CASE Pop
  <2>1. (IsNew' <=> IsNew) /\ at'[Net] = at[Net] /\ disp # "gone" /\ disp' # "gone"
    BY <1>12, ThreadsAssumption
       DEF Pop, Drained, Goto, LifeInv, LifeType, DispInv, Callers, IsNew, NewSteps
  <2>2. UNCHANGED <<refs, holds, inNet>>
    BY <1>12 DEF Pop, lifeVars
  <2> QED BY <2>1, <2>2, CountFrame
<1>13. CASE Wake \/ Snapshot \/ Fetch \/ Invoke \/ HandlerReturns \/ FireDone
  <2>1. UNCHANGED <<refs, holds, inNet, at>> /\ disp # "gone" /\ disp' # "gone"
    BY <1>13 DEF Wake, Snapshot, Fetch, Invoke, HandlerReturns, FireDone, lifeVars
  <2>2. IsNew' <=> IsNew
    BY <2>1 DEF IsNew
  <2> QED BY <2>1, <2>2, CountFrame
<1>14. CASE UNCHANGED <<refs, holds, inNet, at, disp>>
  <2>1. IsNew' <=> IsNew
    BY <1>14 DEF IsNew
  <2> QED BY <1>14, <2>1, CountFrame
<1>15. CASE Report \/ PumpStep \/ Freed \/ (\E t \in Callers : Revoke(t))
            \/ \E t \in Callers : Advise(t) \/ \E s \in Cookies : Unlist(t, s)
  BY <1>14, <1>15 DEF Report, PumpStep, CheckHub, ReadMessage, Push, Signal, Freed, Revoke,
                      Advise, Unlist, lifeVars, fireVars
<1>16. ASSUME NEW t \in Callers, Begin(t) PROVE CountInv'
  BY <1>6, <1>10, <1>11, <1>15, <1>16 DEF Begin, EnterCall
<1>17. ASSUME NEW t \in Callers, CallStep(t) PROVE CountInv'
  BY <1>1, <1>2, <1>3, <1>5, <1>9, <1>10, <1>15, <1>17 DEF CallStep
<1>18. CASE DispatchStep
  BY <1>4, <1>12, <1>13, <1>18 DEF DispatchStep
<1>19. CASE UNCHANGED vars
  BY <1>14, <1>19 DEF vars, lifeVars, fireVars
<1> QED BY <1>7, <1>8, <1>15, <1>16, <1>17, <1>18, <1>19 DEF Next

\* The count holds at the start: the creator's and the dispatch thread's.
LEMMA CountInit == Init => CountInv
<1> SUFFICES ASSUME Init PROVE CountInv
  OBVIOUS
<1>1. IsNew /\ at[Net] = "out"
  BY ThreadsAssumption DEF Init, IsNew, NewSteps, Callers
<1>2. Cardinality({}) = 0
  BY FS_EmptySet
<1> QED BY <1>1, <1>2 DEF Init, CountInv, Bit

\* So both hold of every state.
LEMMA SpecLifeInv == Spec => [](LifeInv /\ CountInv)
BY LifeInit, LifeNext, CountInit, CountNext, PTL DEF Spec

\* CloseKernelHub lets one thread close the facade's hub, and the network's entry
\* keeps an owner who will take it out.
THEOREM TeardownIsOnce == Spec => []TeardownOnce
<1>1. LifeInv => TeardownOnce
  <2> SUFFICES ASSUME LifeInv PROVE TeardownOnce
    OBVIOUS
  <2> DEFINE C == {t \in Callers : at[t] = "closing"}
  <2>1. CASE C = {}
    BY <2>1, FS_EmptySet DEF TeardownOnce, LifeInv, OwnerInv
  <2>2. CASE C # {}
    <3>1. PICK t \in Callers : C = {t}
      BY <2>2 DEF LifeInv, OwnerInv
    <3>2. Cardinality(C) = 1
      BY <3>1, FS_Singleton
    <3> QED BY <3>2 DEF TeardownOnce, LifeInv, OwnerInv
  <2> QED BY <2>1, <2>2
<1> QED BY <1>1, SpecLifeInv, PTL

\* FinalRelease runs when the facade's hub is closed, its pump is out of the sink
\* and no thread is in Close.
THEOREM FreedIsLast == Spec => []FreedLast
<1>1. LifeInv /\ CountInv => FreedLast
  <2> SUFFICES ASSUME LifeInv, CountInv, refs <= 0
               PROVE  /\ refs = 0
                      /\ kernel \in {"none", "deleted"} /\ pump = "idle"
                      /\ disp = "gone" /\ \A t \in Callers : at[t] = "out"
    BY DEF FreedLast
  <2>1. IsFiniteSet(holds) /\ Cardinality(holds) \in Nat
    BY FiniteAssumption, FS_Subset, FS_CardinalityType DEF LifeInv, LifeType
  <2>2. /\ refs = 0 /\ Cardinality(holds) = 0 /\ disp = "gone" /\ ~inNet /\ ~IsNew
        /\ at[Net] = "out"
    BY <2>1 DEF CountInv, Bit
  <2>3. holds = {}
    BY <2>1, <2>2, FS_EmptySet
  <2>4. \A t \in Callers : at[t] = "out"
    BY <2>2, <2>3 DEF LifeInv, ClientInv, DispInv, IsNew, Callers
  <2>5. hubClosed /\ kernel \notin {"open", "closing"}
    BY <2>2, <2>4 DEF LifeInv, DispInv, KernelInv, Callers
  <2>6. kernel \in {"none", "deleted"}
    BY <2>5 DEF LifeInv, LifeType
  <2> QED BY <2>2, <2>4, <2>6 DEF LifeInv, KernelInv
<1> QED BY <1>1, SpecLifeInv, PTL
=============================================================================
