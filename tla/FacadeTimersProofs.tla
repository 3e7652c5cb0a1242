------------------------- MODULE FacadeTimersProofs -------------------------
(***************************************************************************)
(* What FacadeTimers promises for any timers, delays and length of the     *)
(* second: no timer is forgotten, none is left in the kernel without a     *)
(* row, and none fires early as long as the system clock is stepped fewer  *)
(* times than a timer may be armed again.                                  *)
(*                                                                         *)
(* The last rests on the compensation.  Between steps the two clocks keep  *)
(* their distance, top + frac - tick.  A timer armed again carries, from   *)
(* the reading of the position within the second on, a kernel deadline no  *)
(* earlier than its own on the system clock, so the second that reaches it *)
(* has reached the facade's.  The first arm is not compensated and may     *)
(* elapse early; after it, each early elapse has a step of the clock to    *)
(* itself.                                                                 *)
(***************************************************************************)
EXTENDS FacadeTimers, SequenceTheorems, TLAPS

-----------------------------------------------------------------------------
(* The pump's queue *)

TimerMsg(i)   == [topic |-> "timer", id |-> i]
Pending(q, i) == \E n \in 1 .. Len(q) : q[n] = TimerMsg(i)
Once(q)       == \A n, m \in 1 .. Len(q) : q[n].topic = "timer" /\ q[n] = q[m] => n = m

\* A message that is not there yet is there once when it is enqueued.
LEMMA AppendPending ==
  ASSUME NEW q \in Seq(Msg), NEW e \in Msg, Once(q),
         e.topic = "timer" => ~Pending(q, e.id)
  PROVE  /\ Append(q, e) \in Seq(Msg) /\ Once(Append(q, e))
         /\ \A i \in Timers : Pending(Append(q, e), i) <=> Pending(q, i) \/ e = TimerMsg(i)
<1> DEFINE r == Append(q, e)
<1>1. /\ r \in Seq(Msg) /\ Len(r) = Len(q) + 1 /\ Len(q) \in Nat
      /\ \A n \in 1 .. Len(q) : r[n] = q[n]
      /\ r[Len(q) + 1] = e
  BY AppendProperties, LenProperties
<1> HIDE DEF r
<1>2. ASSUME NEW n \in 1 .. Len(q), e.topic = "timer" PROVE q[n] # e
  <2>1. e = TimerMsg(e.id)
    BY <1>2 DEF Msg, TimerMsg
  <2> QED BY <1>2, <2>1 DEF Pending
<1>3. Once(r)
  <2> SUFFICES ASSUME NEW n \in 1 .. Len(q) + 1, NEW m \in 1 .. Len(q) + 1,
                      r[n].topic = "timer", r[n] = r[m]
               PROVE  n = m
    BY <1>1 DEF Once
  <2>1. CASE n \in 1 .. Len(q) /\ m \in 1 .. Len(q)
    BY <1>1, <2>1 DEF Once
  <2>2. CASE n = Len(q) + 1 \/ m = Len(q) + 1
    BY <1>1, <1>2, <2>2
  <2> QED BY <1>1, <2>1, <2>2
<1>4. ASSUME NEW i \in Timers PROVE Pending(r, i) <=> Pending(q, i) \/ e = TimerMsg(i)
  <2>1. ASSUME Pending(r, i) PROVE Pending(q, i) \/ e = TimerMsg(i)
    <3>1. PICK n \in 1 .. Len(q) + 1 : r[n] = TimerMsg(i)
      BY <1>1, <2>1 DEF Pending
    <3>2. n \in 1 .. Len(q) \/ n = Len(q) + 1
      BY <1>1
    <3> QED BY <1>1, <3>1, <3>2 DEF Pending
  <2>2. ASSUME Pending(q, i) PROVE Pending(r, i)
    <3>1. PICK n \in 1 .. Len(q) : q[n] = TimerMsg(i)
      BY <2>2 DEF Pending
    <3>2. n \in 1 .. Len(r) /\ r[n] = TimerMsg(i)
      BY <1>1, <3>1
    <3> QED BY <3>2 DEF Pending
  <2>3. ASSUME e = TimerMsg(i) PROVE Pending(r, i)
    <3>1. Len(q) + 1 \in 1 .. Len(r)
      BY <1>1
    <3> QED BY <1>1, <2>3, <3>1 DEF Pending
  <2> QED BY <2>1, <2>2, <2>3
<1> QED BY <1>1, <1>3, <1>4 DEF r

\* When it is taken it is not there any more.
LEMMA TailPending ==
  ASSUME NEW q \in Seq(Msg), q # <<>>, Once(q)
  PROVE  /\ Head(q) \in Msg /\ Tail(q) \in Seq(Msg) /\ Once(Tail(q))
         /\ \A i \in Timers : /\ Pending(q, i) <=> Pending(Tail(q), i) \/ Head(q) = TimerMsg(i)
                              /\ Head(q) = TimerMsg(i) => ~Pending(Tail(q), i)
<1> DEFINE r == Tail(q)
<1>1. /\ Head(q) \in Msg /\ Head(q) = q[1] /\ r \in Seq(Msg) /\ Len(r) = Len(q) - 1
      /\ \A n \in 1 .. Len(r) : r[n] = q[n + 1]
      /\ Len(q) \in Nat \ {0}
  BY HeadTailProperties, EmptySeq
<1> HIDE DEF r
<1>2. Once(r)
  <2> SUFFICES ASSUME NEW n \in 1 .. Len(r), NEW m \in 1 .. Len(r),
                      r[n].topic = "timer", r[n] = r[m]
               PROVE  n = m
    BY DEF Once
  <2>1. n + 1 \in 1 .. Len(q) /\ m + 1 \in 1 .. Len(q)
    BY <1>1
  <2>2. n + 1 = m + 1
    BY <1>1, <2>1 DEF Once
  <2> QED BY <1>1, <2>2
<1>3. ASSUME NEW i \in Timers
      PROVE  /\ Pending(q, i) <=> Pending(r, i) \/ Head(q) = TimerMsg(i)
             /\ Head(q) = TimerMsg(i) => ~Pending(r, i)
  <2>1. ASSUME Pending(q, i), Head(q) # TimerMsg(i) PROVE Pending(r, i)
    <3>1. PICK n \in 1 .. Len(q) : q[n] = TimerMsg(i)
      BY <2>1 DEF Pending
    <3>2. n # 1
      BY <1>1, <2>1, <3>1
    <3>3. n - 1 \in 1 .. Len(r) /\ (n - 1) + 1 = n
      BY <1>1, <3>2
    <3> QED BY <1>1, <3>1, <3>3 DEF Pending
  <2>2. ASSUME NEW n \in 1 .. Len(r), r[n] = TimerMsg(i)
        PROVE  Pending(q, i) /\ Head(q) # TimerMsg(i)
    <3>1. n + 1 \in 1 .. Len(q) /\ 1 \in 1 .. Len(q) /\ n + 1 # 1 /\ q[n + 1] = TimerMsg(i)
      BY <1>1, <2>2
    <3>2. q[n + 1].topic = "timer"
      BY <3>1 DEF TimerMsg
    <3> QED BY <1>1, <3>1, <3>2 DEF Pending, Once
  <2>3. ASSUME Head(q) = TimerMsg(i) PROVE Pending(q, i)
    <3>1. 1 \in 1 .. Len(q)
      BY <1>1
    <3> QED BY <1>1, <2>3, <3>1 DEF Pending
  <2> QED BY <2>1, <2>2, <2>3 DEF Pending
<1> QED BY <1>1, <1>2, <1>3 DEF r

-----------------------------------------------------------------------------
(* The invariant *)

\* A timer is armed from its message once, before anything else happens to it.
Unhandled(i) == row[i].rearms = 0 /\ kernel[i] = None /\ pump.id # i

QueueInv ==
  /\ Once(queue)
  /\ \A i \in Timers : Pending(queue, i) => Unhandled(i)
  /\ \A i \in Timers : client[i] \in {"new", "recorded"} => Unhandled(i) /\ ~Pending(queue, i)

\* The kernel holds a timer its row knows to be armed, and not while it is armed.
HoldInv ==
  \A i \in Timers : /\ kernel[i] # None => row[i].live /\ row[i].armed
                    /\ pump.id = i => kernel[i] = None

\* A row waits for its SetTimer, its message, the pump or the kernel.
WaitInv ==
  \A i \in Timers : row[i].live =>
    client[i] = "recorded" \/ Pending(queue, i) \/ pump.id = i \/ kernel[i] # None

\* The facade's deadline of a timer on the system clock, and a kernel deadline
\* that does not come before it.
OnSystemClock(i) == row[i].deadline + top + frac - tick
Safe(i, d) == tick >= row[i].deadline \/ d >= OnSystemClock(i) \/ row[i].rearms <= steps

\* What a timer armed again carries at each stage of being armed.
Carried(i) ==
  /\ row[i].rearms <= steps + 1
  /\ pump.id = i /\ pump.at = "tick" => pump.compensate
  /\ pump.id = i /\ pump.at = "frac" => pump.delay >= row[i].deadline - tick
  /\ pump.id = i /\ pump.at = "set" => Safe(i, top + pump.delay)
  /\ kernel[i] # None => Safe(i, kernel[i])

ArmInv == \A i \in Timers : row[i].live /\ row[i].rearms > 0 => Carried(i)

Inv == TypeOK /\ QueueInv /\ HoldInv /\ WaitInv

\* The pump is arming a timer, or is idle.
LEMMA PumpCases ==
  ASSUME TypeOK
  PROVE  /\ pump = PumpIdle => pump.id \notin Timers
         /\ pump # PumpIdle => pump.id \in Timers /\ pump \in Arming
BY NoneAssumption DEF TypeOK, PumpIdle, Arming

\* What the pump sets out with is well-typed.
LEMMA Sets == ASSUME NEW i \in Timers, NEW comp \in BOOLEAN, StartArming(i, comp)
              PROVE  /\ pump' \in Arming /\ pump'.id = i
                     /\ pump'.at = "tick" /\ pump'.compensate = comp
<1>1. 0 \in Nat
  OBVIOUS
<1> QED BY <1>1 DEF StartArming, Arming

\* So is the row SetTimer writes.
LEMMA NewRow ==
  ASSUME NEW d \in Nat
  PROVE  /\ [NoRow EXCEPT !.live = TRUE, !.deadline = d] \in Row
         /\ [NoRow EXCEPT !.live = TRUE, !.deadline = d].rearms = 0
<1>1. 0 \in 0 .. MaxRearms
  BY BoundsAssumption
<1> QED BY <1>1 DEF NoRow, Row

\* The invariant holds at the start.
LEMMA InvInit == Init => Inv
<1> SUFFICES ASSUME Init PROVE Inv
  OBVIOUS
<1> USE NoneAssumption, SecAssumption, BoundsAssumption
<1>1. TypeOK
  BY EmptySeq DEF Init, TypeOK, Row, NoRow, PumpIdle
<1>2. Len(<<>>) = 0
  BY EmptySeq
<1>3. QueueInv /\ HoldInv /\ WaitInv
  BY <1>2 DEF Init, QueueInv, HoldInv, WaitInv, Unhandled, Once, Pending, NoRow, PumpIdle
<1> QED BY <1>1, <1>3 DEF Inv

\* Every step keeps it.
LEMMA InvNext == Inv /\ [Next]_vars => Inv'
<1> SUFFICES ASSUME Inv, [Next]_vars PROVE Inv'
  OBVIOUS
<1> USE NoneAssumption, DelaysAssumption, SecAssumption, BoundsAssumption DEF clocks
<1>0. /\ TypeOK /\ QueueInv /\ HoldInv /\ WaitInv
      /\ row \in [Timers -> Row] /\ kernel \in [Timers -> Int \cup {None}]
      /\ client \in [Timers -> {"new", "recorded", "set", "killing", "done"}]
      /\ queue \in Seq(Msg) /\ NoRow \in Row /\ NoRow.rearms = 0 /\ ~NoRow.live
      /\ tick \in Nat /\ fired \in [Timers -> {"no", "early", "due"}]
  BY DEF Inv, TypeOK, Row, NoRow
<1>p. /\ pump = PumpIdle => pump.id \notin Timers
      /\ pump # PumpIdle => pump.id \in Timers /\ pump \in Arming
      /\ pump.at \in {"tick", "frac", "set"} <=> pump # PumpIdle
  BY <1>0 DEF TypeOK, PumpIdle, Arming
<1>f. frac \in Nat
  BY <1>0 DEF TypeOK
<1>1. CASE Tick
  <2>1. TypeOK'
    BY <1>0, <1>p, <1>1 DEF Tick, TypeOK
  <2>2. QueueInv'
    BY <1>0, <1>p, <1>1 DEF Tick, QueueInv, Unhandled
  <2>3. HoldInv'
    BY <1>0, <1>p, <1>1 DEF Tick, HoldInv, QueueInv, Unhandled
  <2>4. WaitInv'
    BY <1>0, <1>p, <1>1 DEF Tick, WaitInv
  <2> QED BY <2>1, <2>2, <2>3, <2>4 DEF Inv
<1>2. CASE StepClock
  <2>1. TypeOK'
    BY <1>0, <1>p, <1>2 DEF StepClock, TypeOK
  <2>2. QueueInv'
    BY <1>0, <1>p, <1>2 DEF StepClock, QueueInv, Unhandled
  <2>3. HoldInv'
    BY <1>0, <1>p, <1>2 DEF StepClock, HoldInv, QueueInv, Unhandled
  <2>4. WaitInv'
    BY <1>0, <1>p, <1>2 DEF StepClock, WaitInv
  <2> QED BY <2>1, <2>2, <2>3, <2>4 DEF Inv
<1>3. ASSUME NEW i \in Timers, NEW d \in Delays, SetTimer(i, d) PROVE Inv'
  <2>1. row' \in [Timers -> Row] /\ row'[i].rearms = 0
        /\ \A j \in Timers : j # i => row'[j] = row[j]
    <3> DEFINE new == [NoRow EXCEPT !.live = TRUE, !.deadline = tick + d]
    <3>1. new \in Row /\ new.rearms = 0
      <4>1. tick + d \in Nat
        BY <1>0
      <4> QED BY <1>0, <4>1, NewRow
    <3> HIDE DEF new
    <3>2. row' = [row EXCEPT ![i] = new]
      BY <1>3 DEF SetTimer, new
    <3> QED BY <1>0, <3>1, <3>2
  <2>2. TypeOK'
    BY <1>0, <1>3, <2>1 DEF SetTimer, TypeOK
  <2>3. QueueInv'
    BY <1>0, <1>3, <2>1 DEF SetTimer, QueueInv, Unhandled
  <2>4. HoldInv'
    BY <1>0, <1>3, <2>1 DEF SetTimer, HoldInv, QueueInv, Unhandled
  <2>5. WaitInv'
    BY <1>0, <1>3, <2>1 DEF SetTimer, WaitInv
  <2> QED BY <2>2, <2>3, <2>4, <2>5 DEF Inv
<1>4. ASSUME NEW i \in Timers, SetTimerPost(i) PROVE Inv'
  <2>0. client[i] = "recorded" /\ Unhandled(i) /\ ~Pending(queue, i)
        /\ UNCHANGED <<clocks, kernel, pump, fired>>
    BY <1>0, <1>4 DEF SetTimerPost, QueueInv
  <2>1. CASE /\ client' = [client EXCEPT ![i] = "set"] /\ row' = row
             /\ queue' = Append(queue, TimerMsg(i))
    <3>1. TimerMsg(i) \in Msg /\ TimerMsg(i).id = i
      BY DEF TimerMsg, Msg
    <3>2. \A j \in Timers : TimerMsg(i) = TimerMsg(j) => i = j
      BY DEF TimerMsg
    <3>3. /\ queue' \in Seq(Msg) /\ Once(queue')
          /\ \A j \in Timers : Pending(queue', j) <=> Pending(queue, j) \/ j = i
      BY <1>0, <2>0, <2>1, <3>1, <3>2, AppendPending DEF QueueInv
    <3>4. TypeOK'
      BY <1>0, <2>0, <2>1, <3>3 DEF TypeOK
    <3>5. QueueInv'
      BY <1>0, <2>0, <2>1, <3>3 DEF QueueInv, Unhandled
    <3>6. HoldInv' /\ WaitInv'
      BY <1>0, <2>0, <2>1, <3>3 DEF HoldInv, WaitInv
    <3> QED BY <3>4, <3>5, <3>6 DEF Inv
  <2>2. CASE /\ client' = [client EXCEPT ![i] = "done"] /\ queue' = queue
             /\ row' = [row EXCEPT ![i] = NoRow]
    <3>1. TypeOK'
      BY <1>0, <2>0, <2>2 DEF TypeOK
    <3>2. QueueInv'
      BY <1>0, <2>0, <2>2 DEF QueueInv, Unhandled
    <3>3. HoldInv' /\ WaitInv'
      BY <1>0, <2>0, <2>2 DEF HoldInv, WaitInv, Unhandled
    <3> QED BY <3>1, <3>2, <3>3 DEF Inv
  <2> QED BY <1>4, <2>1, <2>2 DEF SetTimerPost, Enqueue, Erase, TimerMsg
<1>5. ASSUME NEW i \in Timers, KillTimer(i) PROVE Inv'
  <2>1. TypeOK'
    BY <1>0, <1>p, <1>5 DEF KillTimer, TypeOK
  <2>2. QueueInv'
    BY <1>0, <1>p, <1>5 DEF KillTimer, QueueInv, Unhandled
  <2>3. HoldInv'
    BY <1>0, <1>p, <1>5 DEF KillTimer, HoldInv, QueueInv, Unhandled
  <2>4. WaitInv'
    BY <1>0, <1>p, <1>5 DEF KillTimer, WaitInv
  <2> QED BY <2>1, <2>2, <2>3, <2>4 DEF Inv
<1>6. ASSUME NEW i \in Timers, KillTimerPost(i) PROVE Inv'
  <2>0. client[i] = "killing" /\ UNCHANGED <<clocks, row, kernel, pump, fired>>
        /\ client' \in [Timers -> {"new", "recorded", "set", "killing", "done"}]
        /\ client'[i] \notin {"new", "recorded"}
        /\ \A j \in Timers : j # i => client'[j] = client[j]
    BY <1>0, <1>6 DEF KillTimerPost
  <2>1. /\ queue' \in Seq(Msg) /\ Once(queue')
        /\ \A j \in Timers : Pending(queue', j) <=> Pending(queue, j)
    <3> DEFINE e == [topic |-> "kill", id |-> i]
    <3>1. e \in Msg /\ e.topic # "timer" /\ \A j \in Timers : e # TimerMsg(j)
      BY DEF Msg, TimerMsg
    <3>2. queue' = queue \/ queue' = Append(queue, e)
      BY <1>6 DEF KillTimerPost, Enqueue
    <3> HIDE DEF e
    <3>3. CASE queue' = queue
      BY <1>0, <3>3 DEF QueueInv
    <3>4. CASE queue' = Append(queue, e)
      <4>1. /\ queue' \in Seq(Msg) /\ Once(queue')
            /\ \A j \in Timers : Pending(queue', j) <=> Pending(queue, j) \/ e = TimerMsg(j)
        BY <1>0, <3>1, <3>4, AppendPending DEF QueueInv
      <4> QED BY <3>1, <4>1
    <3> QED BY <3>2, <3>3, <3>4
  <2>2. TypeOK'
    BY <1>0, <2>0, <2>1 DEF TypeOK
  <2>3. QueueInv'
    BY <1>0, <2>0, <2>1 DEF QueueInv, Unhandled
  <2>4. HoldInv' /\ WaitInv'
    BY <1>0, <2>0, <2>1 DEF HoldInv, WaitInv
  <2> QED BY <2>2, <2>3, <2>4 DEF Inv
<1>7. CASE HandleTimer
  <2> DEFINE j == Head(queue).id
  <2>0. /\ pump = PumpIdle /\ Head(queue).topic = "timer" /\ queue' = Tail(queue)
        /\ UNCHANGED <<clocks, client, row, kernel, fired>>
    BY <1>7 DEF HandleTimer
  <2>1. /\ j \in Timers /\ Head(queue) = TimerMsg(j)
        /\ queue' \in Seq(Msg) /\ Once(queue') /\ ~Pending(queue', j) /\ Pending(queue, j)
        /\ \A i \in Timers : i # j => (Pending(queue', i) <=> Pending(queue, i))
    <3>1. Head(queue) \in Msg
      BY <1>0, <1>7, TailPending DEF HandleTimer, QueueInv
    <3>2. j \in Timers /\ Head(queue) = TimerMsg(j)
      BY <2>0, <3>1 DEF Msg, TimerMsg
    <3>3. \A i \in Timers : TimerMsg(j) = TimerMsg(i) => i = j
      BY DEF TimerMsg
    <3> QED BY <1>0, <1>7, <2>0, <3>2, <3>3, TailPending DEF HandleTimer, QueueInv
  <2>2. IF row[j].live THEN StartArming(j, FALSE) ELSE UNCHANGED pump
    BY <1>7 DEF HandleTimer
  <2> HIDE DEF j
  <2>3. CASE row[j].live
    <3>1. pump' \in Arming /\ pump'.id = j
      BY <2>1, <2>2, <2>3, Sets
    <3>2. TypeOK'
      BY <1>0, <2>0, <2>1, <3>1 DEF TypeOK
    <3>3. QueueInv'
      BY <1>0, <1>p, <2>0, <2>1, <3>1 DEF QueueInv, Unhandled
    <3>4. HoldInv' /\ WaitInv'
      BY <1>0, <1>p, <2>0, <2>1, <3>1 DEF HoldInv, WaitInv, QueueInv, Unhandled
    <3> QED BY <3>2, <3>3, <3>4 DEF Inv
  <2>4. CASE ~row[j].live
    <3>1. TypeOK'
      BY <1>0, <2>0, <2>1, <2>2, <2>4 DEF TypeOK
    <3>2. QueueInv'
      BY <1>0, <2>0, <2>1, <2>2, <2>4 DEF QueueInv, Unhandled
    <3>3. HoldInv' /\ WaitInv'
      BY <1>0, <2>0, <2>1, <2>2, <2>4 DEF HoldInv, WaitInv
    <3> QED BY <3>1, <3>2, <3>3 DEF Inv
  <2> QED BY <2>3, <2>4
<1>8. CASE HandleKill
  <2> DEFINE j == Head(queue).id
  <2>0. /\ pump = PumpIdle /\ queue' = Tail(queue) /\ row' = [row EXCEPT ![j] = NoRow]
        /\ kernel' = IF row[j].armed THEN [kernel EXCEPT ![j] = None] ELSE kernel
        /\ UNCHANGED <<clocks, client, pump, fired>>
    BY <1>8 DEF HandleKill, Erase
  <2>1. /\ j \in Timers /\ queue' \in Seq(Msg) /\ Once(queue')
        /\ \A i \in Timers : Pending(queue', i) <=> Pending(queue, i)
    <3>1. Head(queue) \in Msg /\ \A i \in Timers : Head(queue) # TimerMsg(i)
      BY <1>0, <1>8, TailPending DEF HandleKill, QueueInv, TimerMsg
    <3>2. j \in Timers
      BY <3>1 DEF Msg
    <3> QED BY <1>0, <1>8, <2>0, <3>1, <3>2, TailPending DEF HandleKill, QueueInv
  <2> HIDE DEF j
  <2>2. /\ row' \in [Timers -> Row] /\ row'[j] = NoRow
        /\ \A i \in Timers : i # j => row'[i] = row[i] /\ kernel'[i] = kernel[i]
        /\ kernel' \in [Timers -> Int \cup {None}] /\ kernel'[j] = None
    BY <1>0, <2>0, <2>1 DEF HoldInv
  <2>3. TypeOK'
    BY <1>0, <2>0, <2>1, <2>2 DEF TypeOK
  <2>4. QueueInv'
    BY <1>0, <2>0, <2>1, <2>2 DEF QueueInv, Unhandled
  <2>5. HoldInv' /\ WaitInv'
    BY <1>0, <2>0, <2>1, <2>2 DEF HoldInv, WaitInv
  <2> QED BY <2>3, <2>4, <2>5 DEF Inv
<1>9. CASE ReadTick
  <2>1. pump' \in Arming /\ pump'.id = pump.id
    <3>1. pump \in Arming /\ pump.id \in Timers /\ row[pump.id] \in Row
      BY <1>0, <1>p, <1>9 DEF ReadTick
    <3> DEFINE left == row[pump.id].deadline - tick
    <3>2. left \in Int /\ (left > 0 => left \in Nat)
      BY <1>0, <3>1 DEF Row
    <3>3. \/ left > 0 /\ pump' = [pump EXCEPT !.delay = left, !.at = "frac"]
          \/ left > 0 /\ pump' = [pump EXCEPT !.delay = left, !.at = "set"]
          \/ pump' = [pump EXCEPT !.at = "set"]
      BY <1>9 DEF ReadTick
    <3> HIDE DEF left
    <3> QED BY <3>1, <3>2, <3>3 DEF Arming
  <2>2. TypeOK'
    BY <1>0, <1>9, <2>1 DEF ReadTick, TypeOK
  <2>3. QueueInv'
    BY <1>0, <1>9, <2>1 DEF ReadTick, QueueInv, Unhandled
  <2>4. HoldInv' /\ WaitInv'
    BY <1>0, <1>9, <2>1 DEF ReadTick, HoldInv, WaitInv
  <2> QED BY <2>2, <2>3, <2>4 DEF Inv
<1>10. CASE ReadFrac
  <2>1. pump' \in Arming /\ pump'.id = pump.id
    <3>1. pump \in Arming /\ pump.id \in Timers /\ row[pump.id] \in Row
      BY <1>0, <1>p, <1>10 DEF ReadFrac
    <3>2. pump.delay + frac \in Nat
      BY <1>f, <3>1 DEF Arming
    <3> QED BY <1>10, <3>1, <3>2 DEF ReadFrac, Arming
  <2>2. TypeOK'
    BY <1>0, <1>10, <2>1 DEF ReadFrac, TypeOK
  <2>3. QueueInv'
    BY <1>0, <1>10, <2>1 DEF ReadFrac, QueueInv, Unhandled
  <2>4. HoldInv' /\ WaitInv'
    BY <1>0, <1>10, <2>1 DEF ReadFrac, HoldInv, WaitInv
  <2> QED BY <2>2, <2>3, <2>4 DEF Inv
<1>11. CASE SetPITimer
  <2> DEFINE i == pump.id
  <2>0. /\ i \in Timers /\ pump' = PumpIdle /\ UNCHANGED <<clocks, client, queue, fired>>
        /\ pump # PumpIdle /\ pump \in Arming /\ kernel[i] = None
    BY <1>0, <1>p, <1>11 DEF SetPITimer, HoldInv
  <2>a. PumpIdle \in Arming \cup {PumpIdle} /\ \A j \in Timers : PumpIdle.id # j
    BY DEF PumpIdle
  <2>1. CASE row[i].live /\ kernel' = [kernel EXCEPT ![i] = top + pump.delay]
             /\ row' = [row EXCEPT ![i].armed = TRUE]
    <3>1. top + pump.delay \in Int
      BY <1>0, <2>0 DEF TypeOK, Arming
    <3>2. /\ row' \in [Timers -> Row] /\ row'[i].live /\ row'[i].armed
          /\ row'[i].rearms = row[i].rearms
          /\ \A j \in Timers : j # i => row'[j] = row[j]
      BY <1>0, <2>0, <2>1 DEF Row
    <3>3. /\ kernel' \in [Timers -> Int \cup {None}] /\ kernel'[i] # None
          /\ \A j \in Timers : j # i => kernel'[j] = kernel[j]
      BY <1>0, <2>0, <2>1, <3>1
    <3> HIDE DEF i
    <3>4. TypeOK'
      BY <1>0, <2>0, <2>a, <3>2, <3>3 DEF TypeOK
    <3>5. ~Unhandled(i)
      BY DEF Unhandled, i
    <3>6. QueueInv'
      BY <1>0, <2>0, <2>a, <3>2, <3>3, <3>5 DEF QueueInv, Unhandled
    <3>7. HoldInv' /\ WaitInv'
      BY <1>0, <2>0, <2>a, <3>2, <3>3 DEF HoldInv, WaitInv, i
    <3> QED BY <3>4, <3>6, <3>7 DEF Inv
  <2>2. CASE ~row[i].live /\ row' = row /\ kernel' = kernel
    <3>1. TypeOK'
      BY <1>0, <2>0, <2>a, <2>2 DEF TypeOK
    <3>2. QueueInv'
      BY <1>0, <2>0, <2>a, <2>2 DEF QueueInv, Unhandled
    <3>3. HoldInv' /\ WaitInv'
      BY <1>0, <2>0, <2>a, <2>2 DEF HoldInv, WaitInv
    <3> QED BY <3>1, <3>2, <3>3 DEF Inv
  <2>3. CASE row' = [row EXCEPT ![i] = NoRow] /\ kernel' = kernel
    <3>1. TypeOK'
      BY <1>0, <2>0, <2>a, <2>3 DEF TypeOK
    <3>2. QueueInv'
      BY <1>0, <2>0, <2>a, <2>3 DEF QueueInv, Unhandled
    <3>3. HoldInv' /\ WaitInv'
      BY <1>0, <2>0, <2>a, <2>3 DEF HoldInv, WaitInv
    <3> QED BY <3>1, <3>2, <3>3 DEF Inv
  <2> QED BY <1>11, <2>1, <2>2, <2>3 DEF SetPITimer, Erase
<1>12. ASSUME NEW i \in Timers, Elapse(i) PROVE Inv'
  <2>0. /\ pump = PumpIdle /\ kernel[i] # None /\ UNCHANGED <<clocks, client, queue>>
        /\ kernel' \in [Timers -> Int \cup {None}] /\ kernel'[i] = None
        /\ \A j \in Timers : j # i => kernel'[j] = kernel[j]
        /\ row[i].live /\ pump.id \notin Timers
    BY <1>0, <1>p, <1>12 DEF Elapse, HoldInv
  <2>1. CASE /\ row[i].rearms < MaxRearms /\ row' = [row EXCEPT ![i].rearms = @ + 1]
             /\ StartArming(i, TRUE) /\ UNCHANGED fired
    <3>1. pump' \in Arming /\ pump'.id = i
      BY <2>1, Sets
    <3>2. row' \in [Timers -> Row] /\ \A j \in Timers : j # i => row'[j] = row[j]
      <4>1. row[i] \in Row /\ row[i].rearms + 1 \in 0 .. MaxRearms
        BY <1>0, <2>1 DEF Row
      <4>2. [row[i] EXCEPT !.rearms = @ + 1] \in Row
        BY <4>1 DEF Row
      <4> QED BY <1>0, <2>1, <4>2
    <3>3. TypeOK'
      BY <1>0, <2>0, <2>1, <3>1, <3>2 DEF TypeOK
    <3>4. QueueInv'
      BY <1>0, <2>0, <3>1, <3>2 DEF QueueInv, Unhandled
    <3>5. HoldInv' /\ WaitInv'
      BY <1>0, <2>0, <3>1, <3>2 DEF HoldInv, WaitInv
    <3> QED BY <3>3, <3>4, <3>5 DEF Inv
  <2>2. CASE /\ row' = [row EXCEPT ![i] = NoRow] /\ pump' = pump
             /\ \E seen \in {"early", "due"} : fired' = [fired EXCEPT ![i] = seen]
    <3>1. TypeOK'
      BY <1>0, <2>0, <2>2 DEF TypeOK
    <3>2. QueueInv'
      BY <1>0, <2>0, <2>2 DEF QueueInv, Unhandled
    <3>3. HoldInv' /\ WaitInv'
      BY <1>0, <2>0, <2>2 DEF HoldInv, WaitInv
    <3> QED BY <3>1, <3>2, <3>3 DEF Inv
  <2> QED BY <1>12, <2>0, <2>1, <2>2 DEF Elapse, Erase
<1>13. ASSUME NEW i \in Timers, Cancel(i) PROVE Inv'
  <2>1. TypeOK'
    BY <1>0, <1>p, <1>13 DEF Cancel, Erase, TypeOK
  <2>2. QueueInv'
    BY <1>0, <1>p, <1>13 DEF Cancel, Erase, QueueInv, Unhandled
  <2>3. HoldInv'
    BY <1>0, <1>p, <1>13 DEF Cancel, Erase, HoldInv, QueueInv, Unhandled
  <2>4. WaitInv'
    BY <1>0, <1>p, <1>13 DEF Cancel, Erase, WaitInv
  <2> QED BY <2>1, <2>2, <2>3, <2>4 DEF Inv
<1>14. CASE UNCHANGED vars
  <2>1. TypeOK'
    BY <1>0, <1>p, <1>14 DEF vars, TypeOK
  <2>2. QueueInv'
    BY <1>0, <1>p, <1>14 DEF vars, QueueInv, Unhandled
  <2>3. HoldInv'
    BY <1>0, <1>p, <1>14 DEF vars, HoldInv, QueueInv, Unhandled
  <2>4. WaitInv'
    BY <1>0, <1>p, <1>14 DEF vars, WaitInv
  <2> QED BY <2>1, <2>2, <2>3, <2>4 DEF Inv
<1> QED BY <1>1, <1>2, <1>3, <1>4, <1>5, <1>6, <1>7, <1>8, <1>9, <1>10, <1>11, <1>12, <1>13, <1>14 DEF Next, Client, Pump

-----------------------------------------------------------------------------
(* The compensation *)

\* Every step keeps what an armed timer carries, however often the clock is set.
LEMMA ArmNext == Inv /\ ArmInv /\ [Next]_vars => ArmInv'
<1> SUFFICES ASSUME Inv, ArmInv, [Next]_vars,
                    NEW j \in Timers, row'[j].live, row'[j].rearms > 0
             PROVE  Carried(j)'
  BY DEF ArmInv
<1> USE NoneAssumption, SecAssumption, BoundsAssumption DEF clocks
<1>0. /\ TypeOK /\ tick \in Nat /\ top \in Int /\ frac \in Nat /\ steps \in Nat
      /\ row \in [Timers -> Row] /\ kernel \in [Timers -> Int \cup {None}]
      /\ row[j].deadline \in Nat /\ row[j].rearms \in Nat
  BY DEF Inv, TypeOK, Row
<1>p. /\ pump.delay \in Nat
      /\ pump = PumpIdle => pump.id # j
      /\ pump # PumpIdle => pump.id \in Timers
      /\ pump.at \in {"tick", "frac", "set"} => pump # PumpIdle
  BY <1>0 DEF TypeOK, PumpIdle, Arming
<1>k. kernel[j] # None => kernel[j] \in Int
  BY <1>0
<1>a. row[j].live /\ row[j].rearms > 0 => Carried(j)
  BY DEF ArmInv
\* Most steps leave the row, the clocks and the pump alone.
<1>s. ASSUME UNCHANGED <<clocks, pump>>, row'[j] = row[j], kernel'[j] \in {kernel[j], None}
      PROVE  Carried(j)'
  BY <1>a, <1>s DEF Carried, Safe, OnSystemClock
<1>1. CASE Tick
  <2>1. /\ tick' = tick + 1 /\ top' + frac' = top + frac + 1 /\ top' >= top
        /\ frac' \in Nat /\ top' \in Int
        /\ UNCHANGED <<steps, row, kernel, pump>>
    <3>1. frac \in 0 .. Sec - 1
      BY <1>0 DEF TypeOK
    <3> QED BY <1>0, <1>1, <3>1 DEF Tick
  <2>2. OnSystemClock(j)' = OnSystemClock(j) /\ OnSystemClock(j) \in Int
    <3>1. row'[j].deadline = row[j].deadline /\ tick' = tick + 1
      BY <2>1
    <3>2. CASE top' = top /\ frac' = frac + 1
      BY <1>0, <3>1, <3>2 DEF OnSystemClock
    <3>3. CASE top' = top + Sec /\ frac' = 0 /\ frac = Sec - 1
      BY <1>0, <3>1, <3>3 DEF OnSystemClock
    <3>4. frac \in 0 .. Sec - 1
      BY <1>0 DEF TypeOK
    <3> QED BY <1>0, <1>1, <3>2, <3>3, <3>4 DEF Tick
  <2>3. ASSUME NEW d \in Int, NEW e \in Int, e >= d, Safe(j, d)
        PROVE  tick' >= row'[j].deadline \/ e >= OnSystemClock(j)' \/ row'[j].rearms <= steps'
    BY <1>0, <2>1, <2>2, <2>3 DEF Safe
  <2>4. Carried(j)
    BY <1>a, <2>1
  <2>5. pump'.id = j /\ pump'.at = "set" => Safe(j, top + pump.delay)'
    <3>1. top + pump.delay \in Int /\ top' + pump.delay \in Int /\ top' + pump.delay >= top + pump.delay
      BY <1>0, <1>p, <2>1
    <3> QED BY <2>1, <2>3, <2>4, <3>1 DEF Carried, Safe
  <2>6. kernel'[j] # None => Safe(j, kernel[j])'
    BY <1>k, <2>1, <2>3, <2>4 DEF Carried, Safe
  <2>7. /\ row'[j].rearms <= steps' + 1
        /\ pump'.id = j /\ pump'.at = "tick" => pump'.compensate
    BY <2>1, <2>4 DEF Carried
  <2>8. pump'.id = j /\ pump'.at = "frac" => pump'.delay >= row'[j].deadline - tick'
    BY <1>0, <1>p, <2>1, <2>4 DEF Carried
  <2> QED BY <2>5, <2>6, <2>7, <2>8 DEF Carried
<1>2. CASE StepClock
  <2>1. /\ steps' = steps + 1 /\ UNCHANGED <<tick, row, kernel, pump>>
        /\ row[j].rearms <= steps'
    BY <1>0, <1>a, <1>2 DEF StepClock, Carried
  <2>2. Carried(j)
    BY <1>a, <2>1
  <2> QED BY <1>0, <2>1, <2>2 DEF Carried, Safe
<1>3. ASSUME NEW i \in Timers, NEW d \in Delays, SetTimer(i, d) PROVE Carried(j)'
  <2>1. i # j
    BY <1>0, <1>3 DEF SetTimer, NoRow
  <2> QED BY <1>0, <1>s, <1>3, <2>1 DEF SetTimer
<1>4. ASSUME NEW i \in Timers, SetTimerPost(i) \/ KillTimer(i) \/ KillTimerPost(i) \/ Cancel(i)
      PROVE  Carried(j)'
  <2>1. /\ row'[j] = row[j] \/ row'[j] = NoRow
        /\ UNCHANGED <<clocks, pump>> /\ kernel'[j] \in {kernel[j], None}
    BY <1>0, <1>4 DEF SetTimerPost, KillTimer, KillTimerPost, Cancel, Erase
  <2> QED BY <1>s, <2>1 DEF NoRow
<1>5. CASE HandleTimer
  <2>1. row' = row /\ kernel' = kernel /\ UNCHANGED clocks /\ pump = PumpIdle
    BY <1>5 DEF HandleTimer
  <2>2. CASE UNCHANGED pump
    BY <1>s, <2>1, <2>2
  <2>3. CASE StartArming(Head(queue).id, FALSE)
    <3>1. Head(queue).id # j
      <4>1. Head(queue) \in Msg /\ Head(queue).topic = "timer"
        BY <1>0, <1>5, TailPending DEF HandleTimer, Inv, TypeOK, QueueInv
      <4>2. Head(queue) = TimerMsg(Head(queue).id) /\ Head(queue).id \in Timers
        BY <4>1 DEF Msg, TimerMsg
      <4>3. Pending(queue, Head(queue).id)
        BY <1>0, <1>5, <4>2, TailPending DEF HandleTimer, Inv, TypeOK, QueueInv
      <4> QED BY <2>1, <4>2, <4>3 DEF Inv, QueueInv, Unhandled
    <3>2. pump'.id # j
      BY <2>3, <3>1 DEF StartArming
    <3> QED BY <1>a, <2>1, <3>2 DEF Carried, Safe, OnSystemClock
  <2> QED BY <1>5, <2>2, <2>3 DEF HandleTimer
<1>6. CASE HandleKill
  <2>1. Head(queue).id # j
    BY <1>0, <1>6 DEF HandleKill, Erase, NoRow
  <2> QED BY <1>0, <1>s, <1>6, <2>1 DEF HandleKill, Erase
<1>7. CASE ReadTick
  <2>1. row' = row /\ kernel' = kernel /\ UNCHANGED clocks /\ pump.at = "tick" /\ pump'.id = pump.id
        /\ Carried(j) /\ pump'.at \in {"frac", "set"}
    BY <1>a, <1>7 DEF ReadTick
  <2>2. CASE pump.id # j
    BY <2>1, <2>2 DEF Carried, Safe, OnSystemClock
  <2>3. CASE pump.id = j
    <3>1. \/ pump'.at = "frac" /\ pump'.delay = row[j].deadline - tick
          \/ pump'.at = "set" /\ tick >= row[j].deadline
      BY <1>0, <1>7, <2>1, <2>3 DEF ReadTick, Carried
    <3> QED BY <1>0, <2>1, <2>3, <3>1 DEF Carried, Safe, OnSystemClock
  <2> QED BY <2>2, <2>3
<1>8. CASE ReadFrac
  <2>1. row' = row /\ kernel' = kernel /\ UNCHANGED clocks /\ pump.at = "frac" /\ pump'.id = pump.id
        /\ Carried(j) /\ pump'.at = "set" /\ pump'.delay = pump.delay + frac
    BY <1>a, <1>8 DEF ReadFrac
  <2>2. CASE pump.id # j
    BY <2>1, <2>2 DEF Carried, Safe, OnSystemClock
  <2>3. CASE pump.id = j
    <3>1. pump.delay >= row[j].deadline - tick
      BY <2>1, <2>3 DEF Carried
    <3>2. top + pump'.delay >= OnSystemClock(j)
      BY <1>0, <1>p, <2>1, <3>1 DEF OnSystemClock
    <3> QED BY <2>1, <2>3, <3>2 DEF Carried, Safe, OnSystemClock
  <2> QED BY <2>2, <2>3
<1>9. CASE SetPITimer
  <2>1. /\ UNCHANGED clocks /\ pump.at = "set" /\ pump' = PumpIdle /\ pump.id \in Timers
        /\ pump'.id # j
    BY <1>p, <1>9 DEF SetPITimer, PumpIdle
  <2>2. CASE pump.id # j
    <3>1. row'[j] = row[j] /\ kernel'[j] = kernel[j]
      BY <1>0, <1>9, <2>1, <2>2 DEF SetPITimer, Erase
    <3> QED BY <1>a, <2>1, <3>1 DEF Carried, Safe, OnSystemClock
  <2>3. CASE pump.id = j
    <3>1. \/ /\ kernel'[j] = top + pump.delay /\ row[j].live
             /\ row'[j].rearms = row[j].rearms /\ row'[j].deadline = row[j].deadline
          \/ row' = row /\ kernel' = kernel
          \/ row'[j] = NoRow
      BY <1>0, <1>9, <2>1, <2>3 DEF SetPITimer, Erase, Row
    <3>2. CASE kernel'[j] = top + pump.delay /\ row[j].live
               /\ row'[j].rearms = row[j].rearms /\ row'[j].deadline = row[j].deadline
      <4>1. Carried(j)
        BY <1>a, <3>2
      <4> QED BY <2>1, <2>3, <3>2, <4>1 DEF Carried, Safe, OnSystemClock
    <3>3. CASE row' = row /\ kernel' = kernel
      BY <1>a, <2>1, <3>3 DEF Carried, Safe, OnSystemClock
    <3> QED BY <3>1, <3>2, <3>3 DEF NoRow
  <2> QED BY <2>2, <2>3
<1>10. ASSUME NEW i \in Timers, Elapse(i) PROVE Carried(j)'
  <2>1. /\ UNCHANGED clocks /\ kernel[i] # None /\ top >= kernel[i] /\ pump = PumpIdle
        /\ kernel' = [kernel EXCEPT ![i] = None]
    BY <1>10 DEF Elapse
  <2>2. CASE i # j
    <3>1. row'[j] = row[j] /\ kernel'[j] = kernel[j] /\ pump'.id # j
      BY <1>0, <1>p, <1>10, <2>1, <2>2 DEF Elapse, Erase, StartArming
    <3> QED BY <1>a, <2>1, <3>1 DEF Carried, Safe, OnSystemClock
  <2>3. CASE i = j
    <3>1. /\ tick < row[j].deadline /\ row[j].live /\ StartArming(j, TRUE)
          /\ row'[j].rearms = row[j].rearms + 1 /\ row'[j].deadline = row[j].deadline
      <4>1. row[j].live
        BY <2>1, <2>3 DEF Inv, HoldInv
      <4>2. row'[j] # NoRow
        BY DEF NoRow
      <4>3. /\ tick < row[j].deadline /\ StartArming(j, TRUE)
            /\ row' = [row EXCEPT ![j].rearms = @ + 1]
        BY <1>0, <1>10, <2>3, <4>1, <4>2 DEF Elapse, Erase
      <4>4. row[j] \in Row /\ row'[j] = [row[j] EXCEPT !.rearms = @ + 1]
        BY <1>0, <4>3
      <4> QED BY <4>1, <4>3, <4>4 DEF Row
    <3>2. row[j].rearms <= steps
      <4>1. CASE row[j].rearms > 0
        <5>1. Safe(j, kernel[j])
          BY <1>a, <2>1, <2>3, <3>1, <4>1 DEF Carried
        <5>2. top < OnSystemClock(j)
          BY <1>0, <3>1 DEF OnSystemClock
        <5>3. kernel[j] < OnSystemClock(j)
          BY <1>0, <1>k, <2>1, <2>3, <5>2 DEF OnSystemClock
        <5> QED BY <1>0, <1>k, <2>1, <2>3, <3>1, <5>1, <5>3 DEF Safe, OnSystemClock
      <4> QED BY <1>0, <4>1
    <3>3. pump'.at = "tick" /\ pump'.compensate /\ kernel'[j] = None
      BY <1>0, <2>1, <2>3, <3>1 DEF StartArming
    <3> QED BY <1>0, <2>1, <3>1, <3>2, <3>3 DEF Carried
  <2> QED BY <2>2, <2>3
<1>11. CASE UNCHANGED vars
  BY <1>s, <1>11 DEF vars
<1> QED BY <1>1, <1>2, <1>3, <1>4, <1>5, <1>6, <1>7, <1>8, <1>9, <1>10, <1>11 DEF Next, Client, Pump

\* A clock set less often than a timer may be armed again lets none fire early.
LEMMA FiresDue ==
  ASSUME MaxSteps < MaxRearms
  PROVE  Inv /\ ArmInv /\ NeverEarly /\ [Next]_vars => NeverEarly'
<1> SUFFICES ASSUME Inv, ArmInv, NeverEarly, [Next]_vars, NEW j \in Timers, fired'[j] = "early"
             PROVE  FALSE
  BY DEF NeverEarly
<1> USE NoneAssumption, SecAssumption, BoundsAssumption DEF clocks
<1>0. /\ TypeOK /\ tick \in Nat /\ top \in Int /\ frac \in Nat /\ steps \in 0 .. MaxSteps
      /\ row \in [Timers -> Row] /\ kernel \in [Timers -> Int \cup {None}]
      /\ row[j].deadline \in Nat /\ row[j].rearms \in 0 .. MaxRearms
      /\ fired \in [Timers -> {"no", "early", "due"}] /\ fired[j] # "early"
  BY DEF Inv, TypeOK, Row, NeverEarly
<1>1. PICK i \in Timers : Elapse(i)
  BY <1>0 DEF Next, Client, Pump, Tick, StepClock, SetTimer, SetTimerPost, KillTimer, KillTimerPost,
    HandleTimer, HandleKill, ReadTick, ReadFrac, SetPITimer, Cancel, vars
<1>2. i = j /\ row[j].live /\ tick < row[j].deadline /\ ~(row[j].rearms < MaxRearms)
      /\ kernel[j] # None /\ top >= kernel[j]
  BY <1>0, <1>1 DEF Elapse
<1>3. Safe(j, kernel[j])
  BY <1>0, <1>2 DEF ArmInv, Carried
<1>4. kernel[j] \in Int /\ ~(row[j].rearms <= steps)
  BY <1>0, <1>2
<1> QED BY <1>0, <1>2, <1>3, <1>4 DEF Safe, OnSystemClock

-----------------------------------------------------------------------------
(* The theorems *)

LEMMA SpecInv == Spec => []Inv
<1>1. Init => Inv
  BY InvInit
<1>2. Inv /\ [Next]_vars => Inv'
  BY InvNext
<1> QED BY <1>1, <1>2, PTL DEF Spec

\* Types: every variable keeps to the values the code gives it, the timer table,
\* the kernel's timers and the pump's messages among them.
THEOREM TypesHold == Spec => []TypeOK
<1>1. Inv => TypeOK
  BY DEF Inv
<1> QED BY <1>1, SpecInv, PTL

\* No timer is forgotten: a row of m_mapTimers waits for its SetTimer, its
\* message, the pump or the kernel, through refused posts, refused arms, kills
\* and cancellations in any order.
THEOREM NoneForgotten == Spec => []NoTimerForgotten
<1>1. Inv => NoTimerForgotten
  BY DEF Inv, WaitInv, NoTimerForgotten, Pending, TimerMsg
<1> QED BY <1>1, SpecInv, PTL

\* No stray timer: the kernel holds none whose row has gone, whatever the pump,
\* a kill and the kernel's own cancellation do in between.
THEOREM NoneStray == Spec => []NoStrayTimer
<1>1. Inv => NoStrayTimer
  BY DEF Inv, HoldInv, NoStrayTimer
<1> QED BY <1>1, SpecInv, PTL

\* Timers are not early: with a second of any length and any delays, OnTimer does
\* not run before the tick SetTimer stamped while the system clock is set fewer
\* times than kTimerMaxRearms.
THEOREM NoneEarly ==
  ASSUME MaxSteps < MaxRearms
  PROVE  Spec => []NeverEarly
<1>1. Init => Inv /\ ArmInv /\ NeverEarly
  <2>1. Init => ArmInv /\ NeverEarly
    BY DEF Init, ArmInv, NeverEarly, NoRow
  <2> QED BY <2>1, InvInit
<1>2. Inv /\ ArmInv /\ NeverEarly /\ [Next]_vars => (Inv /\ ArmInv /\ NeverEarly)'
  BY InvNext, ArmNext, FiresDue
<1> QED BY <1>1, <1>2, PTL DEF Spec
=============================================================================
