---------------------------- MODULE FacadeTimers ----------------------------
(***************************************************************************)
(* The facade's one-shot timers: SetTimer and KillTimer on client threads, *)
(* the pump that arms them in the kernel, and On_PITimer.                  *)
(*                                                                         *)
(* Two clocks are involved.  The facade's deadlines are in ticks since     *)
(* boot.  The kernel's are on the system clock truncated to the second, so *)
(* a kernel timer may elapse, at any wake-up of the pump, up to a second   *)
(* before the facade's deadline.  The facade then arms it again, adding    *)
(* back its position within the second.  The system clock may be stepped.  *)
(*                                                                         *)
(* The system clock is kept as the second it is in and the position within *)
(* that second, which is all anybody reads of it.  A step is one critical  *)
(* section, one clock reading or one call into the kernel: time passes     *)
(* between any two.                                                        *)
(***************************************************************************)
EXTENDS Integers, Sequences

CONSTANTS
  Timers,     \* the ids SetTimer hands out
  None,       \* no timer, no kernel deadline
  Delays,     \* the delays clients ask for, in ticks
  Sec,        \* ticks in a second
  MaxRearms,  \* kTimerMaxRearms
  MaxSteps,   \* bound: how often the system clock is stepped
  Horizon     \* bound: how many ticks pass

ASSUME NoneAssumption   == None \notin Timers \cup Int
ASSUME DelaysAssumption == Delays \subseteq Nat
ASSUME SecAssumption    == Sec \in Nat \ {0}
ASSUME BoundsAssumption == MaxRearms \in Nat /\ MaxSteps \in Nat /\ Horizon \in Nat

VARIABLES
  tick,     \* GetTickCount64
  top,      \* _time64(0)*1000: the second the system clock is in, in ticks
  frac,     \* MillisecsIntoSecond
  steps,    \* how often the system clock has been stepped
  client,   \* how far the client has got with each timer
  row,      \* m_mapTimers
  kernel,   \* per timer, the deadline of its kernel timer, or None
  queue,    \* private messages on their way to the pump
  pump,     \* what the pump is in the middle of
  fired     \* what the client has seen of each timer

vars == <<tick, top, frac, steps, client, row, kernel, queue, pump, fired>>

Row      == [live : BOOLEAN, deadline : Nat, rearms : 0 .. MaxRearms, armed : BOOLEAN]
NoRow    == [live |-> FALSE, deadline |-> 0, rearms |-> 0, armed |-> FALSE]
Msg      == [topic : {"timer", "kill"}, id : Timers]
PumpIdle == [at |-> "idle", id |-> None, delay |-> 0, compensate |-> FALSE]
Arming   == [at : {"tick", "frac", "set"}, id : Timers, delay : Nat, compensate : BOOLEAN]

TypeOK ==
  /\ tick \in Nat
  /\ top \in Int /\ frac \in 0 .. Sec - 1
  /\ steps \in 0 .. MaxSteps
  /\ client \in [Timers -> {"new", "recorded", "set", "killing", "done"}]
  /\ row \in [Timers -> Row]
  /\ kernel \in [Timers -> Int \cup {None}]
  /\ queue \in Seq(Msg)
  /\ pump \in Arming \cup {PumpIdle}
  /\ fired \in [Timers -> {"no", "early", "due"}]

Erase(i) == row' = [row EXCEPT ![i] = NoRow]
Enqueue(topic, i) == queue' = Append(queue, [topic |-> topic, id |-> i])

clocks == <<tick, top, frac, steps>>

-----------------------------------------------------------------------------
(* The clocks *)

Tick ==
  /\ tick < Horizon
  /\ tick' = tick + 1
  /\ IF frac + 1 < Sec THEN frac' = frac + 1 /\ UNCHANGED top
                       ELSE frac' = 0 /\ top' = top + Sec
  /\ UNCHANGED <<steps, client, row, kernel, queue, pump, fired>>

\* The system clock is set, forwards or back, by up to a second.
StepClock ==
  /\ steps < MaxSteps
  /\ steps' = steps + 1
  /\ top' \in {top - Sec, top, top + Sec}
  /\ frac' \in 0 .. Sec - 1
  /\ UNCHANGED <<tick, client, row, kernel, queue, pump, fired>>

-----------------------------------------------------------------------------
(* Client threads *)

\* SetTimer stamps the deadline and writes the row before it posts ...
SetTimer(i, d) ==
  /\ client[i] = "new"
  /\ client' = [client EXCEPT ![i] = "recorded"]
  /\ row' = [row EXCEPT ![i] = [NoRow EXCEPT !.live = TRUE, !.deadline = tick + d]]
  /\ UNCHANGED <<clocks, kernel, queue, pump, fired>>

\* ... and erases it again when the post is refused.
SetTimerPost(i) ==
  /\ client[i] = "recorded"
  /\ \/ /\ client' = [client EXCEPT ![i] = "set"]
        /\ Enqueue("timer", i)
        /\ UNCHANGED row
     \/ /\ client' = [client EXCEPT ![i] = "done"]
        /\ Erase(i)
        /\ UNCHANGED queue
  /\ UNCHANGED <<clocks, kernel, pump, fired>>

\* KillTimer answers S_FALSE for a timer without a row and otherwise leaves the
\* row for the pump to erase.
KillTimer(i) ==
  /\ client[i] = "set" /\ row[i].live
  /\ client' = [client EXCEPT ![i] = "killing"]
  /\ UNCHANGED <<clocks, row, kernel, queue, pump, fired>>

KillTimerPost(i) ==
  /\ client[i] = "killing"
  /\ \/ Enqueue("kill", i) /\ client' = [client EXCEPT ![i] = "done"]
     \/ client' = [client EXCEPT ![i] = "set"] /\ UNCHANGED queue
  /\ UNCHANGED <<clocks, row, kernel, pump, fired>>

-----------------------------------------------------------------------------
(* The pump *)

StartArming(i, compensate) ==
  pump' = [at |-> "tick", id |-> i, delay |-> 0, compensate |-> compensate]

\* HandlePrivate, timer: arm it, unless its row has gone.
HandleTimer ==
  /\ pump = PumpIdle /\ queue # <<>> /\ Head(queue).topic = "timer"
  /\ queue' = Tail(queue)
  /\ IF row[Head(queue).id].live THEN StartArming(Head(queue).id, FALSE)
                                 ELSE UNCHANGED pump
  /\ UNCHANGED <<clocks, client, row, kernel, fired>>

\* Mutant: the kernel's timer is left armed.
HandleKillRowOnly ==
  /\ pump = PumpIdle /\ queue # <<>> /\ Head(queue).topic = "kill"
  /\ queue' = Tail(queue)
  /\ Erase(Head(queue).id)
  /\ UNCHANGED <<clocks, client, kernel, pump, fired>>

\* HandlePrivate, kill: erase the row and retract the kernel timer it knows of.
HandleKill ==
  /\ pump = PumpIdle /\ queue # <<>> /\ Head(queue).topic = "kill"
  /\ queue' = Tail(queue)
  /\ LET i == Head(queue).id IN
     /\ Erase(i)
     /\ IF row[i].armed THEN kernel' = [kernel EXCEPT ![i] = None] ELSE UNCHANGED kernel
  /\ UNCHANGED <<clocks, client, pump, fired>>

\* Mutant: a deadline already past is not told apart.
ReadTickUnclamped ==
  /\ pump.at = "tick"
  /\ pump' = [pump EXCEPT !.delay = row[pump.id].deadline - tick,
                          !.at = IF pump.compensate THEN "frac" ELSE "set"]
  /\ UNCHANGED <<clocks, client, row, kernel, queue, fired>>

\* Mutant: a timer armed again is armed as it was the first time.
ReadTickUncompensated ==
  /\ pump.at = "tick"
  /\ LET left == row[pump.id].deadline - tick IN
     pump' = [pump EXCEPT !.delay = IF left > 0 THEN left ELSE 0, !.at = "set"]
  /\ UNCHANGED <<clocks, client, row, kernel, queue, fired>>

\* ArmPumpTimer: what is left of the delay; a deadline already past arms with 0.
ReadTick ==
  /\ pump.at = "tick"
  /\ LET left == row[pump.id].deadline - tick IN
     pump' = IF left > 0
             THEN [pump EXCEPT !.delay = left, !.at = IF pump.compensate THEN "frac" ELSE "set"]
             ELSE [pump EXCEPT !.at = "set"]
  /\ UNCHANGED <<clocks, client, row, kernel, queue, fired>>

\* The compensated form adds the position within the second ...
ReadFrac ==
  /\ pump.at = "frac"
  /\ pump' = [pump EXCEPT !.delay = @ + frac, !.at = "set"]
  /\ UNCHANGED <<clocks, client, row, kernel, queue, fired>>

\* Mutant: the row of a timer the kernel refused is kept.
SetPITimerKeepsRow ==
  /\ pump.at = "set"
  /\ pump' = PumpIdle
  /\ LET i == pump.id IN
     \/ /\ row[i].live
        /\ kernel' = [kernel EXCEPT ![i] = top + pump.delay]
        /\ row' = [row EXCEPT ![i].armed = TRUE]
     \/ UNCHANGED <<kernel, row>>
  /\ UNCHANGED <<clocks, client, queue, fired>>

\* ... that SetPITimer then truncates away.  A timer the kernel will not arm is
\* forgotten, and one whose row went in the meantime is retracted.
SetPITimer ==
  /\ pump.at = "set"
  /\ pump' = PumpIdle
  /\ LET i == pump.id IN
     \/ /\ row[i].live
        /\ kernel' = [kernel EXCEPT ![i] = top + pump.delay]
        /\ row' = [row EXCEPT ![i].armed = TRUE]
     \/ ~row[i].live /\ UNCHANGED <<kernel, row>>
     \/ Erase(i) /\ UNCHANGED kernel
  /\ UNCHANGED <<clocks, client, queue, fired>>

\* On_PITimer: the pump wakes, for whatever reason, in a second that has reached
\* the kernel's deadline.  Early, the timer is armed again; otherwise it is spent
\* and OnTimer runs.
Elapse(i) ==
  /\ pump = PumpIdle
  /\ kernel[i] # None /\ top >= kernel[i]
  /\ kernel' = [kernel EXCEPT ![i] = None]
  /\ LET early == tick < row[i].deadline IN
     \/ /\ row[i].live /\ early /\ row[i].rearms < MaxRearms
        /\ row' = [row EXCEPT ![i].rearms = @ + 1]
        /\ StartArming(i, TRUE)
        /\ UNCHANGED fired
     \/ /\ row[i].live /\ ~(early /\ row[i].rearms < MaxRearms)
        /\ Erase(i)
        /\ fired' = [fired EXCEPT ![i] = IF early THEN "early" ELSE "due"]
        /\ UNCHANGED pump
     \/ ~row[i].live /\ UNCHANGED <<row, pump, fired>>
  /\ UNCHANGED <<clocks, client, queue>>

\* On_PITimer with bCancel: the kernel gives the timer back unfired.
Cancel(i) ==
  /\ pump = PumpIdle
  /\ kernel[i] # None
  /\ kernel' = [kernel EXCEPT ![i] = None]
  /\ Erase(i)
  /\ UNCHANGED <<clocks, client, queue, pump, fired>>

-----------------------------------------------------------------------------
(* Specification *)

Init ==
  /\ tick = 0 /\ top = 0 /\ frac \in 0 .. Sec - 1 /\ steps = 0
  /\ client = [i \in Timers |-> "new"]
  /\ row = [i \in Timers |-> NoRow]
  /\ kernel = [i \in Timers |-> None]
  /\ queue = <<>>
  /\ pump = PumpIdle
  /\ fired = [i \in Timers |-> "no"]

Client(i) ==
  \/ \E d \in Delays : SetTimer(i, d)
  \/ SetTimerPost(i) \/ KillTimer(i) \/ KillTimerPost(i)

Pump ==
  \/ HandleTimer \/ HandleKill
  \/ ReadTick \/ ReadFrac \/ SetPITimer
  \/ \E i \in Timers : Elapse(i) \/ Cancel(i)

Next == Tick \/ StepClock \/ (\E i \in Timers : Client(i)) \/ Pump

Spec == Init /\ [][Next]_vars

-----------------------------------------------------------------------------
(* Properties *)

\* A timer does not fire early: whatever wakes the pump, and however long each
\* step of arming takes, OnTimer does not run before the tick SetTimer stamped.
NeverEarly == \A i \in Timers : fired[i] # "early"

\* No row waits for something that is not coming: its SetTimer has still to post,
\* its message is queued, the pump is arming it, or the kernel holds its timer.
NoTimerForgotten ==
  \A i \in Timers : row[i].live =>
    \/ client[i] = "recorded"
    \/ \E n \in 1 .. Len(queue) : queue[n] = [topic |-> "timer", id |-> i]
    \/ pump.id = i
    \/ kernel[i] # None

\* Nor does the kernel hold a timer nobody waits for, which would elapse as a
\* stray: one that was killed is retracted with its row.
NoStrayTimer == \A i \in Timers : kernel[i] # None => row[i].live
=============================================================================
