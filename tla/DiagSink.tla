------------------------------ MODULE DiagSink ------------------------------
(* The diagnostics sink of a network, and the C++ wrapper that owns it.     *)
(*                                                                          *)
(* The kernel has one callback slot.  Whoever cancels an event calls the    *)
(* slot inline, on its own thread, and the network's side of that call,     *)
(* DeliverDiag (FacadeNetwork.cpp), takes no lock: it counts itself into    *)
(* m_lDiagBusy, reads the sink, reads the mask and calls the client's       *)
(* object.  SetDiagSink changes the mask, the sink and the slot, in that    *)
(* order, and an unregistration then waits for the count to drop.  The      *)
(* wrapper's Network::onDiag (TargetFacadeFn.hpp) calls SetDiagSink and     *)
(* then frees, or retires, the sink that was registered before.             *)
(*                                                                          *)
(* The wrapper's own members are unlocked, so its client is taken to make   *)
(* one onDiag call at a time; it may make it from inside the handler.       *)
EXTENDS Naturals, FiniteSets

CONSTANTS
  Threads,   \* the threads that raise events or call the wrapper
  Sinks,     \* the sink objects the wrapper creates, each one once
  Classes,   \* the severities of events
  NoSink,    \* the null sink pointer
  NoThread,  \* nobody is inside onDiag
  Careful,   \* the client registers only after its last sink is gone
  Prompt     \* handlers return before kDiagQuiesceSlices is used up

ASSUME SinkAssumption ==
  /\ IsFiniteSet(Threads)
  /\ NoSink \notin Sinks
  /\ NoThread \notin Threads
  /\ Careful \in BOOLEAN
  /\ Prompt \in BOOLEAN

VARIABLES
  sink,      \* m_pDiagSink
  mask,      \* m_lDiagMask
  slot,      \* the kernel's slot holds DiagCallback
  held,      \* m_lDiagHeld
  busy,      \* m_lDiagBusy
  at,        \* where each thread is in a delivery
  got,       \* pSink of each thread's delivery
  event,     \* the class of each thread's event
  call,      \* the onDiag call under way: who, where, and its new sink
  diag,      \* Network::m_diag
  retired,   \* Network::m_retired
  freed,     \* the sinks destroyed
  asked      \* history: the classes asked for since a sink was registered

delivery == <<busy, at, got, event>>
wrapper == <<diag, retired, freed>>
diagVars == <<sink, mask, slot, held, delivery, call, wrapper, asked>>

-----------------------------------------------------------------------------
SinkOrNull == Sinks \cup {NoSink}

Places == {"out", "called", "entered", "read", "inside", "leaving"}

(* The threads counted in m_lDiagBusy.                                      *)
Counted == {t \in Threads : at[t] \in {"entered", "read", "inside", "leaving"}}

(* tls_pDiagRec is set: the thread is inside the client's OnDiag.           *)
Inside(t) == at[t] = "inside"

Idle == [by |-> NoThread, pc |-> "idle", next |-> NoSink]

DiagInit ==
  /\ sink = NoSink
  /\ mask = {}
  /\ slot = FALSE
  /\ held = FALSE
  /\ busy = 0
  /\ at = [t \in Threads |-> "out"]
  /\ got = [t \in Threads |-> NoSink]
  /\ event \in [Threads -> Classes]
  /\ call = Idle
  /\ diag = NoSink
  /\ retired = {}
  /\ freed = {}
  /\ asked = [s \in Sinks |-> {}]

-----------------------------------------------------------------------------
(* Deliveries.                                                              *)

(* Thread t cancels an event of class c and finds the facade in the slot.   *)
(* A thread already inside a delivery is turned away by tls_pDiagRec, and a *)
(* thread inside onDiag raises nothing.                                     *)
Dispatch(t, c) ==
  /\ slot
  /\ at[t] = "out"
  /\ call.by # t
  /\ at' = [at EXCEPT ![t] = "called"]
  /\ event' = [event EXCEPT ![t] = c]
  /\ UNCHANGED <<sink, mask, slot, held, busy, got, call, wrapper, asked>>

EnterUncounted(t) ==
  /\ at[t] = "called"
  /\ at' = [at EXCEPT ![t] = "entered"]
  /\ UNCHANGED <<sink, mask, slot, held, busy, got, event, call, wrapper, asked>>

Enter(t) ==
  /\ at[t] = "called"
  /\ busy' = busy + 1
  /\ at' = [at EXCEPT ![t] = "entered"]
  /\ UNCHANGED <<sink, mask, slot, held, got, event, call, wrapper, asked>>

ReadSink(t) ==
  /\ at[t] = "entered"
  /\ got' = [got EXCEPT ![t] = sink]
  /\ at' = [at EXCEPT ![t] = IF sink = NoSink THEN "leaving" ELSE "read"]
  /\ UNCHANGED <<sink, mask, slot, held, busy, event, call, wrapper, asked>>

(* The mask is read after the sink; an event it admits reaches OnDiag.      *)
Filter(t) ==
  /\ at[t] = "read"
  /\ at' = [at EXCEPT ![t] = IF event[t] \in mask THEN "inside" ELSE "leaving"]
  /\ UNCHANGED <<sink, mask, slot, held, busy, got, event, call, wrapper, asked>>

(* OnDiag returns; a handler that called onDiag has left that call first.   *)
Return(t) ==
  /\ Inside(t)
  /\ call.by # t
  /\ at' = [at EXCEPT ![t] = "leaving"]
  /\ UNCHANGED <<sink, mask, slot, held, busy, got, event, call, wrapper, asked>>

Leave(t) ==
  /\ at[t] = "leaving"
  /\ busy' = busy - 1
  /\ at' = [at EXCEPT ![t] = "out"]
  /\ UNCHANGED <<sink, mask, slot, held, got, event, call, wrapper, asked>>

-----------------------------------------------------------------------------
(* SetDiagMask: one exchange, from any thread, at any time.                 *)

(* A mask that takes effect is asked for by every sink there is.            *)
Ask(m) == [s \in Sinks |-> asked[s] \cup m]

SetDiagMask(m) ==
  /\ mask' = m
  /\ asked' = Ask(m)
  /\ UNCHANGED <<sink, slot, held, delivery, call, wrapper>>

-----------------------------------------------------------------------------
(* onDiag(fn, m), and onDiag(nullptr) when s is NoSink.                     *)

Fresh(s) == s \in Sinks \ (freed \cup retired \cup {diag})

MayRegister == Careful => diag = NoSink /\ retired = {}

Begin(t, s, m) ==
  /\ call = Idle
  /\ at[t] \in {"out", "inside"}
  /\ IF s = NoSink THEN m = {} ELSE Fresh(s) /\ MayRegister
  /\ call' = [by |-> t, pc |-> "masked", next |-> s]
  /\ asked' = [x \in Sinks |-> IF x = s THEN m ELSE Ask(m)[x]]

OnDiagKeepsMask(t, s, m) ==
  /\ Begin(t, s, m)
  /\ UNCHANGED <<sink, mask, slot, held, delivery, wrapper>>

(* SetDiagSink exchanges the mask first.                                    *)
OnDiag(t, s, m) ==
  /\ Begin(t, s, m)
  /\ mask' = m
  /\ UNCHANGED <<sink, slot, held, delivery, wrapper>>

(* ... and then the sink, before it touches the slot.                       *)
SwapSink ==
  /\ call.pc = "masked"
  /\ sink' = call.next
  /\ call' = [call EXCEPT !.pc = "swapped"]
  /\ UNCHANGED <<mask, slot, held, delivery, wrapper, asked>>

(* A registration takes the slot and returns S_OK at once.                  *)
TakeSlot ==
  /\ call.pc = "swapped"
  /\ call.next # NoSink
  /\ slot' = TRUE
  /\ held' = TRUE
  /\ call' = [call EXCEPT !.pc = "set"]
  /\ UNCHANGED <<sink, mask, delivery, wrapper, asked>>

(* An unregistration gives the slot back if it was ever taken, and waits    *)
(* unless it comes from inside a delivery.                                  *)
GiveSlot ==
  /\ call.pc = "swapped"
  /\ call.next = NoSink
  /\ slot' = (slot /\ ~held)
  /\ held' = FALSE
  /\ call' = [call EXCEPT !.pc = IF Inside(call.by) THEN "set" ELSE "wait"]
  /\ UNCHANGED <<sink, mask, delivery, wrapper, asked>>

(* The wait ends when the count reads zero, or when the slices run out,     *)
(* which the caller cannot tell apart.                                      *)
Quiesce ==
  /\ call.pc = "wait"
  /\ busy = 0 \/ ~Prompt
  /\ call' = [call EXCEPT !.pc = "set"]
  /\ UNCHANGED <<sink, mask, slot, held, delivery, wrapper, asked>>

RetireAtOnce ==
  /\ call.pc = "set"
  /\ freed' = freed \cup retired \cup ({diag} \ {NoSink})
  /\ retired' = {}
  /\ diag' = call.next
  /\ call' = Idle
  /\ UNCHANGED <<sink, mask, slot, held, delivery, asked>>

(* retire: from inside a delivery the old sink is only put aside; from      *)
(* outside it is destroyed, with every sink put aside before it.            *)
Retire ==
  /\ call.pc = "set"
  /\ LET old == {diag} \ {NoSink} IN
       IF Inside(call.by)
       THEN /\ retired' = retired \cup old
            /\ freed' = freed
       ELSE /\ retired' = {}
            /\ freed' = freed \cup retired \cup old
  /\ diag' = call.next
  /\ call' = Idle
  /\ UNCHANGED <<sink, mask, slot, held, delivery, asked>>

-----------------------------------------------------------------------------
Deliver(t) ==
  \/ \E c \in Classes : Dispatch(t, c)
  \/ Enter(t)
  \/ ReadSink(t)
  \/ Filter(t)
  \/ Return(t)
  \/ Leave(t)

Register ==
  \/ \E t \in Threads, s \in SinkOrNull, m \in SUBSET Classes : OnDiag(t, s, m)
  \/ SwapSink
  \/ TakeSlot
  \/ GiveSlot
  \/ Quiesce
  \/ Retire

DiagNext ==
  \/ \E t \in Threads : Deliver(t)
  \/ \E m \in SUBSET Classes : SetDiagMask(m)
  \/ Register

DiagSpec == DiagInit /\ [][DiagNext]_diagVars

-----------------------------------------------------------------------------
TypeOK ==
  /\ sink \in SinkOrNull
  /\ mask \in SUBSET Classes
  /\ slot \in BOOLEAN
  /\ held \in BOOLEAN
  /\ busy \in 0..Cardinality(Threads)
  /\ at \in [Threads -> Places]
  /\ got \in [Threads -> SinkOrNull]
  /\ event \in [Threads -> Classes]
  /\ call \in [by : Threads \cup {NoThread},
               pc : {"idle", "masked", "swapped", "wait", "set"},
               next : SinkOrNull]
  /\ diag \in SinkOrNull
  /\ retired \in SUBSET Sinks
  /\ freed \in SUBSET Sinks
  /\ asked \in [Sinks -> SUBSET Classes]

(* No thread is inside, or about to call, a sink that has been destroyed,   *)
(* and none can still find one in m_pDiagSink: what onDiag says of the sink *)
(* it lets go ("once it returns the old object has nobody in it").          *)
FreedSinkUntouched ==
  /\ sink \notin freed
  /\ \A t \in Threads : at[t] \in {"read", "inside"} => got[t] \notin freed

(* A handler hears only classes that were asked for since it was            *)
(* registered: DeliverDiag reads the sink before the mask and SetDiagSink   *)
(* writes the mask before the sink, so a new sink never meets the filter of *)
(* the one before it.                                                       *)
OnlyAskedClasses ==
  \A t \in Threads : Inside(t) => event[t] \in asked[got[t]]
=============================================================================
