--------------------------- MODULE NetworkProofs ---------------------------
(***************************************************************************)
(* What three parts of the process around the hubs promise, each for any   *)
(* values of its constants: the diagnostics sink (DiagSink), the reads of  *)
(* a hub by position and in two passes (ReadSide), and the network's map,  *)
(* Link and the wrapper's topology (Topology).                             *)
(*                                                                         *)
(* That a sink is never used once it is destroyed rests on the count: an   *)
(* unregistration that reads m_lDiagBusy as zero has seen nobody in a      *)
(* delivery, and from then on the sink pointer is null, so nobody can pick *)
(* a sink up before the wrapper destroys the old one.                      *)
(*                                                                         *)
(* That a walk by position answers truly rests on the positions: as long   *)
(* as none shifts, all the walk has passed belong to other peers.          *)
(*                                                                         *)
(* That the ends of an edge meet rests on where each came from: an end     *)
(* that left its endpoint to the map agrees with the map for as long as    *)
(* the map is the version it read, an end that was resolved agrees with    *)
(* the listener's spelling, and Link arms both ends or none.               *)
(***************************************************************************)
EXTENDS DiagSink, Topology, ReadSide, FiniteSetTheorems, SequenceTheorems,
        WellFoundedInduction, TLAPS

-----------------------------------------------------------------------------
(* The diagnostics sink *)

\* The types, but for the count.
DiagTypes ==
  /\ sink \in SinkOrNull
  /\ mask \in SUBSET Classes
  /\ slot \in BOOLEAN
  /\ held \in BOOLEAN
  /\ at \in [Threads -> Places]
  /\ got \in [Threads -> SinkOrNull]
  /\ event \in [Threads -> Classes]
  /\ call \in [by : Threads \cup {NoThread},
               pc : {"idle", "masked", "swapped", "wait", "set"},
               next : SinkOrNull]
  /\ diag \in SinkOrNull
  /\ retired \in SUBSET Sinks
  /\ freed \in SUBSET Sinks
  /\ asked \in [Sinks -> SUBSET Classes]

\* m_lDiagBusy is the number of threads in a delivery.
BusyCounts == busy = Cardinality(Counted)

\* A call under way belongs to a thread that stays where it was.
CallInv ==
  /\ call.pc = "idle" => call = Idle
  /\ call.pc # "idle" => call.by \in Threads /\ at[call.by] \in {"out", "inside"}

\* The sink has been exchanged.
Swapped == call.pc \in {"swapped", "wait", "set"}

Holds(t) == at[t] \in {"read", "inside"}

\* Every sink that was ever published.
Used == freed \cup retired \cup {diag} \cup {s \in SinkOrNull : Swapped /\ s = call.next}

SinkInv ==
  /\ Swapped => sink = call.next
  /\ sink # NoSink => sink \in Used
  /\ call.pc # "idle" /\ call.next # NoSink =>
       call.next \notin freed \cup retired \cup {diag}
  /\ \A t \in Threads : Holds(t) => got[t] \in Used \ {NoSink}

\* The mask in force is no wider than what each sink in use asked for.
AskInv ==
  /\ sink # NoSink => mask \subseteq asked[sink]
  /\ call.pc = "masked" /\ call.next # NoSink => mask \subseteq asked[call.next]
  /\ \A t \in Threads : at[t] = "read" => mask \subseteq asked[got[t]]
  /\ \A t \in Threads : at[t] = "inside" => event[t] \in asked[got[t]]

DiagInv == DiagTypes /\ BusyCounts /\ CallInv /\ SinkInv /\ AskInv

\* With a careful client: a registration finds nothing to let go, and an
\* unregistration from outside a handler ends with nobody holding a sink.
QuietInv ==
  /\ FreedSinkUntouched
  /\ call.pc # "idle" /\ call.next # NoSink => diag = NoSink /\ retired = {}
  /\ call.pc = "set" /\ call.next = NoSink /\ at[call.by] = "out" =>
       \A t \in Threads : ~Holds(t)

-----------------------------------------------------------------------------

\* The counted threads are finitely many, and no more than there are threads.
LEMMA CountedFinite ==
  IsFiniteSet(Counted) /\ Cardinality(Counted) \in 0 .. Cardinality(Threads)
<1>1. Counted \subseteq Threads
  BY DEF Counted
<1>2. /\ IsFiniteSet(Counted)
      /\ Cardinality(Counted) <= Cardinality(Threads)
  BY <1>1, FS_Subset, SinkAssumption
<1>3. Cardinality(Counted) \in Nat /\ Cardinality(Threads) \in Nat
  BY <1>2, FS_CardinalityType, SinkAssumption
<1> QED BY <1>2, <1>3

\* The initial state satisfies both invariants.
LEMMA DiagInitInv == DiagInit => DiagInv /\ QuietInv
<1> SUFFICES ASSUME DiagInit PROVE DiagInv /\ QuietInv
  OBVIOUS
<1> USE SinkAssumption DEF DiagInit
<1>1. DiagTypes
  BY DEF DiagTypes, SinkOrNull, Places, Idle
<1>2. BusyCounts
  <2>1. Counted = {}
    BY DEF Counted
  <2> QED BY <2>1, FS_EmptySet DEF BusyCounts
<1>3. CallInv
  BY DEF CallInv, Idle
<1>4. SinkInv
  BY DEF SinkInv, Swapped, Holds, Idle
<1>5. AskInv
  BY DEF AskInv, Idle
<1>6. QuietInv
  BY DEF QuietInv, FreedSinkUntouched, Idle
<1> QED BY <1>1, <1>2, <1>3, <1>4, <1>5, <1>6 DEF DiagInv

\* Every step keeps the unconditional invariant.
LEMMA DiagNextInv == DiagInv /\ [DiagNext]_diagVars => DiagInv'
<1> SUFFICES ASSUME DiagInv, [DiagNext]_diagVars PROVE DiagInv'
  OBVIOUS
<1> USE SinkAssumption DEF DiagInv, delivery, wrapper
<1>1. ASSUME NEW t \in Threads, NEW c \in Classes, Dispatch(t, c) PROVE DiagInv'
  <2>1. DiagTypes'
    BY <1>1 DEF Dispatch, DiagTypes, SinkOrNull, Places
  <2>2. BusyCounts'
    <3>1. Counted' = Counted
      BY <1>1 DEF Dispatch, Counted, DiagTypes
    <3> QED BY <1>1, <3>1 DEF Dispatch, BusyCounts
  <2>3. CallInv'
    BY <1>1 DEF Dispatch, CallInv, DiagTypes, Idle
  <2>4. SinkInv'
    BY <1>1 DEF Dispatch, SinkInv, CallInv, Swapped, Holds, Used, DiagTypes, SinkOrNull, Idle
  <2>5. AskInv'
    BY <1>1
       DEF Dispatch, AskInv, SinkInv, CallInv, Swapped, Holds, Used, DiagTypes, SinkOrNull, Idle
  <2> QED BY <2>1, <2>2, <2>3, <2>4, <2>5
<1>2. ASSUME NEW t \in Threads, Enter(t) PROVE DiagInv'
  <2>1. DiagTypes'
    BY <1>2 DEF Enter, DiagTypes, SinkOrNull, Places
  <2>2. BusyCounts'
    <3>1. Counted' = Counted \cup {t} /\ t \notin Counted
      BY <1>2 DEF Enter, Counted, DiagTypes
    <3> QED BY <1>2, <3>1, CountedFinite, FS_AddElement DEF Enter, BusyCounts
  <2>3. CallInv'
    BY <1>2 DEF Enter, CallInv, DiagTypes, Idle
  <2>4. SinkInv'
    BY <1>2 DEF Enter, SinkInv, CallInv, Swapped, Holds, Used, DiagTypes, SinkOrNull, Idle
  <2>5. AskInv'
    BY <1>2 DEF Enter, AskInv, SinkInv, CallInv, Swapped, Holds, Used, DiagTypes, SinkOrNull, Idle
  <2> QED BY <2>1, <2>2, <2>3, <2>4, <2>5
<1>3. ASSUME NEW t \in Threads, ReadSink(t) PROVE DiagInv'
  <2>1. DiagTypes'
    BY <1>3 DEF ReadSink, DiagTypes, SinkOrNull, Places
  <2>2. BusyCounts'
    <3>1. Counted' = Counted
      BY <1>3 DEF ReadSink, Counted, DiagTypes
    <3> QED BY <1>3, <3>1 DEF ReadSink, BusyCounts
  <2>3. CallInv'
    BY <1>3 DEF ReadSink, CallInv, DiagTypes, Idle
  <2>4. SinkInv'
    BY <1>3 DEF ReadSink, SinkInv, CallInv, Swapped, Holds, Used, DiagTypes, SinkOrNull, Idle
  <2>5. AskInv'
    BY <1>3
       DEF ReadSink, AskInv, SinkInv, CallInv, Swapped, Holds, Used, DiagTypes, SinkOrNull, Idle
  <2> QED BY <2>1, <2>2, <2>3, <2>4, <2>5
<1>4. ASSUME NEW t \in Threads, Filter(t) PROVE DiagInv'
  <2>1. DiagTypes'
    BY <1>4 DEF Filter, DiagTypes, SinkOrNull, Places
  <2>2. BusyCounts'
    <3>1. Counted' = Counted
      BY <1>4 DEF Filter, Counted, DiagTypes
    <3> QED BY <1>4, <3>1 DEF Filter, BusyCounts
  <2>3. CallInv'
    BY <1>4 DEF Filter, CallInv, DiagTypes, Idle
  <2>4. SinkInv'
    BY <1>4 DEF Filter, SinkInv, CallInv, Swapped, Holds, Used, DiagTypes, SinkOrNull, Idle
  <2>5. AskInv'
    BY <1>4 DEF Filter, AskInv, SinkInv, CallInv, Swapped, Holds, Used, DiagTypes, SinkOrNull, Idle
  <2> QED BY <2>1, <2>2, <2>3, <2>4, <2>5
<1>5. ASSUME NEW t \in Threads, Return(t) PROVE DiagInv'
  <2>1. DiagTypes'
    BY <1>5 DEF Return, Inside, DiagTypes, SinkOrNull, Places
  <2>2. BusyCounts'
    <3>1. Counted' = Counted
      BY <1>5 DEF Return, Inside, Counted, DiagTypes
    <3> QED BY <1>5, <3>1 DEF Return, BusyCounts
  <2>3. CallInv'
    BY <1>5 DEF Return, Inside, CallInv, DiagTypes, Idle
  <2>4. SinkInv'
    BY <1>5 DEF Return, Inside, SinkInv, CallInv, Swapped, Holds, Used, DiagTypes, SinkOrNull, Idle
  <2>5. AskInv'
    BY <1>5
       DEF Return, Inside, AskInv, SinkInv, CallInv, Swapped, Holds, Used, DiagTypes,
           SinkOrNull, Idle
  <2> QED BY <2>1, <2>2, <2>3, <2>4, <2>5
<1>6. ASSUME NEW t \in Threads, Leave(t) PROVE DiagInv'
  <2>1. DiagTypes'
    BY <1>6 DEF Leave, DiagTypes, SinkOrNull, Places
  <2>2. BusyCounts'
    <3>1. Counted' = Counted \ {t} /\ t \in Counted
      BY <1>6 DEF Leave, Counted, DiagTypes
    <3> QED BY <1>6, <3>1, CountedFinite, FS_RemoveElement DEF Leave, BusyCounts
  <2>3. CallInv'
    BY <1>6 DEF Leave, CallInv, DiagTypes, Idle
  <2>4. SinkInv'
    BY <1>6 DEF Leave, SinkInv, CallInv, Swapped, Holds, Used, DiagTypes, SinkOrNull, Idle
  <2>5. AskInv'
    BY <1>6 DEF Leave, AskInv, SinkInv, CallInv, Swapped, Holds, Used, DiagTypes, SinkOrNull, Idle
  <2> QED BY <2>1, <2>2, <2>3, <2>4, <2>5
<1>7. ASSUME NEW m \in SUBSET Classes, SetDiagMask(m) PROVE DiagInv'
  <2>1. DiagTypes'
    BY <1>7 DEF SetDiagMask, Ask, DiagTypes, SinkOrNull, Places
  <2>2. BusyCounts'
    BY <1>7 DEF SetDiagMask, Ask, BusyCounts, Counted
  <2>3. CallInv'
    BY <1>7 DEF SetDiagMask, Ask, CallInv, DiagTypes, Idle
  <2>4. SinkInv'
    BY <1>7
       DEF SetDiagMask, Ask, SinkInv, CallInv, Swapped, Holds, Used, DiagTypes, SinkOrNull, Idle
  <2>5. AskInv'
    BY <1>7
       DEF SetDiagMask, Ask, AskInv, SinkInv, CallInv, Swapped, Holds, Used, DiagTypes,
           SinkOrNull, Idle
  <2> QED BY <2>1, <2>2, <2>3, <2>4, <2>5
<1>8. ASSUME NEW t \in Threads, NEW s \in SinkOrNull, NEW m \in SUBSET Classes, OnDiag(t, s, m)
      PROVE  DiagInv'
  <2>1. DiagTypes'
    BY <1>8 DEF OnDiag, Begin, Fresh, Ask, MayRegister, DiagTypes, SinkOrNull, Places
  <2>2. BusyCounts'
    BY <1>8 DEF OnDiag, Begin, Fresh, Ask, MayRegister, BusyCounts, Counted
  <2>3. CallInv'
    BY <1>8 DEF OnDiag, Begin, Fresh, Ask, MayRegister, CallInv, DiagTypes, Idle
  <2>4. SinkInv'
    BY <1>8
       DEF OnDiag, Begin, Fresh, Ask, MayRegister, SinkInv, CallInv, Swapped, Holds, Used,
           DiagTypes, SinkOrNull, Idle
  <2>5. AskInv'
    BY <1>8
       DEF OnDiag, Begin, Fresh, Ask, MayRegister, AskInv, SinkInv, CallInv, Swapped, Holds,
           Used, DiagTypes, SinkOrNull, Idle
  <2> QED BY <2>1, <2>2, <2>3, <2>4, <2>5
<1>9. ASSUME SwapSink PROVE DiagInv'
  <2>1. DiagTypes'
    BY <1>9 DEF SwapSink, DiagTypes, SinkOrNull, Places
  <2>2. BusyCounts'
    BY <1>9 DEF SwapSink, BusyCounts, Counted
  <2>3. CallInv'
    BY <1>9 DEF SwapSink, CallInv, DiagTypes, Idle
  <2>4. SinkInv'
    BY <1>9 DEF SwapSink, SinkInv, CallInv, Swapped, Holds, Used, DiagTypes, SinkOrNull, Idle
  <2>5. AskInv'
    BY <1>9
       DEF SwapSink, AskInv, SinkInv, CallInv, Swapped, Holds, Used, DiagTypes, SinkOrNull, Idle
  <2> QED BY <2>1, <2>2, <2>3, <2>4, <2>5
<1>10. ASSUME TakeSlot PROVE DiagInv'
  <2>1. DiagTypes'
    BY <1>10 DEF TakeSlot, DiagTypes, SinkOrNull, Places
  <2>2. BusyCounts'
    BY <1>10 DEF TakeSlot, BusyCounts, Counted
  <2>3. CallInv'
    BY <1>10 DEF TakeSlot, CallInv, DiagTypes, Idle
  <2>4. SinkInv'
    BY <1>10 DEF TakeSlot, SinkInv, CallInv, Swapped, Holds, Used, DiagTypes, SinkOrNull, Idle
  <2>5. AskInv'
    BY <1>10
       DEF TakeSlot, AskInv, SinkInv, CallInv, Swapped, Holds, Used, DiagTypes, SinkOrNull, Idle
  <2> QED BY <2>1, <2>2, <2>3, <2>4, <2>5
<1>11. ASSUME GiveSlot PROVE DiagInv'
  <2>1. DiagTypes'
    BY <1>11 DEF GiveSlot, Inside, DiagTypes, SinkOrNull, Places
  <2>2. BusyCounts'
    BY <1>11 DEF GiveSlot, Inside, BusyCounts, Counted
  <2>3. CallInv'
    BY <1>11 DEF GiveSlot, Inside, CallInv, DiagTypes, Idle
  <2>4. SinkInv'
    BY <1>11
       DEF GiveSlot, Inside, SinkInv, CallInv, Swapped, Holds, Used, DiagTypes, SinkOrNull, Idle
  <2>5. AskInv'
    BY <1>11
       DEF GiveSlot, Inside, AskInv, SinkInv, CallInv, Swapped, Holds, Used, DiagTypes,
           SinkOrNull, Idle
  <2> QED BY <2>1, <2>2, <2>3, <2>4, <2>5
<1>12. ASSUME Quiesce PROVE DiagInv'
  <2>1. DiagTypes'
    BY <1>12 DEF Quiesce, DiagTypes, SinkOrNull, Places
  <2>2. BusyCounts'
    BY <1>12 DEF Quiesce, BusyCounts, Counted
  <2>3. CallInv'
    BY <1>12 DEF Quiesce, CallInv, DiagTypes, Idle
  <2>4. SinkInv'
    BY <1>12 DEF Quiesce, SinkInv, CallInv, Swapped, Holds, Used, DiagTypes, SinkOrNull, Idle
  <2>5. AskInv'
    BY <1>12
       DEF Quiesce, AskInv, SinkInv, CallInv, Swapped, Holds, Used, DiagTypes, SinkOrNull, Idle
  <2> QED BY <2>1, <2>2, <2>3, <2>4, <2>5
<1>13. ASSUME Retire PROVE DiagInv'
  <2>1. DiagTypes'
    BY <1>13 DEF Retire, Inside, DiagTypes, SinkOrNull, Places, Idle
  <2>2. BusyCounts'
    BY <1>13 DEF Retire, Inside, BusyCounts, Counted
  <2>3. CallInv'
    BY <1>13 DEF Retire, Inside, CallInv, DiagTypes, Idle
  <2>4. SinkInv'
    BY <1>13 DEF Retire, Inside, SinkInv, CallInv, Swapped, Holds, Used, DiagTypes, SinkOrNull, Idle
  <2>5. AskInv'
    BY <1>13
       DEF Retire, Inside, AskInv, SinkInv, CallInv, Swapped, Holds, Used, DiagTypes,
           SinkOrNull, Idle
  <2> QED BY <2>1, <2>2, <2>3, <2>4, <2>5
<1>14. ASSUME UNCHANGED diagVars PROVE DiagInv'
  BY <1>14
     DEF diagVars, DiagTypes, BusyCounts, Counted, CallInv, SinkInv, AskInv, Swapped, Holds,
         Used
<1> QED
  BY <1>1, <1>2, <1>3, <1>4, <1>5, <1>6, <1>7, <1>8, <1>9, <1>10, <1>11, <1>12, <1>13, <1>14
     DEF DiagNext, Deliver, Register

\* Every step of a careful client, whose handlers are prompt, keeps the other.
LEMMA DiagNextQuiet ==
  Careful /\ Prompt /\ DiagInv /\ QuietInv /\ [DiagNext]_diagVars => QuietInv'
<1> SUFFICES ASSUME Careful, Prompt, DiagInv, QuietInv, [DiagNext]_diagVars PROVE QuietInv'
  OBVIOUS
<1> USE SinkAssumption DEF DiagInv, QuietInv, FreedSinkUntouched, Holds, delivery, wrapper
<1>1. ASSUME NEW t \in Threads, NEW c \in Classes, Dispatch(t, c) PROVE QuietInv'
  BY <1>1 DEF Dispatch, CallInv, SinkInv, Swapped, DiagTypes, Idle, SinkOrNull
<1>2. ASSUME NEW t \in Threads, Enter(t) PROVE QuietInv'
  BY <1>2 DEF Enter, CallInv, SinkInv, Swapped, DiagTypes, Idle, SinkOrNull
<1>3. ASSUME NEW t \in Threads, ReadSink(t) PROVE QuietInv'
  BY <1>3 DEF ReadSink, CallInv, SinkInv, Swapped, DiagTypes, Idle, SinkOrNull
<1>4. ASSUME NEW t \in Threads, Filter(t) PROVE QuietInv'
  BY <1>4 DEF Filter, CallInv, SinkInv, Swapped, DiagTypes, Idle, SinkOrNull
<1>5. ASSUME NEW t \in Threads, Return(t) PROVE QuietInv'
  BY <1>5 DEF Return, Inside, CallInv, SinkInv, Swapped, DiagTypes, Idle, SinkOrNull
<1>6. ASSUME NEW t \in Threads, Leave(t) PROVE QuietInv'
  BY <1>6 DEF Leave, CallInv, SinkInv, Swapped, DiagTypes, Idle, SinkOrNull
<1>7. ASSUME NEW m \in SUBSET Classes, SetDiagMask(m) PROVE QuietInv'
  BY <1>7 DEF SetDiagMask, Ask, CallInv, SinkInv, Swapped, DiagTypes, Idle, SinkOrNull
<1>8. ASSUME NEW t \in Threads, NEW s \in SinkOrNull, NEW m \in SUBSET Classes, OnDiag(t, s, m)
      PROVE  QuietInv'
  BY <1>8
     DEF OnDiag, Begin, Fresh, Ask, MayRegister, CallInv, SinkInv, Swapped, DiagTypes, Idle,
         SinkOrNull
<1>9. ASSUME SwapSink PROVE QuietInv'
  BY <1>9 DEF SwapSink, CallInv, SinkInv, Swapped, DiagTypes, Idle, SinkOrNull
<1>10. ASSUME TakeSlot PROVE QuietInv'
  BY <1>10 DEF TakeSlot, CallInv, SinkInv, Swapped, DiagTypes, Idle, SinkOrNull
<1>11. ASSUME GiveSlot PROVE QuietInv'
  BY <1>11 DEF GiveSlot, Inside, CallInv, SinkInv, Swapped, DiagTypes, Idle, SinkOrNull
<1>12. ASSUME Quiesce PROVE QuietInv'
  <2>1. Counted = {}
    BY <1>12, CountedFinite, FS_EmptySet DEF Quiesce, BusyCounts
  <2>2. \A t \in Threads : ~Holds(t)
    BY <2>1 DEF Counted
  <2> QED BY <1>12, <2>2 DEF Quiesce, CallInv, DiagTypes
<1>13. ASSUME Retire PROVE QuietInv'
  <2>1. CASE Inside(call.by)
    BY <1>13, <2>1 DEF Retire, CallInv, SinkInv, Swapped, DiagTypes, Inside, Idle, SinkOrNull
  <2>2. CASE ~Inside(call.by) /\ call.next = NoSink
    BY <1>13, <2>2 DEF Retire, CallInv, SinkInv, Swapped, DiagTypes, Inside, Idle, SinkOrNull
  <2>3. CASE ~Inside(call.by) /\ call.next # NoSink
    BY <1>13, <2>3 DEF Retire, CallInv, SinkInv, Swapped, DiagTypes, Inside, Idle, SinkOrNull
  <2> QED BY <2>1, <2>2, <2>3
<1>14. ASSUME UNCHANGED diagVars PROVE QuietInv'
  BY <1>14 DEF diagVars
<1> QED
  BY <1>1, <1>2, <1>3, <1>4, <1>5, <1>6, <1>7, <1>8, <1>9, <1>10, <1>11, <1>12, <1>13, <1>14
     DEF DiagNext, Deliver, Register

\* Every state of the sink.
LEMMA DiagSpecInv == DiagSpec => []DiagInv
<1>1. DiagInit => DiagInv
  BY DiagInitInv
<1> QED BY <1>1, DiagNextInv, PTL DEF DiagSpec

-----------------------------------------------------------------------------

\* Every variable keeps its type; m_lDiagBusy never goes below zero nor above
\* the number of threads (FacadeNetwork.cpp, DeliverDiag).
THEOREM DiagTypeCorrect == DiagSpec => []TypeOK
<1>1. DiagInv => TypeOK
  BY CountedFinite DEF DiagInv, DiagTypes, BusyCounts, TypeOK
<1> QED BY <1>1, DiagSpecInv, PTL

\* A handler never hears a class nobody asked for since it was registered,
\* whatever registrations, masks and deliveries overlap.
THEOREM AskedClassesOnly == DiagSpec => []OnlyAskedClasses
<1>1. DiagInv => OnlyAskedClasses
  BY DEF DiagInv, AskInv, OnlyAskedClasses, Inside
<1> QED BY <1>1, DiagSpecInv, PTL

\* A client that unregisters before it registers again, and whose handlers
\* return within the wait of SetDiagSink, has no thread in a destroyed sink.
THEOREM FreedSinksRest ==
  ASSUME Careful, Prompt
  PROVE  DiagSpec => []FreedSinkUntouched
<1>1. DiagInit => QuietInv
  BY DiagInitInv
<1>2. DiagInv /\ QuietInv /\ [DiagNext]_diagVars => QuietInv'
  BY DiagNextQuiet
<1>3. QuietInv => FreedSinkUntouched
  BY DEF QuietInv
<1> QED BY <1>1, <1>2, <1>3, DiagSpecInv, PTL DEF DiagSpec

-----------------------------------------------------------------------------
(* Numbers in order *)

\* A member that is larger has a later place.
LEMMA RankGrows ==
  ASSUME NEW S, IsFiniteSet(S), S \subseteq Int, NEW x \in S, NEW y \in S, x < y
  PROVE  Rank(S, x) < Rank(S, y)
<1> DEFINE X == {z \in S : z <= x}  Y == {z \in S : z <= y}
<1>1. X \subseteq Y /\ y \in Y /\ y \notin X
  <2>1. \A z \in S : z \in Int
    OBVIOUS
  <2>2. x \in Int /\ y \in Int
    OBVIOUS
  <2>3. \A z \in S : z <= x => z <= y
    BY <2>1, <2>2
  <2>4. X \subseteq Y
    BY <2>3
  <2>5. y \in Y /\ ~(y <= x)
    BY <2>2
  <2> QED BY <2>4, <2>5
<1>2. IsFiniteSet(X) /\ IsFiniteSet(Y)
  BY FS_Subset
<1>3. Cardinality(X) <= Cardinality(Y) /\ Cardinality(X) # Cardinality(Y)
  BY <1>1, <1>2, FS_Subset
<1>4. Cardinality(X) \in Nat /\ Cardinality(Y) \in Nat
  BY <1>2, FS_CardinalityType
<1> QED BY <1>3, <1>4 DEF Rank

\* A place is no further than there are members, and each has one member.
LEMMA RankIsPlace ==
  ASSUME NEW S, IsFiniteSet(S), S \subseteq Int
  PROVE  /\ Cardinality(S) \in Nat
         /\ \A x \in S : Rank(S, x) \in 1 .. Cardinality(S)
         /\ \A x, y \in S : Rank(S, x) = Rank(S, y) => x = y
         /\ \A k \in 1 .. Cardinality(S) : \E x \in S : Rank(S, x) = k
<1>1. Cardinality(S) \in Nat
  BY FS_CardinalityType
<1>2. ASSUME NEW x \in S PROVE Rank(S, x) \in 1 .. Cardinality(S)
  <2> DEFINE X == {z \in S : z <= x}
  <2>1. IsFiniteSet(X) /\ Cardinality(X) <= Cardinality(S) /\ Cardinality(X) \in Nat
    <3>1. X \in SUBSET S
      OBVIOUS
    <3> HIDE DEF X
    <3> QED BY <3>1, FS_Subset, FS_CardinalityType
  <2>2. X # {}
    OBVIOUS
  <2> HIDE DEF X
  <2>3. Cardinality(X) # 0
    BY <2>1, <2>2, FS_EmptySet
  <2> QED BY <1>1, <2>1, <2>3 DEF X, Rank
<1>3. ASSUME NEW x \in S, NEW y \in S, Rank(S, x) = Rank(S, y) PROVE x = y
  <2>1. x \in Int /\ y \in Int /\ Rank(S, x) \in Int
    BY <1>2
  <2>2. ASSUME x < y PROVE FALSE
    <3>1. Rank(S, x) < Rank(S, y)
      BY <2>2, RankGrows
    <3> QED BY <1>3, <2>1, <3>1
  <2>3. ASSUME y < x PROVE FALSE
    <3>1. Rank(S, y) < Rank(S, x)
      BY <2>3, RankGrows
    <3> QED BY <1>3, <2>1, <3>1
  <2> QED BY <2>1, <2>2, <2>3
<1> DEFINE f == [x \in S |-> Rank(S, x)]
<1>4. f \in Injection(S, 1 .. Cardinality(S))
  BY <1>2, <1>3 DEF Injection, IsInjective
<1>5. IsFiniteSet(1 .. Cardinality(S)) /\ Cardinality(1 .. Cardinality(S)) = Cardinality(S)
  BY <1>1, FS_Interval
<1> HIDE DEF f
<1>6. f \in Surjection(S, 1 .. Cardinality(S))
  BY <1>4, <1>5, FS_Injection
<1>7. ASSUME NEW k \in 1 .. Cardinality(S) PROVE \E x \in S : Rank(S, x) = k
  BY <1>6 DEF Surjection, f
<1> QED BY <1>1, <1>2, <1>3, <1>7

\* InOrder lists every member, once and in order.
LEMMA InOrderLists ==
  ASSUME NEW S, IsFiniteSet(S), S \subseteq Int
  PROVE  /\ Cardinality(S) \in Nat /\ Len(InOrder(S)) = Cardinality(S)
         /\ DOMAIN InOrder(S) = 1 .. Len(InOrder(S))
         /\ \A k \in DOMAIN InOrder(S) : InOrder(S)[k] \in S
         /\ \A x \in S : \E k \in DOMAIN InOrder(S) : InOrder(S)[k] = x
         /\ \A k, m \in DOMAIN InOrder(S) : k < m => InOrder(S)[k] < InOrder(S)[m]
         /\ \A k, m \in DOMAIN InOrder(S) : InOrder(S)[k] = InOrder(S)[m] => k = m
<1> DEFINE n == Cardinality(S)  q == InOrder(S)
<1>1. /\ n \in Nat
      /\ \A x \in S : Rank(S, x) \in 1 .. n
      /\ \A x, y \in S : Rank(S, x) = Rank(S, y) => x = y
      /\ \A k \in 1 .. n : \E x \in S : Rank(S, x) = k
  BY RankIsPlace
<1>2. DOMAIN q = 1 .. n
  BY DEF InOrder
<1>3. ASSUME NEW k \in 1 .. n PROVE q[k] \in S /\ Rank(S, q[k]) = k
  BY <1>1 DEF InOrder
<1> HIDE DEF q, n
<1>4. Len(q) = n
  <2>1. q \in Seq(S)
    <3>1. q = [k \in 1 .. n |-> q[k]]
      BY DEF q, n, InOrder
    <3> QED BY <1>1, <1>3, <3>1
  <2> QED BY <1>1, <1>2, <2>1, LenProperties
<1>5. ASSUME NEW x \in S PROVE \E k \in 1 .. n : q[k] = x
  BY <1>1, <1>3
<1>6. ASSUME NEW k \in 1 .. n, NEW m \in 1 .. n, k < m PROVE q[k] < q[m]
  <2>1. q[k] \in S /\ q[m] \in S /\ q[k] \in Int /\ q[m] \in Int
    BY <1>3
  <2>2. Rank(S, q[k]) = k /\ Rank(S, q[m]) = m
    BY <1>3
  <2>3. q[k] # q[m]
    BY <1>6, <2>2
  <2>4. ~(q[m] < q[k])
    <3>1. ASSUME q[m] < q[k] PROVE Rank(S, q[m]) < Rank(S, q[k])
      BY <2>1, <3>1, RankGrows
    <3> QED BY <1>6, <2>2, <3>1
  <2> QED BY <2>1, <2>3, <2>4
<1>7. ASSUME NEW k \in 1 .. n, NEW m \in 1 .. n, q[k] = q[m] PROVE k = m
  BY <1>3, <1>7
<1> QED BY <1>1, <1>2, <1>3, <1>4, <1>5, <1>6, <1>7 DEF q, n

\* A set of naturals that is not empty has a least member.
LEMMA HasLeast ==
  ASSUME NEW T, T \subseteq Nat, T # {}
  PROVE  \E x \in T : \A y \in T : x <= y
<1> DEFINE R == OpToRel(<, Nat)
<1>1. IsWellFoundedOn(R, Nat)
  BY NatLessThanWellFounded
<1>2. ASSUME NEW x \in Nat, NEW y \in Nat, ~(<<y, x>> \in R) PROVE x <= y
  BY <1>2 DEF OpToRel
<1> HIDE DEF R
<1>3. PICK x \in T : \A y \in T : ~(<<y, x>> \in R)
  BY <1>1, WFMin
<1>4. ASSUME NEW y \in T PROVE x <= y
  <2>1. x \in Nat /\ y \in Nat /\ ~(<<y, x>> \in R)
    BY <1>3
  <2> QED BY <1>2, <2>1
<1> QED BY <1>3, <1>4

-----------------------------------------------------------------------------
(* Reads by position *)

\* Every peer that has a row stands at a position.
LEMMA RowsList ==
  /\ Len(Rows) \in Nat /\ DOMAIN Rows = 1 .. Len(Rows)
  /\ \A p \in Peers : Row(p) # NoRow => \E k \in 1 .. Len(Rows) : Rows[k] = p
<1> DEFINE S == {i \in DOMAIN Order : Row(Order[i]) # NoRow}
<1>1. Len(Order) \in Nat /\ DOMAIN Order = 1 .. Len(Order)
  BY ReadsAssumption, LenProperties
<1>2. IsFiniteSet(S) /\ S \subseteq Int
  <2>1. S \subseteq 1 .. Len(Order)
    BY <1>1
  <2> HIDE DEF S
  <2>2. IsFiniteSet(1 .. Len(Order)) /\ 1 .. Len(Order) \subseteq Int
    BY <1>1, FS_Interval
  <2> QED BY <2>1, <2>2, FS_Subset
<1>3. ASSUME NEW p \in Peers, Row(p) # NoRow PROVE \E i \in S : Order[i] = p
  BY <1>3 DEF Peers, Range
<1> HIDE DEF S
<1>4. /\ Len(Placed) \in Nat /\ DOMAIN Placed = 1 .. Len(Placed)
      /\ \A i \in S : \E k \in DOMAIN Placed : Placed[k] = i
  <2>1. Placed = InOrder(S)
    BY DEF Placed, S
  <2>2. /\ Cardinality(S) \in Nat /\ Len(InOrder(S)) = Cardinality(S)
        /\ DOMAIN InOrder(S) = 1 .. Len(InOrder(S))
        /\ \A i \in S : \E k \in DOMAIN InOrder(S) : InOrder(S)[k] = i
    BY <1>2, InOrderLists
  <2> QED BY <2>1, <2>2
<1>5. DOMAIN Rows = 1 .. Len(Placed) /\ \A k \in 1 .. Len(Placed) : Rows[k] = Order[Placed[k]]
  BY <1>4 DEF Rows
<1>6. Len(Rows) = Len(Placed)
  BY <1>4, <1>5
<1> QED BY <1>3, <1>4, <1>5, <1>6

\* The read is a record of this shape.
ReadType ==
  /\ read = [what |-> read.what, at |-> read.at, peer |-> read.peer, count |-> read.count,
             i |-> read.i, name |-> read.name, flags |-> read.flags, first |-> read.first,
             tries |-> read.tries, was |-> read.was, steady |-> read.steady,
             moved |-> read.moved]
  /\ read.peer \in Peers /\ {read.count, read.tries, read.moved} \subseteq Nat
  /\ read.i \in Nat \ {0} /\ read.steady \in BOOLEAN
  /\ read.at = "idle" => read = NoRead

\* As long as the positions stand still, the walk has passed none but others.
WalkInv ==
  /\ read.at \in {"size", "name"} =>
       /\ Row(read.peer) \in read.was
       /\ read.steady =>
            read.count = Len(Rows) /\ \A k \in 1 .. read.i - 1 : Rows[k] # read.peer
  /\ read.at = "name" =>
       /\ read.i <= read.count
       /\ read.steady => read.name = Rows[read.i]
  /\ WalkAnswersTruly

\* A text that does not fit the size it was given has changed since.
TextInv ==
  /\ read.at = "sizing" => read.tries <= read.moved
  /\ read.at = "filling" =>
       read.tries <= read.moved /\ (ValueOf(read) # read.first => read.tries < read.moved)
  /\ read.at = "moreData" => read.tries <= read.moved /\ TriesOf(read) <= read.tries

ReadInv == ReadType /\ WalkInv /\ TextInv

\* What a text read reads depends on which read it is, and on nothing else it keeps.
LEMMA SameValue ==
  ASSUME NEW r, NEW s, r.what = s.what, r.peer = s.peer, r.i = s.i
  PROVE  ValueOf(r) = ValueOf(s) /\ ValueOf(r)' = ValueOf(s)'
<1>1. ValueOf(r) = ValueOf(s)
  BY DEF ValueOf
<1>2. ValueOf(r)' = ValueOf(s)'
  BY DEF ValueOf
<1> QED BY <1>1, <1>2

\* A change of the hub, seen by whoever reads it.
LEMMA WatchedKeeps ==
  ASSUME ReadInv, Watched, ~Over
  PROVE  ReadInv'
<1> DEFINE r == read
<1>1. CASE read.at = "idle"
  <2>1. read' = read /\ read = NoRead
    BY <1>1 DEF Watched, ReadInv, ReadType
  <2>2. ReadType' /\ WalkInv' /\ TextInv'
    BY <2>1 DEF ReadInv, ReadType, WalkInv, WalkAnswersTruly, TextInv, NoRead
  <2> QED BY <2>2 DEF ReadInv
<1>2. CASE read.at # "idle"
  <2>1. PICK q : q = read
    OBVIOUS
  <2>2. read' = [q EXCEPT !.was    = @ \cup {Row(q.peer)'},
                          !.steady = @ /\ Rows' = Rows,
                          !.moved  = IF ValueOf(q)' = ValueOf(q) THEN @ ELSE @ + 1]
    BY <1>2, <2>1 DEF Watched
  <2>3. q = [what |-> q.what, at |-> q.at, peer |-> q.peer, count |-> q.count,
             i |-> q.i, name |-> q.name, flags |-> q.flags, first |-> q.first,
             tries |-> q.tries, was |-> q.was, steady |-> q.steady, moved |-> q.moved]
    BY <2>1 DEF ReadInv, ReadType
  <2>4. /\ read'.what = q.what /\ read'.at = q.at /\ read'.peer = q.peer
        /\ read'.count = q.count /\ read'.i = q.i /\ read'.name = q.name
        /\ read'.flags = q.flags /\ read'.first = q.first /\ read'.tries = q.tries
        /\ read'.was = q.was \cup {Row(q.peer)'}
        /\ read'.steady = (q.steady /\ Rows' = Rows)
        /\ read'.moved = IF ValueOf(q)' = ValueOf(q) THEN q.moved ELSE q.moved + 1
        /\ read' = [what |-> q.what, at |-> q.at, peer |-> q.peer, count |-> q.count,
                    i |-> q.i, name |-> q.name, flags |-> q.flags, first |-> q.first,
                    tries |-> q.tries, was |-> read'.was, steady |-> read'.steady,
                    moved |-> read'.moved]
    BY <2>2, <2>3
  <2> HIDE <2>2
  <2>5. q.moved \in Nat /\ q.tries \in Nat /\ read'.moved \in Nat /\ q.moved <= read'.moved
    BY <2>1, <2>4 DEF ReadInv, ReadType
  <2>6. ReadType'
    BY <1>2, <2>1, <2>4, <2>5 DEF ReadInv, ReadType
  <2>7. WalkInv'
    <3>1. Row(read.peer)' = Row(q.peer)'
      BY <2>4 DEF Row
    <3>2. q.at \notin {"found", "unresolved"}
      BY <2>1 DEF Over
    <3>3. read'.steady => Rows' = Rows /\ q.steady
      BY <2>4
    <3> QED BY <2>1, <2>4, <3>1, <3>2, <3>3 DEF ReadInv, WalkInv, WalkAnswersTruly
  <2>8. TextInv'
    <3>1. ValueOf(read)' = ValueOf(q)'
      <4>1. PICK s : s = read'
        OBVIOUS
      <4>2. ValueOf(s)' = ValueOf(q)'
        BY <2>4, <4>1, SameValue
      <4> QED BY <4>1, <4>2
    <3>2. ValueOf(q)' # ValueOf(q) => q.moved < read'.moved
      BY <2>4, <2>5
    <3>3. ValueOf(read) = ValueOf(q)
      BY <2>1
    <3> QED BY <2>1, <2>4, <2>5, <3>1, <3>2, <3>3 DEF ReadInv, TextInv, Over
  <2> QED BY <2>6, <2>7, <2>8 DEF ReadInv
<1> QED BY <1>1, <1>2

\* The hub changes only before a read, or in the middle of one.
LEMMA MeanwhileKeeps == ReadInv /\ Meanwhile => ReadInv'
<1> SUFFICES ASSUME ReadInv, Meanwhile PROVE ReadInv'
  OBVIOUS
<1>1. Watched /\ ~Over
  BY DEF Meanwhile, Erase, MarkPeer, Arm, SetEntry, Change
<1> QED BY <1>1, WatchedKeeps

\* A step of the reader leaves the hub, and with it every row and text.
LEMMA ReaderFrame ==
  ASSUME UNCHANGED hubVars
  PROVE  /\ Rows' = Rows /\ \A p : Row(p)' = Row(p)
         /\ \A r : ValueOf(r)' = ValueOf(r)
<1>1. \A p : Row(p)' = Row(p)
  BY DEF hubVars, Row
<1>2. Rows' = Rows
  BY DEF hubVars, Row, Placed, Rows
<1>3. ASSUME NEW r PROVE ValueOf(r)' = ValueOf(r)
  BY DEF hubVars, Said, Row, Placed, Rows, ValueOf
<1> QED BY <1>1, <1>2, <1>3

\* RelationTo's walk begins with the count of this moment.
LEMMA BeginWalkKeeps ==
  ASSUME ReadInv, NEW p \in Peers, BeginWalk(p)
  PROVE  ReadInv'
<1>1. UNCHANGED hubVars /\ read = NoRead
      /\ read' = [NoRead EXCEPT !.what = "relation", !.at = "size", !.peer = p,
                                !.count = Len(Rows), !.was = {Row(p)}]
  BY DEF BeginWalk, Goes
<1>2. /\ read'.what = "relation" /\ read'.at = "size" /\ read'.peer = p
      /\ read'.count = Len(Rows) /\ read'.was = {Row(p)} /\ read'.i = 1
      /\ read'.tries = 0 /\ read'.moved = 0 /\ read'.steady = TRUE
      /\ read' = [what |-> "relation", at |-> "size", peer |-> p, count |-> Len(Rows), i |-> 1,
                  name |-> Order[1], flags |-> NoRow, first |-> <<>>, tries |-> 0,
                  was |-> {Row(p)}, steady |-> TRUE, moved |-> 0]
  BY <1>1 DEF NoRead
<1>3. ReadType'
  BY <1>2, RowsList DEF ReadType
<1>4. WalkInv'
  <2>1. Rows' = Rows /\ Row(read.peer)' = Row(p)
    BY <1>1, <1>2, ReaderFrame DEF Row, hubVars
  <2> QED BY <1>2, <2>1 DEF WalkInv, WalkAnswersTruly
<1>5. TextInv'
  BY <1>2 DEF TextInv
<1> QED BY <1>3, <1>4, <1>5 DEF ReadInv

\* The first GetCon finds a name, or the walk is past the last position.
LEMMA SizeNameKeeps ==
  ASSUME ReadInv, SizeName
  PROVE  ReadInv'
<1>1. PICK q : q = read
  OBVIOUS
<1>2. q = [what |-> q.what, at |-> q.at, peer |-> q.peer, count |-> q.count,
           i |-> q.i, name |-> q.name, flags |-> q.flags, first |-> q.first,
           tries |-> q.tries, was |-> q.was, steady |-> q.steady, moved |-> q.moved]
  BY <1>1 DEF ReadInv, ReadType
<1>3. /\ q.peer \in Peers /\ q.count \in Nat /\ q.tries \in Nat /\ q.moved \in Nat
      /\ q.i \in Nat \ {0} /\ q.steady \in BOOLEAN /\ q.at = "size"
      /\ Row(q.peer) \in q.was
      /\ q.steady => q.count = Len(Rows) /\ \A k \in 1 .. q.i - 1 : Rows[k] # q.peer
  BY <1>1 DEF ReadInv, ReadType, WalkInv, SizeName
<1>4. UNCHANGED hubVars
  BY DEF SizeName, Goes
<1>5. Rows' = Rows /\ \A p : Row(p)' = Row(p)
  BY <1>4, ReaderFrame
<1>6. CASE q.i > q.count \/ q.i > Len(Rows)
  <2>1. read' = [q EXCEPT !.at = "unresolved"]
    BY <1>1, <1>6 DEF SizeName, Goes
  <2>2. /\ read'.at = "unresolved" /\ read'.was = q.was /\ read'.steady = q.steady
        /\ read' = [what |-> q.what, at |-> "unresolved", peer |-> q.peer, count |-> q.count,
                    i |-> q.i, name |-> q.name, flags |-> q.flags, first |-> q.first,
                    tries |-> q.tries, was |-> q.was, steady |-> q.steady, moved |-> q.moved]
    BY <1>2, <2>1
  <2>3. ReadType'
    BY <1>3, <2>2 DEF ReadType
  <2>4. NoRow \in q.was \/ ~q.steady
    <3> SUFFICES ASSUME q.steady PROVE NoRow \in q.was
      OBVIOUS
    <3>1. \A k \in 1 .. Len(Rows) : Rows[k] # q.peer
      BY <1>3, <1>6, RowsList
    <3>2. Row(q.peer) = NoRow
      BY <1>3, <3>1, RowsList
    <3> QED BY <1>3, <3>2
  <2>5. WalkInv' /\ TextInv'
    BY <2>2, <2>4 DEF WalkInv, WalkAnswersTruly, TextInv
  <2> QED BY <2>3, <2>5 DEF ReadInv
<1>7. CASE ~(q.i > q.count \/ q.i > Len(Rows))
  <2>1. read' = [q EXCEPT !.at = "name", !.name = Rows[q.i], !.flags = Row(Rows[q.i])]
    BY <1>1, <1>7 DEF SizeName, Goes
  <2>2. /\ read'.at = "name" /\ read'.was = q.was /\ read'.steady = q.steady
        /\ read'.peer = q.peer /\ read'.count = q.count /\ read'.i = q.i
        /\ read'.name = Rows[q.i]
        /\ read' = [what |-> q.what, at |-> "name", peer |-> q.peer, count |-> q.count,
                    i |-> q.i, name |-> Rows[q.i], flags |-> Row(Rows[q.i]),
                    first |-> q.first, tries |-> q.tries, was |-> q.was,
                    steady |-> q.steady, moved |-> q.moved]
    BY <1>2, <2>1
  <2>3. ReadType'
    BY <1>3, <2>2 DEF ReadType
  <2>4. Row(read.peer)' = Row(q.peer)
    BY <1>5, <2>2 DEF Row
  <2>0. q.i <= q.count
    BY <1>3, <1>7, RowsList
  <2>5. WalkInv'
    BY <1>3, <1>5, <2>0, <2>2, <2>4 DEF WalkInv, WalkAnswersTruly
  <2>6. TextInv'
    BY <2>2 DEF TextInv
  <2> QED BY <2>3, <2>5, <2>6 DEF ReadInv
<1> QED BY <1>6, <1>7

\* The second GetCon reads the name and its flags, or the position is passed over.
LEMMA ReadNameKeeps ==
  ASSUME ReadInv, ReadName
  PROVE  ReadInv'
<1>1. PICK q : q = read
  OBVIOUS
<1>2. q = [what |-> q.what, at |-> q.at, peer |-> q.peer, count |-> q.count,
           i |-> q.i, name |-> q.name, flags |-> q.flags, first |-> q.first,
           tries |-> q.tries, was |-> q.was, steady |-> q.steady, moved |-> q.moved]
  BY <1>1 DEF ReadInv, ReadType
<1>3. /\ q.peer \in Peers /\ q.count \in Nat /\ q.tries \in Nat /\ q.moved \in Nat
      /\ q.i \in Nat \ {0} /\ q.steady \in BOOLEAN /\ q.at = "name" /\ q.i <= q.count
      /\ Row(q.peer) \in q.was
      /\ q.steady => /\ q.count = Len(Rows) /\ \A k \in 1 .. q.i - 1 : Rows[k] # q.peer
                     /\ q.name = Rows[q.i]
  BY <1>1 DEF ReadInv, ReadType, WalkInv, ReadName
<1>4. UNCHANGED hubVars
  BY DEF ReadName, Goes
<1>5. Rows' = Rows /\ (\A p : Row(p)' = Row(p)) /\ Len(Rows) \in Nat
      /\ DOMAIN Rows = 1 .. Len(Rows)
  BY <1>4, ReaderFrame, RowsList
<1>6. CASE Rows[q.i] = q.peer /\ read' = [q EXCEPT !.at = "found", !.flags = Row(q.peer)]
  <2>1. /\ read'.at = "found" /\ read'.was = q.was /\ read'.flags = Row(q.peer)
        /\ read' = [what |-> q.what, at |-> "found", peer |-> q.peer, count |-> q.count,
                    i |-> q.i, name |-> q.name, flags |-> Row(q.peer),
                    first |-> q.first, tries |-> q.tries, was |-> q.was,
                    steady |-> q.steady, moved |-> q.moved]
    BY <1>2, <1>6
  <2>2. ReadType'
    BY <1>3, <2>1 DEF ReadType
  <2>3. WalkInv' /\ TextInv'
    BY <1>3, <2>1 DEF WalkInv, WalkAnswersTruly, TextInv
  <2> QED BY <2>2, <2>3 DEF ReadInv
<1>7. CASE read' = Onward(q) /\ (q.steady => Rows[q.i] # q.peer)
  <2>0. q.steady => \A k \in 1 .. q.i : Rows[k] # q.peer
    BY <1>3, <1>7
  <2>1. CASE q.i = q.count
    <3>1. read' = [q EXCEPT !.at = "unresolved"]
      BY <1>7, <2>1 DEF Onward
    <3>2. /\ read'.at = "unresolved" /\ read'.was = q.was /\ read'.steady = q.steady
          /\ read' = [what |-> q.what, at |-> "unresolved", peer |-> q.peer,
                      count |-> q.count, i |-> q.i, name |-> q.name, flags |-> q.flags,
                      first |-> q.first, tries |-> q.tries, was |-> q.was,
                      steady |-> q.steady, moved |-> q.moved]
      BY <1>2, <3>1
    <3>3. ReadType'
      BY <1>3, <3>2 DEF ReadType
    <3>4. NoRow \in q.was \/ ~q.steady
      BY <1>3, <2>0, <2>1, RowsList
    <3>5. WalkInv' /\ TextInv'
      BY <3>2, <3>4 DEF WalkInv, WalkAnswersTruly, TextInv
    <3> QED BY <3>3, <3>5 DEF ReadInv
  <2>2. CASE q.i # q.count
    <3>1. read' = [q EXCEPT !.at = "size", !.i = @ + 1]
      BY <1>7, <2>2 DEF Onward
    <3>2. /\ read'.at = "size" /\ read'.was = q.was /\ read'.steady = q.steady
          /\ read'.peer = q.peer /\ read'.count = q.count /\ read'.i = q.i + 1
          /\ read' = [what |-> q.what, at |-> "size", peer |-> q.peer,
                      count |-> q.count, i |-> q.i + 1, name |-> q.name, flags |-> q.flags,
                      first |-> q.first, tries |-> q.tries, was |-> q.was,
                      steady |-> q.steady, moved |-> q.moved]
      BY <1>2, <3>1
    <3>3. ReadType'
      BY <1>3, <3>2 DEF ReadType
    <3>4. Row(read.peer)' = Row(q.peer)
      BY <1>5, <3>2 DEF Row
    <3>5. \A k \in 1 .. (q.i + 1) - 1 : k \in 1 .. q.i
      BY <1>3
    <3>6. WalkInv' /\ TextInv'
      BY <1>3, <1>5, <2>0, <3>2, <3>4, <3>5 DEF WalkInv, WalkAnswersTruly, TextInv
    <3> QED BY <3>3, <3>6 DEF ReadInv
  <2> QED BY <2>1, <2>2
<1>8. \/ read' = Match(q)
      \/ read' = Onward(q) /\ (q.i \in DOMAIN Rows => Rows[q.i] # q.name)
  BY <1>1 DEF ReadName, Goes
<1>9. CASE read' = Match(q)
  BY <1>6, <1>7, <1>9 DEF Match
<1>10. CASE read' = Onward(q) /\ (q.i \in DOMAIN Rows => Rows[q.i] # q.name)
  BY <1>3, <1>5, <1>7, <1>10
<1> QED BY <1>8, <1>9, <1>10

\* A text read begins with its size.
LEMMA BeginTextKeeps ==
  ASSUME ReadInv, NEW what, NEW p \in Peers, NEW i \in Nat \ {0}, BeginText(what, p, i)
  PROVE  ReadInv'
<1>1. /\ read' = [NoRead EXCEPT !.what = what, !.at = "sizing", !.peer = p, !.i = i]
  BY DEF BeginText, Goes
<1>2. /\ read'.at = "sizing" /\ read'.peer = p /\ read'.count = 0 /\ read'.i = i
      /\ read'.tries = 0 /\ read'.moved = 0 /\ read'.steady = TRUE
      /\ read' = [what |-> what, at |-> "sizing", peer |-> p, count |-> 0, i |-> i,
                  name |-> Order[1], flags |-> NoRow, first |-> <<>>, tries |-> 0,
                  was |-> {}, steady |-> TRUE, moved |-> 0]
  BY <1>1 DEF NoRead
<1>3. ReadType'
  BY <1>2 DEF ReadType
<1>4. WalkInv' /\ TextInv'
  BY <1>2 DEF WalkInv, WalkAnswersTruly, TextInv
<1> QED BY <1>3, <1>4 DEF ReadInv

\* The first pass sizes the text of this moment.
LEMMA SizeTextKeeps ==
  ASSUME ReadInv, SizeText
  PROVE  ReadInv'
<1>1. PICK q : q = read
  OBVIOUS
<1>2. q = [what |-> q.what, at |-> q.at, peer |-> q.peer, count |-> q.count,
           i |-> q.i, name |-> q.name, flags |-> q.flags, first |-> q.first,
           tries |-> q.tries, was |-> q.was, steady |-> q.steady, moved |-> q.moved]
  BY <1>1 DEF ReadInv, ReadType
<1>3. /\ q.peer \in Peers /\ q.count \in Nat /\ q.tries \in Nat /\ q.moved \in Nat
      /\ q.i \in Nat \ {0} /\ q.steady \in BOOLEAN /\ q.at = "sizing" /\ q.tries <= q.moved
  BY <1>1 DEF ReadInv, ReadType, TextInv, SizeText
<1>4. PICK where \in {"filling", "empty", "refused"} :
        read' = [q EXCEPT !.first = ValueOf(q), !.at = where]
  BY <1>1 DEF SizeText, Goes
<1>5. /\ read'.at = where /\ read'.peer = q.peer /\ read'.i = q.i /\ read'.what = q.what
      /\ read'.first = ValueOf(q) /\ read'.tries = q.tries /\ read'.moved = q.moved
      /\ read' = [what |-> q.what, at |-> where, peer |-> q.peer, count |-> q.count,
                  i |-> q.i, name |-> q.name, flags |-> q.flags, first |-> ValueOf(q),
                  tries |-> q.tries, was |-> q.was, steady |-> q.steady, moved |-> q.moved]
  BY <1>2, <1>4
<1>6. ReadType'
  BY <1>3, <1>5 DEF ReadType
<1>7. ValueOf(read)' = ValueOf(q)
  <2>1. PICK s : s = read'
    OBVIOUS
  <2>2. ValueOf(s)' = ValueOf(q)'
    BY <1>5, <2>1, SameValue
  <2>3. ValueOf(q)' = ValueOf(q)
    <3>1. UNCHANGED hubVars
      BY DEF SizeText, Goes
    <3> QED BY <3>1, ReaderFrame
  <2> QED BY <2>1, <2>2, <2>3
<1>8. WalkInv' /\ TextInv'
  BY <1>3, <1>5, <1>7 DEF WalkInv, WalkAnswersTruly, TextInv
<1> QED BY <1>6, <1>8 DEF ReadInv

\* The second fills the buffer, or finds that the text has changed.
LEMMA FillTextKeeps ==
  ASSUME ReadInv, FillText
  PROVE  ReadInv'
<1>1. PICK q : q = read
  OBVIOUS
<1>2. q = [what |-> q.what, at |-> q.at, peer |-> q.peer, count |-> q.count,
           i |-> q.i, name |-> q.name, flags |-> q.flags, first |-> q.first,
           tries |-> q.tries, was |-> q.was, steady |-> q.steady, moved |-> q.moved]
  BY <1>1 DEF ReadInv, ReadType
<1>3. /\ q.peer \in Peers /\ q.count \in Nat /\ q.tries \in Nat /\ q.moved \in Nat
      /\ q.i \in Nat \ {0} /\ q.steady \in BOOLEAN /\ q.at = "filling"
      /\ q.tries <= q.moved /\ (ValueOf(q) # q.first => q.tries < q.moved)
  BY <1>1 DEF ReadInv, ReadType, TextInv, FillText
<1>4. CASE \E where \in {"refused", "read"} : read' = [q EXCEPT !.at = where]
  <2>1. PICK where \in {"refused", "read"} : read' = [q EXCEPT !.at = where]
    BY <1>4
  <2>2. /\ read'.at = where
        /\ read' = [what |-> q.what, at |-> where, peer |-> q.peer, count |-> q.count,
                    i |-> q.i, name |-> q.name, flags |-> q.flags, first |-> q.first,
                    tries |-> q.tries, was |-> q.was, steady |-> q.steady, moved |-> q.moved]
    BY <1>2, <2>1
  <2>3. ReadType' /\ WalkInv' /\ TextInv'
    BY <1>3, <2>2 DEF ReadType, WalkInv, WalkAnswersTruly, TextInv
  <2> QED BY <2>3 DEF ReadInv
<1>5. CASE ValueOf(q) # q.first /\ read' = TooLong(q)
  <2>1. PICK where : /\ where = IF q.tries + 1 < TriesOf(q) THEN "sizing" ELSE "moreData"
                     /\ read' = [q EXCEPT !.tries = @ + 1, !.at = where]
    BY <1>5 DEF TooLong
  <2>2. /\ read'.at = where /\ read'.what = q.what
        /\ read'.tries = q.tries + 1 /\ read'.moved = q.moved
        /\ read' = [what |-> q.what, at |-> where, peer |-> q.peer, count |-> q.count,
                    i |-> q.i, name |-> q.name, flags |-> q.flags, first |-> q.first,
                    tries |-> q.tries + 1, was |-> q.was, steady |-> q.steady,
                    moved |-> q.moved]
    BY <1>2, <2>1
  <2>3. where \in {"sizing", "moreData"}
    BY <2>1
  <2>4. TriesOf(read)' = TriesOf(q) /\ TriesOf(q) \in Nat
    BY <2>2, ReadsAssumption DEF TriesOf
  <2>5. ReadType'
    BY <1>3, <2>2, <2>3 DEF ReadType
  <2>6. WalkInv'
    BY <2>2, <2>3 DEF WalkInv, WalkAnswersTruly
  <2>7. TextInv'
    <3>1. q.tries + 1 <= q.moved
      BY <1>3, <1>5
    <3>2. where = "moreData" => TriesOf(q) <= q.tries + 1
      BY <1>3, <2>1, <2>4
    <3> QED BY <2>2, <2>3, <2>4, <3>1, <3>2 DEF TextInv
  <2> QED BY <2>5, <2>6, <2>7 DEF ReadInv
<1> QED BY <1>1, <1>4, <1>5 DEF FillText, Goes

\* No walk and no text has gone wrong in any state of the read side.
LEMMA ReadSpecInv == ReadSpec => []ReadInv
<1>1. ReadInit => ReadInv
  <2> SUFFICES ASSUME ReadInit PROVE ReadInv
    OBVIOUS
  <2>1. Order[1] \in Peers
    <3>1. Len(Order) \in Nat /\ DOMAIN Order = 1 .. Len(Order) /\ Len(Order) # 0
      BY ReadsAssumption, LenProperties, EmptySeq
    <3> QED BY <3>1 DEF Peers, Range
  <2>2. read = NoRead
    BY DEF ReadInit
  <2>3. ReadType
    BY <2>1, <2>2 DEF ReadType, NoRead
  <2>4. WalkInv /\ TextInv
    BY <2>2 DEF WalkInv, WalkAnswersTruly, TextInv, NoRead
  <2> QED BY <2>3, <2>4 DEF ReadInv
<1>2. ReadInv /\ [ReadNext]_readVars => ReadInv'
  <2> SUFFICES ASSUME ReadInv, [ReadNext]_readVars PROVE ReadInv'
    OBVIOUS
  <2>1. CASE Meanwhile
    BY <2>1, MeanwhileKeeps
  <2>2. CASE Reader
    <3>1. Order[1] \in Peers /\ (1 .. Len(Order)) \subseteq Nat \ {0}
      <4>1. Len(Order) \in Nat /\ DOMAIN Order = 1 .. Len(Order) /\ Len(Order) # 0
        BY ReadsAssumption, LenProperties, EmptySeq
      <4> QED BY <4>1 DEF Peers, Range
    <3>2. CASE \E p \in Peers : BeginWalk(p)
      BY <3>2, BeginWalkKeeps
    <3>3. CASE \E what : \E p \in Peers, i \in Nat \ {0} : BeginText(what, p, i)
      BY <3>3, BeginTextKeeps
    <3>4. CASE SizeName \/ ReadName \/ SizeText \/ FillText
      BY <3>4, SizeNameKeeps, ReadNameKeeps, SizeTextKeeps, FillTextKeeps
    <3>5. 1 \in Nat \ {0}
      OBVIOUS
    <3>6. \/ \E p \in Peers : BeginWalk(p)
          \/ \E what : \E p \in Peers, i \in Nat \ {0} : BeginText(what, p, i)
          \/ SizeName \/ ReadName \/ SizeText \/ FillText
      BY <2>2, <3>1, <3>5, Zenon DEF Reader
    <3> QED BY <3>2, <3>3, <3>4, <3>6
  <2>3. CASE UNCHANGED readVars
    <3>1. UNCHANGED hubVars /\ read' = read
      BY <2>3 DEF readVars
    <3>2. ReadType' /\ WalkInv' /\ TextInv'
      BY <3>1, ReaderFrame
         DEF ReadInv, ReadType, WalkInv, WalkAnswersTruly, TextInv, TriesOf, NoRead, Row, hubVars,
             ValueOf, Said, Rows, Placed
    <3> QED BY <3>2 DEF ReadInv
  <2> QED BY <2>1, <2>2, <2>3 DEF ReadNext
<1> QED BY <1>1, <1>2, PTL DEF ReadSpec

\* RelationTo (ComHub.cpp) answers flags its peer had while it walked, and
\* misses a peer only if the peer was unknown then or the positions shifted.
THEOREM WalkIsTrue == ReadSpec => []WalkAnswersTruly
<1>1. ReadInv => WalkAnswersTruly
  BY DEF ReadInv, WalkInv
<1> QED BY <1>1, ReadSpecInv, PTL

\* A text read (BstrFromRead, EndpointFor) that fails for want of room saw its
\* text change at least once for every attempt it made.
THEOREM ChurnOnly == ReadSpec => []OnlyChurnEscapes
<1>1. ReadInv => OnlyChurnEscapes
  <2> SUFFICES ASSUME ReadInv, read.at = "moreData" PROVE read.moved >= TriesOf(read)
    BY DEF OnlyChurnEscapes
  <2>1. TriesOf(read) \in Nat /\ read.tries \in Nat /\ read.moved \in Nat
    BY ReadsAssumption DEF ReadInv, ReadType, TriesOf
  <2> QED BY <2>1 DEF ReadInv, TextInv
<1> QED BY <1>1, ReadSpecInv, PTL

-----------------------------------------------------------------------------
(* Endpoints *)

\* What a parser answers is an endpoint, and a refusal is always the same one.
LEMMA ParseGives ==
  ASSUME NEW t, NEW listen \in BOOLEAN
  PROVE  LET e == Parse(t, listen) IN
         /\ e = Endpoint(e.kind, e.family, e.host, e.num, e.name)
         /\ e.kind = "refused" => e = Refused
         /\ e.kind = "serial" => t.scheme = "serial"
<1>1. CASE t.scheme \in TcpSchemes
  BY <1>1 DEF Parse, ParseTcp, Refused, Endpoint, TcpSchemes
<1>2. CASE t.scheme \notin TcpSchemes
  <2>1. CASE t.scheme \in {"pipe", "dmx"} /\ t.name # NoName
    BY <1>2, <2>1 DEF Parse, Refused, Endpoint, TcpSchemes
  <2>2. CASE t.scheme = "serial" /\ t.num \in 1 .. kComPortMax
    BY <1>2, <2>2 DEF Parse, Refused, Endpoint, TcpSchemes
  <2>3. CASE /\ ~(t.scheme \in {"pipe", "dmx"} /\ t.name # NoName)
             /\ ~(t.scheme = "serial" /\ t.num \in 1 .. kComPortMax)
    BY <1>2, <2>3 DEF Parse, Refused, Endpoint
  <2> QED BY <2>1, <2>2, <2>3
<1> QED BY <1>1, <1>2

\* A text as Format spells an endpoint is serial only for a serial endpoint.
LEMMA FormatScheme ==
  ASSUME NEW e, e.kind # "serial"
  PROVE  Format(e).scheme # "serial"
<1>1. CASE e.kind = "tcp"
  BY <1>1 DEF Format, Text, SchemeOf
<1>2. CASE e.kind # "tcp"
  BY <1>2 DEF Format, Text
<1> QED BY <1>1, <1>2

\* The listening end of an endpoint meets it, unless it is serial.
LEMMA OwnListenerMeets ==
  ASSUME NEW e, e = Endpoint(e.kind, e.family, e.host, e.num, e.name), e.kind # "serial"
  PROVE  Meets(ListenOf(e), e)
<1>1. ListenOf(e) = Endpoint(e.kind, e.family, NoHost, e.num, e.name)
  BY DEF ListenOf, Endpoint
<1>2. PICK x : x \in Sockets(e.family)
  BY DEF Sockets
<1> QED BY <1>1, <1>2 DEF Meets, Endpoint

\* The listening end has the endpoint's parts, and no host.
LEMMA ListenSpelled ==
  ASSUME NEW k, NEW f, NEW h, NEW n, NEW x
  PROVE  ListenOf(Endpoint(k, f, h, n, x)) = Endpoint(k, f, NoHost, n, x)
BY DEF ListenOf, Endpoint

\* What an end that listens was armed with.
IsListener(e) ==
  \/ e = Refused
  \/ \E family \in Families, n \in 1 .. kPortMax :
       e = Endpoint("tcp", family, NoHost, n, NoName)
  \/ \E kind \in {"pipe", "dmx"} : \E x : x # NoName /\ e = Endpoint(kind, "v4", NoHost, 0, x)
  \/ \E n \in 1 .. kComPortMax : e = Endpoint("serial", "v4", NoHost, n, NoName)

\* A listen parses to a listener, and so does the listening end of a dial.
LEMMA ListenersParse ==
  ASSUME NEW t
  PROVE  IsListener(Parse(t, TRUE)) /\ IsListener(ListenOf(Parse(t, FALSE)))
<1>1. ListenOf(Refused) = Refused
  BY DEF ListenOf, Refused, Endpoint
<1>2. IsListener(Parse(t, TRUE))
  <2>1. PICK e : e = Parse(t, TRUE)
    OBVIOUS
  <2>2. CASE t.scheme \in TcpSchemes
    <3>0. Parse(t, TRUE) = ParseTcp(t, TRUE)
      BY <2>2 DEF Parse, TcpSchemes
    <3>1. \/ e = Refused
          \/ /\ t.num \in 1 .. kPortMax
             /\ \E family \in Families : e = Endpoint("tcp", family, NoHost, t.num, NoName)
      <4>1. e = ParseTcp(t, TRUE)
        BY ONLY <2>1, <3>0, Zenon
      <4> QED BY <4>1 DEF ParseTcp, PortReads, FamilyOf, Families
    <3>2. IsListener(e)
      BY <3>1 DEF IsListener
    <3> QED BY <2>1, <3>2
  <2>3. CASE t.scheme \notin TcpSchemes
    <3>1. \/ e = Refused
          \/ t.scheme \in {"pipe", "dmx"} /\ t.name # NoName
             /\ e = Endpoint(t.scheme, "v4", NoHost, 0, t.name)
          \/ t.num \in 1 .. kComPortMax /\ e = Endpoint("serial", "v4", NoHost, t.num, NoName)
      BY <2>1, <2>3 DEF Parse
    <3>2. IsListener(e)
      BY <3>1 DEF IsListener
    <3> QED BY <2>1, <3>2
  <2> QED BY <2>2, <2>3
<1>3. IsListener(ListenOf(Parse(t, FALSE)))
  <2>1. PICK e : e = Parse(t, FALSE)
    OBVIOUS
  <2>2. CASE t.scheme \in TcpSchemes
    <3>0. Parse(t, FALSE) = ParseTcp(t, FALSE)
      BY <2>2 DEF Parse, TcpSchemes
    <3>1. \/ e = Refused
          \/ /\ t.num \in 1 .. kPortMax
             /\ \E family \in Families : e = Endpoint("tcp", family, t.host, t.num, NoName)
      <4>1. e = ParseTcp(t, FALSE)
        BY ONLY <2>1, <3>0, Zenon
      <4> QED BY <4>1 DEF ParseTcp, PortReads, FamilyOf, Families
    <3>2. IsListener(ListenOf(e))
      BY <1>1, <3>1, ListenSpelled DEF IsListener
    <3> QED BY <2>1, <3>2
  <2>3. CASE t.scheme \notin TcpSchemes
    <3>1. \/ e = Refused
          \/ t.scheme \in {"pipe", "dmx"} /\ t.name # NoName
             /\ e = Endpoint(t.scheme, "v4", NoHost, 0, t.name)
          \/ t.num \in 1 .. kComPortMax /\ e = Endpoint("serial", "v4", NoHost, t.num, NoName)
      BY <2>1, <2>3 DEF Parse
    <3>2. IsListener(ListenOf(e))
      BY <1>1, <3>1, ListenSpelled DEF IsListener
    <3> QED BY <2>1, <3>2
  <2> QED BY <2>2, <2>3
<1> QED BY <1>2, <1>3

\* A derived endpoint is a listener as it stands, and its own listening end.
LEMMA DerivedListens ==
  ASSUME NEW l \in Addrs, NEW d \in Addrs
  PROVE  /\ IsListener(Derived(l, d)) /\ ListenOf(Derived(l, d)) = Derived(l, d)
         /\ Derived(l, d) = Endpoint("dmx", "v4", NoHost, 0, Service[l][d])
<1>1. Service[l][d] # NoName
  BY BoundsAssumption
<1>2. Derived(l, d) = Endpoint("dmx", "v4", NoHost, 0, Service[l][d])
  BY DEF Derived
<1> QED BY <1>1, <1>2, ListenSpelled DEF IsListener

\* The dial ResolveDial makes of the spelling of a listener.
DialTo(l) == LET e == Parse(Format(l), TRUE) IN
             IF e.kind = "tcp" THEN [e EXCEPT !.host = Loopback(e.family)] ELSE e

\* A dial made from the spelling of a listener meets it, unless it is serial.
LEMMA ResolvedMeets ==
  ASSUME NEW l, IsListener(l), l # Refused, DialTo(l).kind # "serial"
  PROVE  Meets(l, DialTo(l))
<1>0. PICK t : t = Format(l)
  OBVIOUS
<1>1. CASE \E family \in Families, n \in 1 .. kPortMax :
             l = Endpoint("tcp", family, NoHost, n, NoName)
  <2>1. PICK family \in Families, n \in 1 .. kPortMax :
          l = Endpoint("tcp", family, NoHost, n, NoName)
    BY <1>1
  <2>2. l.kind = "tcp" /\ l.family = family /\ l.host = NoHost /\ l.num = n
    BY <2>1 DEF Endpoint
  <2>3. t.scheme = SchemeOf(family) /\ ~t.bracketed /\ t.host = NoHost /\ t.num = n
    BY <1>0, <2>2 DEF Format, Text, NoHost, V6Hosts
  <2>4. SchemeOf(family) \in {"tcp", "tcp6", "tcp46"}
    BY DEF SchemeOf
  <2>5. HostReads(t, TRUE) /\ PortReads(t) /\ ListenHostReads(t)
    BY <2>3 DEF HostReads, PortReads, ListenHostReads, V6Hosts, AnyHosts, NoHost
  <2>6. FamilyOf(t, TRUE) = family
    BY <2>1, <2>3 DEF FamilyOf, SchemeOf, Families
  <2>7. Parse(t, TRUE) = Endpoint("tcp", family, NoHost, n, NoName)
    BY <2>3, <2>4, <2>5, <2>6 DEF Parse, ParseTcp, TcpSchemes
  <2>8. PICK e : e = Parse(t, TRUE)
    OBVIOUS
  <2>9. e = [kind |-> "tcp", family |-> family, host |-> NoHost, num |-> n, name |-> NoName]
    BY <2>7, <2>8 DEF Endpoint
  <2>10. DialTo(l) = IF e.kind = "tcp" THEN [e EXCEPT !.host = Loopback(e.family)] ELSE e
    BY <1>0, <2>8, Zenon DEF DialTo
  <2>11. DialTo(l).kind = "tcp" /\ DialTo(l).family = family /\ DialTo(l).num = n
    BY <2>9, <2>10
  <2>12. PICK x : x \in Sockets(family)
    BY DEF Sockets
  <2> QED BY <2>2, <2>11, <2>12 DEF Meets
<1>2. CASE \E kind \in {"pipe", "dmx"} : \E x : x # NoName /\ l = Endpoint(kind, "v4", NoHost, 0, x)
  <2>0. PICK kind \in {"pipe", "dmx"} : \E x : x # NoName /\ l = Endpoint(kind, "v4", NoHost, 0, x)
    BY <1>2
  <2>1. PICK x : x # NoName /\ l = Endpoint(kind, "v4", NoHost, 0, x)
    BY <2>0
  <2>2. l.kind = kind /\ l.num = 0 /\ l.name = x
    BY <2>1 DEF Endpoint
  <2>3. t.scheme = kind /\ t.name = x
    BY <1>0, <2>1, <2>2 DEF Format, Text
  <2>4. Parse(t, TRUE) = l
    BY <2>1, <2>3 DEF Parse, TcpSchemes
  <2>5. DialTo(l) = l
    BY <1>0, <2>1, <2>2, <2>4 DEF DialTo
  <2> QED BY <2>1, <2>2, <2>5 DEF Meets
<1>3. CASE \E n \in 1 .. kComPortMax : l = Endpoint("serial", "v4", NoHost, n, NoName)
  <2>1. PICK n \in 1 .. kComPortMax : l = Endpoint("serial", "v4", NoHost, n, NoName)
    BY <1>3
  <2>2. l.kind = "serial" /\ l.num = n
    BY <2>1 DEF Endpoint
  <2>3. t.scheme = "serial" /\ t.num = n
    BY <1>0, <2>2 DEF Format, Text
  <2>4. Parse(t, TRUE) = l
    BY <2>1, <2>3 DEF Parse, TcpSchemes
  <2> QED BY <1>0, <2>2, <2>4 DEF DialTo
<1> QED BY <1>1, <1>2, <1>3 DEF IsListener

-----------------------------------------------------------------------------
(* The lines of a file *)

\* Lines picked from a file, listed in its order.
LEMMA LinesList ==
  ASSUME NEW f \in Files, NEW S, S \subseteq DOMAIN f
  PROVE  /\ Len(InOrder(S)) \in Nat
         /\ DOMAIN InOrder(S) = 1 .. Len(InOrder(S))
         /\ \A k \in DOMAIN InOrder(S) : InOrder(S)[k] \in S
         /\ \A x \in S : \E k \in DOMAIN InOrder(S) : InOrder(S)[k] = x
         /\ \A k, m \in DOMAIN InOrder(S) : k < m => InOrder(S)[k] < InOrder(S)[m]
<1>1. DOMAIN f = 1 .. Len(f) /\ Len(f) \in Nat
  BY BoundsAssumption
<1>2. IsFiniteSet(1 .. Len(f)) /\ S \in SUBSET (1 .. Len(f))
  BY <1>1, FS_Interval
<1>3. IsFiniteSet(S) /\ S \subseteq Int
  <2>1. IsFiniteSet(S)
    BY <1>2, FS_Subset
  <2> QED BY <1>2, <2>1
<1> QED BY <1>3, InOrderLists

\* FirstOf answers zero for no line, and the least of some.
LEMMA FirstIsLeast ==
  ASSUME NEW S, S \subseteq Nat \ {0}
  PROVE  /\ FirstOf(S) = 0 <=> S = {}
         /\ S # {} => FirstOf(S) \in S /\ \A j \in S : FirstOf(S) <= j
<1>1. ASSUME S # {} PROVE \E i \in S : \A j \in S : i <= j
  BY <1>1, HasLeast
<1>2. ASSUME S # {} PROVE FirstOf(S) \in S /\ \A j \in S : FirstOf(S) <= j
  BY <1>1, <1>2 DEF FirstOf
<1>3. S = {} => FirstOf(S) = 0
  BY DEF FirstOf
<1> QED BY <1>2, <1>3

\* A block without bad lines says nothing serial of any address.
LEMMA GoodBlock ==
  ASSUME NEW block, BadMapLines(block) = {}
  PROVE  /\ EntriesOf(block) = [a \in Addrs |-> EntriesOf(block)[a]]
         /\ \A a \in Addrs : EntriesOf(block)[a].scheme # "serial"
<1>1. EntriesOf(block) = [a \in Addrs |-> EntriesOf(block)[a]]
  BY DEF EntriesOf
<1>2. ASSUME NEW a \in Addrs PROVE EntriesOf(block)[a].scheme # "serial"
  <2> DEFINE here == {i \in DOMAIN block : IsEntry(block[i]) /\ block[i].addr = a}
             i == CHOOSE i \in here : TRUE
  <2>1. CASE here = {}
    BY <2>1 DEF EntriesOf, NoText, Text
  <2>2. CASE here # {}
    <3>1. i \in here
      BY <2>2
    <3>2. ~MapLineBad(block, i) /\ IsEntry(block[i])
      BY <3>1 DEF BadMapLines
    <3>3. Parse(block[i].text, FALSE).kind # "serial"
      BY <3>2 DEF MapLineBad
    <3>4. EntriesOf(block)[a] = Format(Parse(block[i].text, FALSE))
      BY <2>2 DEF EntriesOf
    <3> QED BY <3>3, <3>4, FormatScheme
  <2> QED BY <2>1, <2>2
<1> QED BY <1>1, <1>2

-----------------------------------------------------------------------------
(* A connection's two ends *)

\* The records of the topology, and the client's place.
NetTypes ==
  /\ topo = [pc |-> topo.pc, next |-> topo.next, text |-> topo.text, mine |-> topo.mine,
             badLine |-> topo.badLine]
  /\ verb = [at |-> verb.at, hub |-> verb.hub, peer |-> verb.peer, end |-> verb.end]
  /\ verb.at # "idle" => {verb.hub, verb.peer} \subseteq Addrs
  /\ file \in Files /\ version \in Nat
  /\ owner = [a \in Addrs |-> owner[a]]
  /\ armed = [h \in Addrs |-> [p \in Addrs |-> armed[h][p]]]
  /\ map = [a \in Addrs |-> map[a]]

\* The end e stands on h for p, or is on its way there.
EndHeld(h, p, e) ==
  \/ e = armed[h][p]
  \/ verb.at = "arming" /\ verb.hub = h /\ verb.peer = p /\ e = verb.end

\* What the map of this moment gives an end that leaves the choice to it.
FromMap(h, p, listen) ==
  IF listen THEN ListenOf(Parse(map[h], FALSE)) ELSE Parse(map[p], FALSE)

\* An end agrees with where it came from: the map of its version, if that is
\* still the map, or the listener it was resolved from.
EndAgrees(h, p, e) ==
  /\ e.listen \in BOOLEAN
  /\ e.listen => IsListener(e.ep)
  /\ e.way = "map" =>
       /\ e.tag \in Nat /\ e.tag <= version
       /\ e.tag = version => e.ep = FromMap(h, p, e.listen)
  /\ e.way = "resolved" /\ e.ep.kind # "serial" => Meets(e.via, e.ep)

\* What the map says is never serial, and only Link arms ends of its own way.
MapInv == \A a \in Addrs : map[a].scheme # "serial"
VerbInv == verb.at = "arming" => verb.end.way # "link"

EndsInv == \A h, p \in Addrs : \A e : EndHeld(h, p, e) => EndAgrees(h, p, e)

\* Two ends of one edge, or of one version of the map, meet as soon as both are
\* on their way.
PairMeets(l, d) ==
  l.way \in {"link", "map"} /\ l.way = d.way /\ l.tag = d.tag /\ l.listen /\ ~d.listen
  => Meets(l.ep, d.ep)

PairInv ==
  \A a, b \in Addrs : \A l, d : EndHeld(a, b, l) /\ EndHeld(b, a, d) => PairMeets(l, d)

NetInv == NetTypes /\ MapInv /\ VerbInv /\ EndsInv /\ PairInv

\* No end is new, or one is, that agrees.
Shrinks == \A h, p \in Addrs : \A e : EndHeld(h, p, e)' => EndHeld(h, p, e) \/ e = NoEnd
Adds(h, p, new) ==
  \A x, y \in Addrs : \A e :
    EndHeld(x, y, e)' => EndHeld(x, y, e) \/ e = NoEnd \/ (x = h /\ y = p /\ e = new)

\* An end that is not armed has nothing to agree with.
LEMMA NoEndAgrees ==
  /\ NoEnd.listen = FALSE /\ NoEnd.way = "none"
  /\ \A h, p : EndAgrees(h, p, NoEnd) /\ EndAgrees(h, p, NoEnd)'
<1>1. NoEnd.listen = FALSE /\ NoEnd.way = "none"
  BY DEF NoEnd, End
<1> QED BY <1>1 DEF EndAgrees

\* What the map does not change, an end still agrees with.
LEMMA AgreesStill ==
  ASSUME UNCHANGED <<map, version>>, NEW h, NEW p, NEW e, EndAgrees(h, p, e)
  PROVE  EndAgrees(h, p, e)'
BY DEF EndAgrees, FromMap

\* Ends that go leave the others in agreement.
LEMMA EndsKept ==
  ASSUME EndsInv, PairInv, UNCHANGED <<map, version>>, Shrinks
  PROVE  EndsInv' /\ PairInv'
<1>1. EndsInv'
  <2> SUFFICES ASSUME NEW h \in Addrs, NEW p \in Addrs, NEW e, EndHeld(h, p, e)'
               PROVE  EndAgrees(h, p, e)'
    BY DEF EndsInv
  <2>1. CASE e = NoEnd
    BY <2>1, NoEndAgrees
  <2>2. CASE EndHeld(h, p, e)
    <3>1. EndAgrees(h, p, e)
      BY <2>2 DEF EndsInv
    <3> QED BY <3>1, AgreesStill
  <2> QED BY <2>1, <2>2 DEF Shrinks
<1>2. PairInv'
  <2> SUFFICES ASSUME NEW a \in Addrs, NEW b \in Addrs, NEW l, NEW d,
                      EndHeld(a, b, l)', EndHeld(b, a, d)'
               PROVE  PairMeets(l, d)
    BY DEF PairInv, PairMeets
  <2>1. CASE l = NoEnd \/ d = NoEnd
    BY <2>1, NoEndAgrees DEF PairMeets
  <2>2. CASE EndHeld(a, b, l) /\ EndHeld(b, a, d)
    BY <2>2 DEF PairInv
  <2> QED BY <2>1, <2>2 DEF Shrinks
<1> QED BY <1>1, <1>2

\* One more end, that agrees with the map of this moment, meets every end that does.
LEMMA EndAdded ==
  ASSUME EndsInv, PairInv, MapInv, UNCHANGED <<map, version>>,
         NEW h \in Addrs, NEW p \in Addrs, NEW e, Adds(h, p, e),
         EndAgrees(h, p, e), e.way # "link", e.way = "map" => e.tag = version
  PROVE  EndsInv' /\ PairInv'
<1>1. EndsInv'
  <2> SUFFICES ASSUME NEW x \in Addrs, NEW y \in Addrs, NEW g, EndHeld(x, y, g)'
               PROVE  EndAgrees(x, y, g)'
    BY DEF EndsInv
  <2>1. CASE g = NoEnd
    BY <2>1, NoEndAgrees
  <2>2. CASE EndHeld(x, y, g)
    <3>1. EndAgrees(x, y, g)
      BY <2>2 DEF EndsInv
    <3> QED BY <3>1, AgreesStill
  <2>3. CASE x = h /\ y = p /\ g = e
    BY <2>3, AgreesStill
  <2> QED BY <2>1, <2>2, <2>3 DEF Adds
<1>2. PairInv'
  <2> SUFFICES ASSUME NEW a \in Addrs, NEW b \in Addrs, NEW l, NEW d,
                      EndHeld(a, b, l)', EndHeld(b, a, d)'
               PROVE  PairMeets(l, d)
    BY DEF PairInv, PairMeets
  <2>1. CASE l = NoEnd \/ d = NoEnd
    BY <2>1, NoEndAgrees DEF PairMeets
  <2>2. CASE EndHeld(a, b, l) /\ EndHeld(b, a, d)
    BY <2>2 DEF PairInv
  <2>3. CASE /\ EndAgrees(a, b, l) /\ EndAgrees(b, a, d)
             /\ \/ l.way # "link" /\ (l.way = "map" => l.tag = version)
                \/ d.way # "link" /\ (d.way = "map" => d.tag = version)
    <3> SUFFICES ASSUME l.way = "map", d.way = "map", l.tag = version, d.tag = version,
                        l.listen, ~d.listen
                 PROVE  Meets(l.ep, d.ep)
      BY <2>3 DEF PairMeets
    <3>1. l.ep = ListenOf(Parse(map[a], FALSE)) /\ d.ep = Parse(map[a], FALSE)
      BY <2>3 DEF EndAgrees, FromMap
    <3>2. d.ep = Endpoint(d.ep.kind, d.ep.family, d.ep.host, d.ep.num, d.ep.name)
          /\ d.ep.kind # "serial"
      BY <3>1, ParseGives DEF MapInv
    <3> QED BY <3>1, <3>2, OwnListenerMeets
  <2>4. CASE a = h /\ b = p /\ l = e
    <3>1. CASE EndHeld(b, a, d)
      <4>1. EndAgrees(b, a, d)
        BY <3>1 DEF EndsInv
      <4> QED BY <2>3, <2>4, <4>1
    <3>2. CASE d = e
      BY <2>4, <3>2 DEF PairMeets
    <3> QED BY <2>1, <3>1, <3>2 DEF Adds
  <2>5. CASE b = h /\ a = p /\ d = e
    <3>1. CASE EndHeld(a, b, l)
      <4>1. EndAgrees(a, b, l)
        BY <3>1 DEF EndsInv
      <4> QED BY <2>3, <2>5, <4>1
    <3>2. CASE l = e
      BY <2>5, <3>2 DEF PairMeets
    <3> QED BY <2>1, <3>1, <3>2 DEF Adds
  <2> QED BY <2>1, <2>2, <2>4, <2>5 DEF Adds
<1> QED BY <1>1, <1>2

\* A hub that goes takes its ends with it.
LEMMA HubGone ==
  ASSUME NetInv, NEW a, Gone(a), UNCHANGED <<map, version, verb>>
  PROVE  /\ owner' = [x \in Addrs |-> owner'[x]]
         /\ armed' = [h \in Addrs |-> [p \in Addrs |-> armed'[h][p]]]
         /\ EndsInv' /\ PairInv'
<1>1. owner = [x \in Addrs |-> owner[x]] /\ armed = [h \in Addrs |-> [p \in Addrs |-> armed[h][p]]]
  BY DEF NetInv, NetTypes
<1>2. owner' = [x \in Addrs |-> owner'[x]]
  BY <1>1 DEF Gone
<1>3. /\ armed' = [h \in Addrs |-> [p \in Addrs |-> armed'[h][p]]]
      /\ \A h, p \in Addrs : armed'[h][p] \in {armed[h][p], NoEnd}
  <2>1. \A h \in Addrs : armed'[h] = IF h = a THEN [p \in Addrs |-> NoEnd] ELSE armed[h]
    BY <1>1 DEF Gone
  <2>2. armed' = [h \in Addrs |-> armed'[h]]
    BY <1>1 DEF Gone
  <2>3. \A h \in Addrs : armed[h] = [p \in Addrs |-> armed[h][p]]
    BY <1>1
  <2> HIDE <1>1
  <2>4. \A h \in Addrs : armed'[h] = [p \in Addrs |-> armed'[h][p]]
    BY <2>1, <2>3
  <2> QED BY <2>1, <2>2, <2>4
<1>4. Shrinks
  BY <1>3 DEF Shrinks, EndHeld
<1>5. EndsInv' /\ PairInv'
  BY <1>4, EndsKept DEF NetInv
<1> QED BY <1>2, <1>3, <1>5

\* A change of the map starts a new version of it, with which no end agrees yet.
LEMMA MapChanges ==
  ASSUME NetInv, version' = version + 1, UNCHANGED <<armed, verb>>
  PROVE  EndsInv' /\ PairInv'
<1>1. \A h, p, e : EndHeld(h, p, e)' <=> EndHeld(h, p, e)
  BY DEF EndHeld
<1>2. EndsInv'
  <2> SUFFICES ASSUME NEW h \in Addrs, NEW p \in Addrs, NEW e, EndHeld(h, p, e)'
               PROVE  EndAgrees(h, p, e)'
    BY DEF EndsInv
  <2>1. EndAgrees(h, p, e) /\ version \in Nat
    BY <1>1 DEF NetInv, NetTypes, EndsInv
  <2>2. e.way = "map" => e.tag \in Nat /\ e.tag <= version' /\ e.tag # version'
    BY <2>1 DEF EndAgrees
  <2> QED BY <2>1, <2>2 DEF EndAgrees
<1>3. PairInv'
  BY <1>1 DEF NetInv, PairInv, PairMeets
<1> QED BY <1>2, <1>3

\* Link arms both ends of its edge, and they meet.
LEMMA EdgeArmed ==
  ASSUME NetInv, NEW l, NEW d, NEW text, MayLink(l, d, text), ArmEdge(l, d, text),
         UNCHANGED <<map, version, verb>>
  PROVE  EndsInv' /\ PairInv' /\ armed' = [h \in Addrs |-> [p \in Addrs |-> armed'[h][p]]]
<1>1. PICK dial : dial = DialOf(l, d, text)
  OBVIOUS
<1>2. PICK tag : tag = links'
  OBVIOUS
<1>3. l \in Addrs /\ d \in Addrs /\ l # d
  BY DEF MayLink, Live
<1>4. dial.kind # "serial" /\ IsListener(ListenOf(dial))
      /\ dial = Endpoint(dial.kind, dial.family, dial.host, dial.num, dial.name)
  <2>1. CASE text = NoText
    <3>1. dial = Derived(l, d)
      BY <1>1, <2>1 DEF DialOf
    <3>2. dial = Endpoint("dmx", "v4", NoHost, 0, Service[l][d])
          /\ IsListener(ListenOf(dial))
      BY <1>3, <3>1, DerivedListens
    <3> QED BY <3>2 DEF Endpoint
  <2>2. CASE text # NoText
    <3>1. dial = Parse(text, FALSE)
      BY <1>1, <2>2 DEF DialOf
    <3> QED BY <1>1, <3>1, ParseGives, ListenersParse DEF MayLink
  <2> QED BY <2>1, <2>2
<1>5. PICK lend : lend = End(TRUE, ListenOf(dial), "link", tag, Refused)
  OBVIOUS
<1>6. PICK dend : dend = End(FALSE, dial, "link", tag, Refused)
  OBVIOUS
<1>7. /\ lend.listen = TRUE /\ lend.ep = ListenOf(dial) /\ lend.way = "link" /\ lend.tag = tag
      /\ dend.listen = FALSE /\ dend.ep = dial /\ dend.way = "link" /\ dend.tag = tag
  BY <1>5, <1>6 DEF End
<1>8. armed' = [armed EXCEPT ![l][d] = lend, ![d][l] = dend]
  BY <1>1, <1>2, <1>5, <1>6 DEF ArmEdge
<1>9. armed = [h \in Addrs |-> [p \in Addrs |-> armed[h][p]]]
  BY DEF NetInv, NetTypes
<1>10. /\ armed'[l][d] = lend /\ armed'[d][l] = dend
       /\ \A x, y \in Addrs : <<x, y>> \notin {<<l, d>>, <<d, l>>} => armed'[x][y] = armed[x][y]
       /\ armed' = [h \in Addrs |-> [p \in Addrs |-> armed'[h][p]]]
  BY <1>3, <1>8, <1>9
<1>11. ASSUME NEW x \in Addrs, NEW y \in Addrs, NEW g, EndHeld(x, y, g)'
       PROVE  \/ EndHeld(x, y, g) /\ (<<x, y>> \in {<<l, d>>, <<d, l>>} => g.way # "link")
              \/ x = l /\ y = d /\ g = lend
              \/ x = d /\ y = l /\ g = dend
  <2>1. CASE g = armed'[x][y]
    <3>1. CASE <<x, y>> \notin {<<l, d>>, <<d, l>>}
      BY <1>10, <2>1, <3>1 DEF EndHeld
    <3>2. CASE <<x, y>> \in {<<l, d>>, <<d, l>>}
      BY <1>10, <2>1, <3>2
    <3> QED BY <3>1, <3>2
  <2>2. CASE verb.at = "arming" /\ verb.hub = x /\ verb.peer = y /\ g = verb.end
    BY <2>2 DEF EndHeld, NetInv, VerbInv
  <2> QED BY <1>11, <2>1, <2>2 DEF EndHeld
<1>12. EndsInv'
  <2> SUFFICES ASSUME NEW x \in Addrs, NEW y \in Addrs, NEW g, EndHeld(x, y, g)'
               PROVE  EndAgrees(x, y, g)'
    BY DEF EndsInv
  <2>1. CASE EndHeld(x, y, g)
    <3>1. EndAgrees(x, y, g)
      BY <2>1 DEF NetInv, EndsInv
    <3> QED BY <3>1, AgreesStill
  <2>2. CASE g = lend \/ g = dend
    BY <1>4, <1>7, <2>2 DEF EndAgrees
  <2> QED BY <1>11, <2>1, <2>2
<1>13. PairInv'
  <2> SUFFICES ASSUME NEW a \in Addrs, NEW b \in Addrs, NEW x, NEW y,
                      EndHeld(a, b, x)', EndHeld(b, a, y)'
               PROVE  PairMeets(x, y)
    BY DEF PairInv, PairMeets
  <2>1. CASE EndHeld(a, b, x) /\ EndHeld(b, a, y)
    BY <2>1 DEF NetInv, PairInv
  <2>2. CASE x.way # y.way \/ ~x.listen \/ y.listen
    BY <2>2 DEF PairMeets
  <2>3. CASE x = lend /\ y = dend
    <3>1. Meets(ListenOf(dial), dial)
      BY <1>4, OwnListenerMeets
    <3> QED BY <1>7, <2>3, <3>1 DEF PairMeets
  <2>4. CASE {a, b} # {l, d}
    BY <1>11, <2>1, <2>4
  <2>5. CASE {a, b} = {l, d}
    <3>0. <<a, b>> \in {<<l, d>>, <<d, l>>} /\ <<b, a>> \in {<<l, d>>, <<d, l>>}
      BY <2>5
    <3>1. (EndHeld(a, b, x) /\ x.way # "link") \/ x = lend \/ x = dend
      BY <1>11, <3>0
    <3>2. (EndHeld(b, a, y) /\ y.way # "link") \/ y = lend \/ y = dend
      BY <1>11, <3>0
    <3> QED BY <1>7, <2>1, <2>2, <2>3, <3>1, <3>2
  <2> QED BY <2>4, <2>5
<1> QED BY <1>10, <1>12, <1>13

\* No step of the topology but LinkEdge arms anything.
LEMMA TopoKeepsEnds == NetInv /\ Topo => NetInv'
<1> SUFFICES ASSUME NetInv, Topo PROVE NetInv'
  OBVIOUS
<1> USE DEF NetInv
<1>1. topo' = [pc |-> topo'.pc, next |-> topo'.next, text |-> topo'.text, mine |-> topo'.mine,
               badLine |-> topo'.badLine]
  BY DEF NetTypes, Topo, ParseFile, CreateHub, CloseNext, PushMap, ReadEndpoint, LinkEdge
<1>2. verb' = verb /\ file' = file
  BY DEF Topo, ParseFile, CreateHub, CloseNext, PushMap, ReadEndpoint, LinkEdge
<1>3. CASE UNCHANGED <<map, version, owner, armed>>
  <2>1. NetTypes' /\ MapInv' /\ VerbInv'
    BY <1>1, <1>2, <1>3 DEF NetTypes, MapInv, VerbInv
  <2>2. Shrinks
    BY <1>2, <1>3 DEF Shrinks, EndHeld
  <2>3. EndsInv' /\ PairInv'
    BY <1>3, <2>2, EndsKept
  <2> QED BY <2>1, <2>3
<1>4. CASE CreateHub
  <2>1. UNCHANGED <<map, version, armed>> /\ owner' = [a \in Addrs |-> owner'[a]]
    <3>1. owner = [a \in Addrs |-> owner[a]]
      BY DEF NetTypes
    <3> QED BY <1>4, <3>1 DEF CreateHub
  <2>2. NetTypes' /\ MapInv' /\ VerbInv'
    BY <1>1, <1>2, <2>1 DEF NetTypes, MapInv, VerbInv
  <2>3. Shrinks
    BY <1>2, <2>1 DEF Shrinks, EndHeld
  <2>4. EndsInv' /\ PairInv'
    BY <2>1, <2>3, EndsKept
  <2> QED BY <2>2, <2>4
<1>5. CASE CloseNext
  <2>0. owner = [a \in Addrs |-> owner[a]]
        /\ armed = [h \in Addrs |-> [p \in Addrs |-> armed[h][p]]]
    BY DEF NetTypes
  <2>1. CASE UNCHANGED <<owner, armed>>
    BY <1>3, <1>5, <2>1 DEF CloseNext
  <2>2. CASE \E a : Gone(a)
    <3>1. UNCHANGED <<map, version>>
      BY <1>5 DEF CloseNext
    <3>2. /\ owner' = [x \in Addrs |-> owner'[x]]
          /\ armed' = [h \in Addrs |-> [p \in Addrs |-> armed'[h][p]]]
          /\ EndsInv' /\ PairInv'
      BY <1>2, <2>2, <3>1, HubGone
    <3>3. NetTypes' /\ MapInv' /\ VerbInv'
      BY <1>1, <1>2, <3>1, <3>2 DEF NetTypes, MapInv, VerbInv
    <3> QED BY <3>2, <3>3
  <2> QED BY <1>5, <2>1, <2>2 DEF CloseNext
<1>6. CASE PushMap
  <2>1. CASE UNCHANGED <<map, version>>
    BY <1>3, <1>6, <2>1 DEF PushMap
  <2>2. CASE /\ FirstOf(BadMapLines(MapText(file))) = 0
             /\ map' = EntriesOf(MapText(file)) /\ version' = version + 1
    <3>1. UNCHANGED <<owner, armed, verb>>
      BY <1>6 DEF PushMap
    <3>2. BadMapLines(MapText(file)) = {}
      <4>1. DOMAIN MapText(file) \subseteq Nat \ {0}
        BY LinesList DEF NetTypes, MapText, MapLines
      <4>2. BadMapLines(MapText(file)) \subseteq Nat \ {0}
        BY <4>1 DEF BadMapLines
      <4> QED BY <2>2, <4>2, FirstIsLeast
    <3>3. MapInv' /\ map' = [a \in Addrs |-> map'[a]]
      BY <2>2, <3>2, GoodBlock DEF MapInv
    <3>4. NetTypes' /\ VerbInv'
      BY <1>1, <1>2, <2>2, <3>1, <3>3 DEF NetTypes, VerbInv
    <3>5. EndsInv' /\ PairInv'
      BY <2>2, <3>1, MapChanges
    <3> QED BY <3>3, <3>4, <3>5
  <2> QED BY <1>6, <2>1, <2>2 DEF PushMap
<1>7. CASE LinkEdge
  <2>1. CASE UNCHANGED <<armed, links>>
    BY <1>3, <1>7, <2>1 DEF LinkEdge
  <2>2. CASE \E l, d, text : MayLink(l, d, text) /\ ArmEdge(l, d, text)
    <3>1. UNCHANGED <<map, version, owner, verb>>
      BY <1>7, <1>2 DEF LinkEdge
    <3>2. EndsInv' /\ PairInv' /\ armed' = [h \in Addrs |-> [p \in Addrs |-> armed'[h][p]]]
      BY <2>2, <3>1, EdgeArmed
    <3>3. NetTypes' /\ MapInv' /\ VerbInv'
      BY <1>1, <1>2, <3>1, <3>2 DEF NetTypes, MapInv, VerbInv
    <3> QED BY <3>2, <3>3
  <2> QED BY <1>7, <2>1, <2>2 DEF LinkEdge
<1> QED BY <1>3, <1>4, <1>5, <1>6, <1>7 DEF Topo, ParseFile, ReadEndpoint

\* A client sets up one end, or begins to.
LEMMA VerbBegins ==
  ASSUME NetInv, UNCHANGED <<map, version, owner, armed, file, topo>>,
         NEW h \in Addrs, NEW p \in Addrs, NEW where, NEW e, Into(h, p, where, e),
         where # "idle", EndAgrees(h, p, e), e.way # "link", e.way = "map" => e.tag = version
  PROVE  NetInv'
<1>1. verb' = [at |-> where, hub |-> h, peer |-> p, end |-> e]
  BY DEF Into
<1>2. NetTypes' /\ MapInv' /\ VerbInv'
  BY <1>1 DEF NetInv, NetTypes, MapInv, VerbInv
<1>3. Adds(h, p, e)
  BY <1>1 DEF Adds, EndHeld
<1>4. EndsInv' /\ PairInv'
  BY <1>3, EndAdded DEF NetInv
<1> QED BY <1>2, <1>4 DEF NetInv

\* An end spelled out, or left to the map.
LEMMA VerbsBegin ==
  ASSUME NetInv, NEW h \in Addrs, NEW p \in Addrs, NEW listen \in BOOLEAN,
         LookupEndpoint(h, p, listen) \/ \E text \in Texts : ArmTyped(h, p, listen, text)
  PROVE  NetInv'
<1>1. UNCHANGED <<map, version, owner, armed, file, topo>>
  BY DEF LookupEndpoint, ArmTyped
<1>2. CASE \E text \in Texts : ArmTyped(h, p, listen, text)
  <2>1. PICK text \in Texts : ArmTyped(h, p, listen, text)
    BY <1>2
  <2>2. PICK e : e = End(listen, Parse(text, listen), "typed", 0, Refused)
    OBVIOUS
  <2>3. Into(h, p, "arming", e)
    BY <2>1, <2>2 DEF ArmTyped
  <2>4. e.listen = listen /\ e.way = "typed" /\ e.ep = Parse(text, listen)
    BY <2>2 DEF End
  <2>5. listen => IsListener(Parse(text, listen))
    <3>1. CASE listen = TRUE
      BY <3>1, ListenersParse
    <3>2. CASE listen = FALSE
      BY <3>2
    <3> QED BY <3>1, <3>2
  <2>6. EndAgrees(h, p, e)
    BY <2>4, <2>5 DEF EndAgrees
  <2> QED BY <1>1, <2>3, <2>4, <2>6, VerbBegins
<1>3. CASE LookupEndpoint(h, p, listen)
  <2>1. PICK whose : whose = IF listen THEN h ELSE p
    OBVIOUS
  <2>2. PICK said : said = Parse(map[whose], FALSE)
    OBVIOUS
  <2>3. CASE map[whose] # NoText
    <3>1. PICK ep : ep = IF listen THEN ListenOf(said) ELSE said
      OBVIOUS
    <3>2. PICK e : e = End(listen, ep, "map", version, Refused)
      OBVIOUS
    <3>3. Into(h, p, "arming", e)
      BY <1>3, <2>1, <2>2, <2>3, <3>1, <3>2 DEF LookupEndpoint
    <3>4. e.listen = listen /\ e.way = "map" /\ e.ep = ep /\ e.tag = version
      BY <3>2 DEF End
    <3>5. version \in Nat
      BY DEF NetInv, NetTypes
    <3>6. e.ep = FromMap(h, p, e.listen)
      BY <2>1, <2>2, <3>1, <3>4 DEF FromMap
    <3>7. e.listen => IsListener(e.ep)
      BY <2>2, <3>1, <3>4, ListenersParse
    <3>8. EndAgrees(h, p, e)
      BY <3>4, <3>5, <3>6, <3>7 DEF EndAgrees
    <3> QED BY <1>1, <3>3, <3>4, <3>8, VerbBegins
  <2>4. CASE map[whose] = NoText /\ listen = TRUE
    <3>1. PICK e : e = End(TRUE, Derived(h, p), "derived", 0, Refused)
      OBVIOUS
    <3>2. Into(h, p, "arming", e)
      BY <1>3, <2>1, <2>2, <2>4, <3>1 DEF LookupEndpoint
    <3>3. e.listen = TRUE /\ e.way = "derived" /\ e.ep = Derived(h, p)
      BY <3>1 DEF End
    <3>4. EndAgrees(h, p, e)
      BY <3>3, DerivedListens DEF EndAgrees
    <3> QED BY <1>1, <3>2, <3>3, <3>4, VerbBegins
  <2>5. CASE map[whose] = NoText /\ listen = FALSE
    <3>1. Into(h, p, "resolving", NoEnd)
      BY <1>3, <2>1, <2>2, <2>5 DEF LookupEndpoint
    <3> QED BY <1>1, <3>1, NoEndAgrees, VerbBegins
  <2> QED BY <2>3, <2>4, <2>5
<1> QED BY <1>2, <1>3

\* A dial is resolved from the listener its peer has armed by then.
LEMMA DialResolved == NetInv /\ ResolveDial => NetInv'
<1> SUFFICES ASSUME NetInv, ResolveDial PROVE NetInv'
  OBVIOUS
<1>1. UNCHANGED <<map, version, owner, armed, file, topo>> /\ verb.at = "resolving"
  BY DEF ResolveDial
<1>2. verb.hub \in Addrs /\ verb.peer \in Addrs
      /\ verb = [at |-> verb.at, hub |-> verb.hub, peer |-> verb.peer, end |-> verb.end]
  BY <1>1 DEF NetInv, NetTypes
<1>3. CASE verb' = NoVerb
  <2>1. verb'.at = "idle"
        /\ verb' = [at |-> verb'.at, hub |-> verb'.hub, peer |-> verb'.peer, end |-> verb'.end]
    BY <1>3 DEF NoVerb
  <2>2. NetTypes' /\ MapInv' /\ VerbInv'
    BY <1>1, <2>1 DEF NetInv, NetTypes, MapInv, VerbInv
  <2>3. Shrinks
    BY <1>1, <2>1 DEF Shrinks, EndHeld
  <2>4. EndsInv' /\ PairInv'
    BY <1>1, <2>3, EndsKept DEF NetInv
  <2> QED BY <2>2, <2>4 DEF NetInv
<1>4. CASE verb' # NoVerb
  <2>1. PICK l : l = ArmedListener(verb.peer, verb.hub)
    OBVIOUS
  <2>2. PICK e : e = End(FALSE, DialTo(l), "resolved", 0, l)
    OBVIOUS
  <2>3. l # Refused /\ verb' = [verb EXCEPT !.at = "arming", !.end = e]
    BY <1>4, <2>1, <2>2 DEF ResolveDial, DialTo
  <2>4. Into(verb.hub, verb.peer, "arming", e)
    BY <1>2, <2>3 DEF Into
  <2>5. e.listen = FALSE /\ e.way = "resolved" /\ e.ep = DialTo(l) /\ e.via = l
    BY <2>2 DEF End
  <2>6. IsListener(l)
    <3>1. armed[verb.peer][verb.hub].listen /\ l = armed[verb.peer][verb.hub].ep
      BY <2>1, <2>3 DEF ArmedListener
    <3>2. EndHeld(verb.peer, verb.hub, armed[verb.peer][verb.hub])
      BY DEF EndHeld
    <3>3. EndAgrees(verb.peer, verb.hub, armed[verb.peer][verb.hub])
      BY <1>2, <3>2 DEF NetInv, EndsInv
    <3> QED BY <3>1, <3>3 DEF EndAgrees
  <2>7. EndAgrees(verb.hub, verb.peer, e)
    BY <2>3, <2>5, <2>6, ResolvedMeets DEF EndAgrees
  <2> QED BY <1>1, <1>2, <2>4, <2>5, <2>7, VerbBegins
<1> QED BY <1>3, <1>4

\* The end that was on its way is armed, or the peer has one already.
LEMMA EndArmed == NetInv /\ ArmResolved => NetInv'
<1> SUFFICES ASSUME NetInv, ArmResolved PROVE NetInv'
  OBVIOUS
<1>1. UNCHANGED <<map, version, owner, file, topo>> /\ verb.at = "arming" /\ verb' = NoVerb
  BY DEF ArmResolved
<1>2. verb.hub \in Addrs /\ verb.peer \in Addrs
      /\ armed = [h \in Addrs |-> [p \in Addrs |-> armed[h][p]]]
  BY <1>1 DEF NetInv, NetTypes
<1>3. verb'.at = "idle"
      /\ verb' = [at |-> verb'.at, hub |-> verb'.hub, peer |-> verb'.peer, end |-> verb'.end]
  BY <1>1 DEF NoVerb
<1>4. /\ armed' = [h \in Addrs |-> [p \in Addrs |-> armed'[h][p]]]
      /\ \A h, p \in Addrs : \/ armed'[h][p] = armed[h][p]
                             \/ h = verb.hub /\ p = verb.peer /\ armed'[h][p] = verb.end
  BY <1>2 DEF ArmResolved
<1>5. NetTypes' /\ MapInv' /\ VerbInv'
  BY <1>1, <1>3, <1>4 DEF NetInv, NetTypes, MapInv, VerbInv
<1>6. Shrinks
  BY <1>1, <1>3, <1>4 DEF Shrinks, EndHeld
<1>7. EndsInv' /\ PairInv'
  BY <1>1, <1>6, EndsKept DEF NetInv
<1> QED BY <1>5, <1>7 DEF NetInv

\* A client's edit of the map, or of its hubs and their connections.
LEMMA ClientKeepsEnds == NetInv /\ Client => NetInv'
<1> SUFFICES ASSUME NetInv, Client PROVE NetInv'
  OBVIOUS
<1>0. /\ owner = [x \in Addrs |-> owner[x]] /\ version \in Nat
      /\ armed = [h \in Addrs |-> [p \in Addrs |-> armed[h][p]]]
      /\ map = [x \in Addrs |-> map[x]]
  BY DEF NetInv, NetTypes
<1>1. ASSUME NEW block \in Blocks, SetEndpointMap(block) PROVE NetInv'
  <2>1. UNCHANGED <<owner, armed, file, topo, verb>> /\ version' = version + 1
        /\ map' = EntriesOf(block) /\ BadMapLines(block) = {}
    BY <1>1 DEF SetEndpointMap
  <2>2. MapInv' /\ map' = [x \in Addrs |-> map'[x]]
    BY <2>1, GoodBlock DEF MapInv
  <2>3. NetTypes' /\ VerbInv'
    BY <1>0, <2>1, <2>2 DEF NetInv, NetTypes, VerbInv
  <2>4. EndsInv' /\ PairInv'
    BY <2>1, MapChanges
  <2> QED BY <2>2, <2>3, <2>4 DEF NetInv
<1>2. ASSUME NEW a \in Addrs, NEW text \in Texts, SetEndpoint(a, text) PROVE NetInv'
  <2>1. UNCHANGED <<owner, armed, file, topo, verb>> /\ version' = version + 1
    BY <1>2 DEF SetEndpoint
  <2>2. PICK value : value = IF text = NoText THEN NoText ELSE Format(Parse(text, FALSE))
    OBVIOUS
  <2>3. value.scheme # "serial"
    <3>1. NoText.scheme # "serial"
      BY DEF NoText, Text
    <3>2. CASE text # NoText
      <4>1. Parse(text, FALSE).kind # "serial"
        BY <1>2, <3>2 DEF SetEndpoint
      <4> QED BY <2>2, <3>2, <4>1, FormatScheme
    <3> QED BY <2>2, <3>1, <3>2
  <2>4. map' = [map EXCEPT ![a] = value]
    BY <1>2, <2>2 DEF SetEndpoint
  <2>5. MapInv' /\ map' = [x \in Addrs |-> map'[x]]
    BY <1>0, <2>3, <2>4 DEF NetInv, MapInv
  <2>6. NetTypes' /\ VerbInv'
    BY <1>0, <2>1, <2>5 DEF NetInv, NetTypes, VerbInv
  <2>7. EndsInv' /\ PairInv'
    BY <2>1, MapChanges
  <2> QED BY <2>5, <2>6, <2>7 DEF NetInv
<1>3. ASSUME NEW a \in Addrs, MakeHub(a) PROVE NetInv'
  <2>1. UNCHANGED <<map, version, armed, file, topo, verb>> /\ owner' = [x \in Addrs |-> owner'[x]]
    BY <1>0, <1>3 DEF MakeHub
  <2>2. NetTypes' /\ MapInv' /\ VerbInv'
    BY <2>1 DEF NetInv, NetTypes, MapInv, VerbInv
  <2>3. Shrinks
    BY <2>1 DEF Shrinks, EndHeld
  <2>4. EndsInv' /\ PairInv'
    BY <2>1, <2>3, EndsKept DEF NetInv
  <2> QED BY <2>2, <2>4 DEF NetInv
<1>4. ASSUME NEW a \in Addrs, CloseHub(a) PROVE NetInv'
  <2>1. UNCHANGED <<map, version, file, topo, verb>> /\ Gone(a)
    BY <1>4 DEF CloseHub
  <2>2. /\ owner' = [x \in Addrs |-> owner'[x]]
        /\ armed' = [h \in Addrs |-> [p \in Addrs |-> armed'[h][p]]]
        /\ EndsInv' /\ PairInv'
    BY <2>1, HubGone
  <2>3. NetTypes' /\ MapInv' /\ VerbInv'
    BY <2>1, <2>2 DEF NetInv, NetTypes, MapInv, VerbInv
  <2> QED BY <2>2, <2>3 DEF NetInv
<1>5. ASSUME NEW l \in Addrs, NEW d \in Addrs, NEW text \in Texts, Link(l, d, text) PROVE NetInv'
  <2>1. UNCHANGED <<map, version, owner, file, topo, verb>>
        /\ MayLink(l, d, text) /\ ArmEdge(l, d, text)
    BY <1>5 DEF Link
  <2>2. EndsInv' /\ PairInv' /\ armed' = [h \in Addrs |-> [p \in Addrs |-> armed'[h][p]]]
    BY <2>1, EdgeArmed
  <2>3. NetTypes' /\ MapInv' /\ VerbInv'
    BY <2>1, <2>2 DEF NetInv, NetTypes, MapInv, VerbInv
  <2> QED BY <2>2, <2>3 DEF NetInv
<1>6. ASSUME NEW h \in Addrs, NEW p \in Addrs, Disconnect(h, p) PROVE NetInv'
  <2>1. UNCHANGED <<map, version, owner, file, topo, verb>>
        /\ armed' = [armed EXCEPT ![h][p] = NoEnd]
    BY <1>6 DEF Disconnect
  <2>2. /\ armed' = [x \in Addrs |-> [y \in Addrs |-> armed'[x][y]]]
        /\ \A x, y \in Addrs : armed'[x][y] \in {armed[x][y], NoEnd}
    BY <1>0, <2>1
  <2>3. NetTypes' /\ MapInv' /\ VerbInv'
    BY <2>1, <2>2 DEF NetInv, NetTypes, MapInv, VerbInv
  <2>4. Shrinks
    BY <2>1, <2>2 DEF Shrinks, EndHeld
  <2>5. EndsInv' /\ PairInv'
    BY <2>1, <2>4, EndsKept DEF NetInv
  <2> QED BY <2>3, <2>5 DEF NetInv
<1>7. ASSUME NEW h \in Addrs, NEW p \in Addrs, NEW listen \in BOOLEAN,
             LookupEndpoint(h, p, listen) \/ \E text \in Texts : ArmTyped(h, p, listen, text)
      PROVE  NetInv'
  BY <1>7, VerbsBegin
<1> QED BY <1>1, <1>2, <1>3, <1>4, <1>5, <1>6, <1>7, DialResolved, EndArmed DEF Client

\* Every state of the network.
LEMMA NetSpecInv == Spec => []NetInv
<1>1. Init => NetInv
  <2> SUFFICES ASSUME Init PROVE NetInv
    OBVIOUS
  <2>1. /\ topo = [pc |-> "text", next |-> 1, text |-> NoText, mine |-> {}, badLine |-> 0]
        /\ map = [a \in Addrs |-> NoText] /\ version = 0 /\ owner = [a \in Addrs |-> "none"]
        /\ armed = [h \in Addrs |-> [p \in Addrs |-> NoEnd]] /\ file \in Files /\ verb = NoVerb
    BY DEF Init
  <2>2. verb.at = "idle"
        /\ verb = [at |-> verb.at, hub |-> verb.hub, peer |-> verb.peer, end |-> verb.end]
    BY <2>1 DEF NoVerb
  <2>3. NetTypes
    BY <2>1, <2>2 DEF NetTypes
  <2>4. MapInv /\ VerbInv
    BY <2>1, <2>2 DEF MapInv, VerbInv, NoText, Text
  <2>5. ASSUME NEW h \in Addrs, NEW p \in Addrs, NEW e, EndHeld(h, p, e) PROVE e = NoEnd
    BY <2>1, <2>2, <2>5 DEF EndHeld
  <2>6. EndsInv
    BY <2>5, NoEndAgrees DEF EndsInv
  <2>7. PairInv
    BY <2>5, NoEndAgrees DEF PairInv, PairMeets
  <2> QED BY <2>3, <2>4, <2>6, <2>7 DEF NetInv
<1>2. NetInv /\ [Next]_vars => NetInv'
  <2> SUFFICES ASSUME NetInv, [Next]_vars PROVE NetInv'
    OBVIOUS
  <2>1. CASE UNCHANGED vars
    <3>1. UNCHANGED <<map, version, owner, armed, file, topo, verb>>
      BY <2>1 DEF vars
    <3>2. NetTypes' /\ MapInv' /\ VerbInv'
      BY <3>1 DEF NetInv, NetTypes, MapInv, VerbInv
    <3>3. Shrinks
      BY <3>1 DEF Shrinks, EndHeld
    <3>4. EndsInv' /\ PairInv'
      BY <3>1, <3>3, EndsKept DEF NetInv
    <3> QED BY <3>2, <3>4 DEF NetInv
  <2> QED BY <2>1, TopoKeepsEnds, ClientKeepsEnds DEF Next
<1> QED BY <1>1, <1>2, PTL DEF Spec

\* The two ends of an edge meet, whether Link armed them (FacadeNetwork::Link),
\* the map gave both (ResolveEndpoint), or one was resolved from the other
\* (ResolveDial), whatever is armed, closed and edited in between.
THEOREM EdgesMeet == Spec => []EndsMeet
<1>1. NetInv => EndsMeet
  <2> SUFFICES ASSUME NetInv, NEW a \in Addrs, NEW b \in Addrs
               PROVE  /\ PairMeets(armed[a][b], armed[b][a])
                      /\ armed[b][a].way = "resolved" /\ armed[b][a].ep.kind # "serial"
                         => Meets(armed[b][a].via, armed[b][a].ep)
    BY DEF EndsMeet, PairMeets
  <2>1. EndHeld(a, b, armed[a][b]) /\ EndHeld(b, a, armed[b][a])
    BY DEF EndHeld
  <2> QED BY <2>1 DEF NetInv, EndsInv, PairInv, EndAgrees
<1> QED BY <1>1, NetSpecInv, PTL

-----------------------------------------------------------------------------
(* All hubs of a topology, or none *)

HubCount   == Len(HubLines(file))
HubAddr(k) == file[HubLines(file)[k]].addr
Made(k)    == {HubAddr(j) : j \in 1 .. k}
Owned      == {a \in Addrs : owner[a] = "topology"}

\* Past the parser, the file has no bad line.
FileGood == topo.pc \notin {"text", "refused"} => \A i \in DOMAIN file : ~LineBad(file, i)

\* What the topology's thread has made, and what it has taken down again.
MadeInv ==
  /\ topo.pc \in {"text", "refused", "failed"} => Owned = {}
  /\ topo.pc = "text" => topo.next = 1 /\ topo.mine = {}
  /\ topo.pc = "creating" =>
       topo.next \in 1 .. HubCount + 1 /\ topo.mine = Made(topo.next - 1) /\ Owned = topo.mine
  /\ topo.pc = "closing" =>
       /\ topo.next \in 0 .. HubCount /\ topo.mine \subseteq Made(HubCount)
       /\ Owned = topo.mine \cap Made(topo.next)
  /\ topo.pc = "created" => Owned = Made(HubCount)

HubsInv == FileGood /\ MadeInv /\ BadLineIsUsers

\* The hub lines of a file, in its order.
LEMMA HubLinesList ==
  ASSUME NEW f \in Files
  PROVE  /\ Len(HubLines(f)) \in Nat /\ DOMAIN HubLines(f) = 1 .. Len(HubLines(f))
         /\ \A k \in DOMAIN HubLines(f) :
              HubLines(f)[k] \in DOMAIN f /\ f[HubLines(f)[k]].verb = "hub"
         /\ \A k, m \in DOMAIN HubLines(f) : k < m => HubLines(f)[k] < HubLines(f)[m]
<1> DEFINE S == {i \in DOMAIN f : f[i].verb = "hub"}
<1>1. S \subseteq DOMAIN f /\ HubLines(f) = InOrder(S)
  BY DEF HubLines
<1>2. \A i \in S : i \in DOMAIN f /\ f[i].verb = "hub"
  OBVIOUS
<1> HIDE DEF S
<1>3. /\ Len(InOrder(S)) \in Nat
      /\ DOMAIN InOrder(S) = 1 .. Len(InOrder(S))
      /\ \A k \in DOMAIN InOrder(S) : InOrder(S)[k] \in S
      /\ \A k, m \in DOMAIN InOrder(S) : k < m => InOrder(S)[k] < InOrder(S)[m]
  BY <1>1, LinesList
<1> QED BY <1>1, <1>2, <1>3

\* The lines of the map text, in the file's order.
LEMMA MapLinesList ==
  ASSUME NEW f \in Files
  PROVE  /\ Len(MapLines(f)) \in Nat /\ DOMAIN MapLines(f) = 1 .. Len(MapLines(f))
         /\ \A k \in DOMAIN MapLines(f) :
              /\ MapLines(f)[k] \in DOMAIN f /\ IsEntry(f[MapLines(f)[k]])
              /\ f[MapLines(f)[k]].text # NoText
         /\ \A i \in DOMAIN f : IsEntry(f[i]) /\ f[i].text # NoText =>
              \E k \in DOMAIN MapLines(f) : MapLines(f)[k] = i
         /\ \A k, m \in DOMAIN MapLines(f) : k < m => MapLines(f)[k] < MapLines(f)[m]
<1> DEFINE S == {i \in DOMAIN f : IsEntry(f[i]) /\ f[i].text # NoText}
<1>1. S \subseteq DOMAIN f /\ MapLines(f) = InOrder(S)
  BY DEF MapLines
<1>2. \A i : i \in S <=> i \in DOMAIN f /\ IsEntry(f[i]) /\ f[i].text # NoText
  OBVIOUS
<1> HIDE DEF S
<1>3. /\ Len(InOrder(S)) \in Nat
      /\ DOMAIN InOrder(S) = 1 .. Len(InOrder(S))
      /\ \A k \in DOMAIN InOrder(S) : InOrder(S)[k] \in S
      /\ \A x \in S : \E k \in DOMAIN InOrder(S) : InOrder(S)[k] = x
      /\ \A k, m \in DOMAIN InOrder(S) : k < m => InOrder(S)[k] < InOrder(S)[m]
  BY <1>1, LinesList
<1> QED BY <1>1, <1>2, <1>3

\* The hubs of a good file have addresses, each its own.
LEMMA HubAddrs ==
  ASSUME file \in Files, \A i \in DOMAIN file : ~LineBad(file, i)
  PROVE  /\ HubCount \in Nat
         /\ \A k \in 1 .. HubCount : HubAddr(k) \in Addrs
         /\ \A j, k \in 1 .. HubCount : j < k => HubAddr(j) # HubAddr(k)
<1>1. /\ HubCount \in Nat /\ DOMAIN HubLines(file) = 1 .. HubCount
      /\ \A k \in 1 .. HubCount :
           HubLines(file)[k] \in DOMAIN file /\ file[HubLines(file)[k]].verb = "hub"
      /\ \A k, m \in 1 .. HubCount : k < m => HubLines(file)[k] < HubLines(file)[m]
  BY HubLinesList DEF HubCount
<1>2. DOMAIN file \subseteq Nat \ {0}
  BY BoundsAssumption
<1>3. ASSUME NEW k \in 1 .. HubCount
      PROVE  HubAddr(k) \in Addrs /\ HubAddr(k) \notin HubsBefore(file, HubLines(file)[k])
  <2>1. PICK i : i = HubLines(file)[k]
    OBVIOUS
  <2>2. i \in DOMAIN file /\ file[i].verb = "hub" /\ ~LineBad(file, i)
    BY <1>1, <2>1
  <2>3. file[i].addr \in Addrs /\ file[i].addr \notin HubsBefore(file, i)
    BY <2>2 DEF LineBad
  <2> QED BY <2>1, <2>3 DEF HubAddr
<1>4. ASSUME NEW j \in 1 .. HubCount, NEW k \in 1 .. HubCount, j < k
      PROVE  HubAddr(j) # HubAddr(k)
  <2>1. PICK i, m : i = HubLines(file)[j] /\ m = HubLines(file)[k]
    OBVIOUS
  <2>2. i < m /\ i \in Nat \ {0} /\ m \in Nat \ {0} /\ file[i].verb = "hub"
    BY <1>1, <1>2, <1>4, <2>1
  <2>3. i \in {n \in 1 .. m - 1 : file[n].verb = "hub"}
    BY <2>2
  <2>4. file[i].addr \in HubsBefore(file, m)
    BY <2>3 DEF HubsBefore
  <2> QED BY <1>3, <2>1, <2>4 DEF HubAddr
<1> QED BY <1>1, <1>3, <1>4

\* A file that the parser takes has no bad line.
LEMMA ParsedGood ==
  ASSUME NEW f \in Files
  PROVE  LET S == {i \in DOMAIN f : LineBad(f, i)} IN
         FirstOf(S) = 0 => \A i \in DOMAIN f : ~LineBad(f, i)
<1> DEFINE S == {i \in DOMAIN f : LineBad(f, i)}
<1>1. S \subseteq Nat \ {0}
  BY BoundsAssumption
<1>2. S = {} => \A i \in DOMAIN f : ~LineBad(f, i)
  OBVIOUS
<1> HIDE DEF S
<1>3. FirstOf(S) = 0 => S = {}
  BY <1>1, FirstIsLeast
<1> QED BY <1>2, <1>3 DEF S

\* A hub that was not the topology's, and is not, is none of what it owns.
LEMMA OwnedKept ==
  ASSUME owner = [x \in Addrs |-> owner[x]], NEW a, NEW who, who # "topology",
         owner[a] # "topology", owner' = [owner EXCEPT ![a] = who]
  PROVE  Owned' = Owned
<1>1. \A x \in Addrs : owner'[x] = IF x = a THEN who ELSE owner[x]
  OBVIOUS
<1> QED BY <1>1 DEF Owned

\* Nothing that keeps the file and what the topology owns disturbs it.
LEMMA HubsKept ==
  ASSUME HubsInv, UNCHANGED <<file, topo>>, Owned' = Owned
  PROVE  HubsInv'
<1>1. HubCount' = HubCount /\ \A k : Made(k)' = Made(k)
  BY DEF HubCount, Made, HubAddr
<1>2. FileGood' /\ MadeInv' /\ BadLineIsUsers'
  BY <1>1 DEF HubsInv, FileGood, MadeInv, BadLineIsUsers
<1> QED BY <1>2 DEF HubsInv

\* A file is taken whole or not at all.
LEMMA ParseKeepsHubs == NetInv /\ HubsInv /\ ParseFile => HubsInv'
<1> SUFFICES ASSUME NetInv, HubsInv, ParseFile PROVE HubsInv'
  OBVIOUS
<1> DEFINE bad == FirstOf({i \in DOMAIN file : LineBad(file, i)})
<1>1. /\ topo.pc = "text" /\ UNCHANGED <<owner, file>>
      /\ topo' = [topo EXCEPT !.pc = IF bad = 0 THEN "creating" ELSE "refused", !.badLine = bad]
  BY DEF ParseFile
<1>2. file \in Files
      /\ topo = [pc |-> topo.pc, next |-> topo.next, text |-> topo.text, mine |-> topo.mine,
                 badLine |-> topo.badLine]
  BY DEF NetInv, NetTypes
<1>3. topo.next = 1 /\ topo.mine = {} /\ Owned = {}
  BY <1>1 DEF HubsInv, MadeInv
<1>4. Owned' = Owned /\ HubCount' = HubCount /\ \A k : Made(k)' = Made(k)
  BY <1>1 DEF Owned, HubCount, Made, HubAddr
<1>5. bad = 0 => \A i \in DOMAIN file : ~LineBad(file, i)
  BY <1>2, ParsedGood
<1> HIDE DEF bad
<1>6. CASE bad = 0
  <2>1. topo'.pc = "creating" /\ topo'.next = 1 /\ topo'.mine = {}
    BY <1>1, <1>2, <1>3, <1>6
  <2>2. FileGood' /\ BadLineIsUsers'
    BY <1>1, <1>5, <1>6, <2>1 DEF FileGood, BadLineIsUsers
  <2>3. Made(0) = {} /\ HubCount \in Nat
    <3>1. HubCount \in Nat
      BY <1>2, HubLinesList DEF HubCount
    <3> QED BY <3>1 DEF Made
  <2>4. MadeInv'
    BY <1>3, <1>4, <2>1, <2>3 DEF MadeInv
  <2> QED BY <2>2, <2>4 DEF HubsInv
<1>7. CASE bad # 0
  <2>1. topo'.pc = "refused"
    BY <1>1, <1>2, <1>7
  <2> QED BY <1>3, <1>4, <2>1 DEF HubsInv, FileGood, MadeInv, BadLineIsUsers
<1> QED BY <1>6, <1>7

\* One hub more, or the first that cannot be had.
LEMMA CreateKeepsHubs == NetInv /\ HubsInv /\ CreateHub => HubsInv'
<1> SUFFICES ASSUME NetInv, HubsInv, CreateHub PROVE HubsInv'
  OBVIOUS
<1>1. file \in Files /\ owner = [a \in Addrs |-> owner[a]]
      /\ topo = [pc |-> topo.pc, next |-> topo.next, text |-> topo.text, mine |-> topo.mine,
                 badLine |-> topo.badLine]
  BY DEF NetInv, NetTypes
<1>2. topo.pc = "creating" /\ UNCHANGED file
  BY DEF CreateHub
<1>3. PICK i : i = topo.next
  OBVIOUS
<1>4. i \in 1 .. HubCount + 1 /\ topo.mine = Made(i - 1) /\ Owned = topo.mine
      /\ \A k \in DOMAIN file : ~LineBad(file, k)
  BY <1>2, <1>3 DEF HubsInv, MadeInv, FileGood
<1>5. HubCount \in Nat /\ \A k \in 1 .. HubCount : HubAddr(k) \in Addrs
  BY <1>1, <1>4, HubAddrs
<1>6. HubCount' = HubCount /\ \A k : Made(k)' = Made(k)
  BY <1>2 DEF HubCount, Made, HubAddr
<1>7. topo'.pc \in {"creating", "created", "closing"} => FileGood' /\ BadLineIsUsers'
  BY <1>2, <1>4 DEF FileGood, BadLineIsUsers
<1>8. CASE i > HubCount
  <2>1. owner' = owner /\ topo' = [topo EXCEPT !.pc = "created", !.next = 1]
    BY <1>3, <1>8 DEF CreateHub, HubCount
  <2>2. topo'.pc = "created"
    BY <1>1, <2>1
  <2>3. i - 1 = HubCount
    BY <1>4, <1>5, <1>8
  <2>4. Owned' = Made(HubCount)
    BY <1>4, <2>1, <2>3 DEF Owned
  <2>5. MadeInv'
    BY <1>6, <2>2, <2>4 DEF MadeInv
  <2> QED BY <1>7, <2>2, <2>5 DEF HubsInv
<1>9. CASE ~(i > HubCount)
  <2>1. i \in 1 .. HubCount
    BY <1>4, <1>5, <1>9
  <2>2. CASE /\ owner' = [owner EXCEPT ![HubAddr(i)] = "topology"]
             /\ topo' = [topo EXCEPT !.next = i + 1, !.mine = @ \cup {HubAddr(i)}]
    <3>1. topo'.pc = "creating" /\ topo'.next = i + 1 /\ topo'.mine = topo.mine \cup {HubAddr(i)}
      BY <1>1, <1>2, <2>2
    <3>2. \A a \in Addrs : owner'[a] = IF a = HubAddr(i) THEN "topology" ELSE owner[a]
      BY <1>1, <2>2
    <3>3. Owned' = Owned \cup {HubAddr(i)}
      BY <1>5, <2>1, <3>2 DEF Owned
    <3>4. Made((i + 1) - 1) = Made(i - 1) \cup {HubAddr(i)}
      <4>1. 1 .. (i + 1) - 1 = (1 .. i - 1) \cup {i}
        BY <2>1
      <4> QED BY <4>1 DEF Made
    <3>5. i + 1 \in 1 .. HubCount + 1
      BY <1>5, <2>1
    <3>6. MadeInv'
      BY <1>4, <1>6, <3>1, <3>3, <3>4, <3>5 DEF MadeInv
    <3> QED BY <1>7, <3>1, <3>6 DEF HubsInv
  <2>3. CASE owner' = owner /\ topo' = [topo EXCEPT !.pc = "closing", !.next = HubCount]
    <3>1. topo'.pc = "closing" /\ topo'.next = HubCount /\ topo'.mine = topo.mine
      BY <1>1, <2>3
    <3>2. Owned' = Owned
      BY <2>3 DEF Owned
    <3>3. Made(i - 1) \subseteq Made(HubCount)
      <4>1. (1 .. i - 1) \subseteq 1 .. HubCount
        BY <1>5, <2>1
      <4> QED BY <4>1 DEF Made
    <3>4. MadeInv'
      BY <1>4, <1>5, <1>6, <3>1, <3>2, <3>3 DEF MadeInv
    <3> QED BY <1>7, <3>1, <3>4 DEF HubsInv
  <2> QED BY <1>3, <1>9, <2>2, <2>3 DEF CreateHub, HubCount, HubAddr
<1> QED BY <1>8, <1>9

\* closeAll takes down the last hub first, and only what it made.
LEMMA CloseKeepsHubs == NetInv /\ HubsInv /\ CloseNext => HubsInv'
<1> SUFFICES ASSUME NetInv, HubsInv, CloseNext PROVE HubsInv'
  OBVIOUS
<1>1. file \in Files /\ owner = [a \in Addrs |-> owner[a]]
      /\ topo = [pc |-> topo.pc, next |-> topo.next, text |-> topo.text, mine |-> topo.mine,
                 badLine |-> topo.badLine]
  BY DEF NetInv, NetTypes
<1>2. topo.pc = "closing" /\ UNCHANGED file
  BY DEF CloseNext
<1>3. PICK i : i = topo.next
  OBVIOUS
<1>4. i \in 0 .. HubCount /\ topo.mine \subseteq Made(HubCount)
      /\ Owned = topo.mine \cap Made(i) /\ \A k \in DOMAIN file : ~LineBad(file, k)
  BY <1>2, <1>3 DEF HubsInv, MadeInv, FileGood
<1>5. HubCount \in Nat /\ (\A k \in 1 .. HubCount : HubAddr(k) \in Addrs)
      /\ \A j, k \in 1 .. HubCount : j < k => HubAddr(j) # HubAddr(k)
  BY <1>1, <1>4, HubAddrs
<1>6. HubCount' = HubCount /\ \A k : Made(k)' = Made(k)
  BY <1>2 DEF HubCount, Made, HubAddr
<1>7. topo'.pc \in {"closing", "failed"} => FileGood' /\ BadLineIsUsers'
  BY <1>2, <1>4 DEF FileGood, BadLineIsUsers
<1>8. CASE i < 1
  <2>1. owner' = owner /\ topo' = [topo EXCEPT !.pc = "failed", !.mine = {}]
    BY <1>3, <1>8 DEF CloseNext, LastToClose
  <2>2. topo'.pc = "failed"
    BY <1>1, <2>1
  <2>3. Made(i) = {}
    BY <1>4, <1>5, <1>8 DEF Made
  <2>4. Owned' = {}
    BY <1>4, <2>1, <2>3 DEF Owned
  <2>5. MadeInv'
    BY <2>2, <2>4 DEF MadeInv
  <2> QED BY <1>7, <2>2, <2>5 DEF HubsInv
<1>9. CASE ~(i < 1)
  <2>1. i \in 1 .. HubCount
    BY <1>4, <1>5, <1>9
  <2>2. topo' = [topo EXCEPT !.next = i - 1]
        /\ IF HubAddr(i) \in topo.mine THEN Gone(HubAddr(i)) ELSE owner' = owner
    BY <1>3, <1>9 DEF CloseNext, LastToClose, HubAddr
  <2>3. topo'.pc = "closing" /\ topo'.next = i - 1 /\ topo'.mine = topo.mine
    BY <1>1, <1>2, <2>2
  <2>4. Made(i) = Made(i - 1) \cup {HubAddr(i)} /\ HubAddr(i) \notin Made(i - 1)
    <3>1. 1 .. i = (1 .. i - 1) \cup {i}
      BY <2>1
    <3>2. \A j \in 1 .. i - 1 : j \in 1 .. HubCount /\ j < i
      BY <1>5, <2>1
    <3>3. \A j \in 1 .. i - 1 : HubAddr(j) # HubAddr(i)
      BY <1>5, <2>1, <3>2
    <3> QED BY <3>1, <3>3 DEF Made
  <2>5. Owned' = Owned \ {HubAddr(i)}
    <3>1. CASE HubAddr(i) \in topo.mine
      <4>1. \A a \in Addrs : owner'[a] = IF a = HubAddr(i) THEN "none" ELSE owner[a]
        BY <1>1, <2>2, <3>1 DEF Gone
      <4> QED BY <4>1 DEF Owned
    <3>2. CASE HubAddr(i) \notin topo.mine
      <4>1. owner' = owner /\ HubAddr(i) \notin Owned
        BY <1>4, <2>2, <3>2
      <4> QED BY <4>1 DEF Owned
    <3> QED BY <3>1, <3>2
  <2>6. Owned' = topo.mine \cap Made(i - 1)
    BY <1>4, <2>4, <2>5
  <2>7. i - 1 \in 0 .. HubCount
    BY <1>5, <2>1
  <2>8. MadeInv'
    BY <1>4, <1>6, <2>3, <2>6, <2>7 DEF MadeInv
  <2> QED BY <1>7, <2>3, <2>8 DEF HubsInv
<1> QED BY <1>8, <1>9

\* The first line the DLL will not have is, in the file, the first with an
\* endpoint it will not have: in a file the parser took, no other line is bad.
LEMMA FirstBadLine ==
  ASSUME file \in Files, \A i \in DOMAIN file : ~LineBad(file, i),
         NEW n, n = FirstOf(BadMapLines(MapText(file))), n # 0
  PROVE  LET bad(i) == /\ IsEntry(file[i]) /\ file[i].text # NoText
                       /\ Parse(file[i].text, FALSE).kind \in {"refused", "serial"} IN
         /\ FileLine(file, n) \in DOMAIN file /\ bad(FileLine(file, n))
         /\ \A i \in 1 .. FileLine(file, n) - 1 : ~bad(i)
<1> DEFINE bad(i) == /\ IsEntry(file[i]) /\ file[i].text # NoText
                     /\ Parse(file[i].text, FALSE).kind \in {"refused", "serial"}
           ml == MapLines(file)
<1>1. /\ Len(ml) \in Nat /\ DOMAIN ml = 1 .. Len(ml)
      /\ \A k \in DOMAIN ml : ml[k] \in DOMAIN file /\ IsEntry(file[ml[k]])
                              /\ file[ml[k]].text # NoText
      /\ \A i \in DOMAIN file : IsEntry(file[i]) /\ file[i].text # NoText =>
           \E k \in DOMAIN ml : ml[k] = i
      /\ \A k, m \in DOMAIN ml : k < m => ml[k] < ml[m]
  BY MapLinesList
<1>2. DOMAIN MapText(file) = 1 .. Len(ml) /\ \A k \in 1 .. Len(ml) : MapText(file)[k] = file[ml[k]]
  BY <1>1 DEF MapText
<1>3. DOMAIN file = 1 .. Len(file) /\ Len(file) \in Nat
  BY BoundsAssumption
<1>4. BadMapLines(MapText(file)) \subseteq Nat \ {0}
  BY <1>1, <1>2 DEF BadMapLines
<1>5. n \in BadMapLines(MapText(file)) /\ \A j \in BadMapLines(MapText(file)) : n <= j
  BY <1>4, FirstIsLeast
<1>6. n \in 1 .. Len(ml) /\ MapLineBad(MapText(file), n)
  BY <1>2, <1>5 DEF BadMapLines
<1> HIDE DEF ml
<1>7. ml[n] \in DOMAIN file /\ IsEntry(file[ml[n]]) /\ file[ml[n]].text # NoText
  BY <1>1, <1>6
<1>8. Parse(file[ml[n]].text, FALSE).kind \in {"refused", "serial"}
  <2>1. file[ml[n]].addr \in Addrs /\ file[ml[n]].addr \notin EntriesBefore(file, ml[n])
    BY <1>7 DEF IsEntry, LineBad
  <2>2. ASSUME NEW j \in 1 .. n - 1, file[ml[j]].addr = file[ml[n]].addr PROVE FALSE
    <3>1. j \in DOMAIN ml /\ n \in DOMAIN ml /\ j < n
      BY <1>1, <1>6
    <3>2. ml[j] < ml[n] /\ ml[j] \in DOMAIN file /\ IsEntry(file[ml[j]])
          /\ file[ml[j]].text # NoText
      BY <1>1, <3>1
    <3>3. ml[j] \in 1 .. ml[n] - 1
      BY <1>3, <1>7, <3>2
    <3>4. file[ml[j]].addr \in EntriesBefore(file, ml[n])
      BY <3>2, <3>3 DEF EntriesBefore
    <3> QED BY <2>1, <2>2, <3>4
  <2>3. ~(\E j \in 1 .. n - 1 : IsEntry(MapText(file)[j])
                                /\ MapText(file)[j].addr = MapText(file)[n].addr)
    <3>1. \A j \in 1 .. n - 1 : j \in 1 .. Len(ml)
      BY <1>1, <1>6
    <3> QED BY <1>2, <1>6, <2>2, <3>1
  <2>4. MapText(file)[n] = file[ml[n]]
    BY <1>2, <1>6
  <2>5. \/ ~Parses(file[ml[n]].text, FALSE)
        \/ Parse(file[ml[n]].text, FALSE).kind = "serial"
    BY <1>6, <2>1, <2>3, <2>4 DEF MapLineBad
  <2>6. Refused.kind = "refused"
    BY DEF Refused, Endpoint
  <2> QED BY <2>5, <2>6 DEF Parses
<1>9. ASSUME NEW i \in 1 .. ml[n] - 1, bad(i) PROVE FALSE
  <2>1. i \in DOMAIN file
    BY <1>3, <1>7
  <2>2. PICK k \in DOMAIN ml : ml[k] = i
    BY <1>1, <1>9, <2>1
  <2>3. k < n
    <3>1. k \in Nat /\ n \in Nat /\ i < ml[n] /\ ml[n] \in Nat
      BY <1>1, <1>3, <1>6, <1>7
    <3>2. ~(n < k) /\ n # k
      BY <1>1, <1>3, <1>6, <2>2, <3>1
    <3> QED BY <3>1, <3>2
  <2>4. MapText(file)[k] = file[i] /\ k \in DOMAIN MapText(file)
    BY <1>1, <1>2, <2>2
  <2>5. ~Parses(file[i].text, FALSE) \/ Parse(file[i].text, FALSE).kind = "serial"
    BY <1>9, ParseGives DEF Parses
  <2>6. k \in BadMapLines(MapText(file))
    BY <1>9, <2>4, <2>5 DEF BadMapLines, MapLineBad
  <2> QED BY <1>1, <1>5, <1>6, <2>3, <2>6
<1> QED BY <1>7, <1>8, <1>9 DEF FileLine, ml

\* Bringing up the map and the edges leaves the hubs.
LEMMA ArmKeepsHubs == NetInv /\ HubsInv /\ (PushMap \/ ReadEndpoint \/ LinkEdge) => HubsInv'
<1> SUFFICES ASSUME NetInv, HubsInv, PushMap \/ ReadEndpoint \/ LinkEdge PROVE HubsInv'
  OBVIOUS
<1>1. file \in Files /\ UNCHANGED <<file, owner>>
      /\ topo = [pc |-> topo.pc, next |-> topo.next, text |-> topo.text, mine |-> topo.mine,
                 badLine |-> topo.badLine]
  BY DEF NetInv, NetTypes, PushMap, ReadEndpoint, LinkEdge
<1>2. /\ topo.pc \in {"created", "reading", "linking"}
      /\ topo'.pc \in {"rejected", "reading", "linking", "armed", "stopped"}
  BY <1>1 DEF PushMap, ReadEndpoint, LinkEdge
<1>3. \A i \in DOMAIN file : ~LineBad(file, i)
  BY <1>2 DEF HubsInv, FileGood
<1>4. FileGood' /\ MadeInv'
  BY <1>1, <1>2, <1>3 DEF FileGood, MadeInv
<1>5. CASE topo'.pc # "rejected"
  BY <1>4, <1>5 DEF HubsInv, BadLineIsUsers
<1>6. CASE topo'.pc = "rejected"
  <2>1. PushMap
    BY <1>1, <1>6 DEF ReadEndpoint, LinkEdge
  <2>2. PICK n : n = FirstOf(BadMapLines(MapText(file)))
    OBVIOUS
  <2>3. n # 0 /\ topo' = [topo EXCEPT !.pc = "rejected", !.badLine = FileLine(file, n)]
    BY <1>1, <1>6, <2>1, <2>2 DEF PushMap
  <2>4. topo'.badLine = FileLine(file, n)
    BY <1>1, <2>3
  <2>5. BadLineIsUsers'
    BY <1>1, <1>3, <2>2, <2>3, <2>4, FirstBadLine DEF BadLineIsUsers
  <2> QED BY <1>4, <2>5 DEF HubsInv
<1> QED BY <1>5, <1>6

\* The client makes and closes its own hubs.
LEMMA ClientKeepsHubs == NetInv /\ HubsInv /\ Client => HubsInv'
<1> SUFFICES ASSUME NetInv, HubsInv, Client PROVE HubsInv'
  OBVIOUS
<1>1. owner = [x \in Addrs |-> owner[x]]
  BY DEF NetInv, NetTypes
<1>2. UNCHANGED <<file, topo>>
  BY DEF Client, SetEndpointMap, SetEndpoint, MakeHub, CloseHub, Link, Disconnect, LookupEndpoint,
         ArmTyped, ResolveDial, ArmResolved
<1>3. CASE UNCHANGED owner
  <2>1. Owned' = Owned
    BY <1>3 DEF Owned
  <2> QED BY <1>2, <2>1, HubsKept
<1>4. CASE \E a \in Addrs : MakeHub(a)
  <2>1. PICK a \in Addrs : a \notin Live /\ owner' = [owner EXCEPT ![a] = "client"]
    BY <1>4 DEF MakeHub
  <2>2. owner[a] # "topology"
    BY <2>1 DEF Live
  <2>3. Owned' = Owned
    BY <1>1, <2>1, <2>2, OwnedKept
  <2> QED BY <1>2, <2>3, HubsKept
<1>5. CASE \E a \in Addrs : CloseHub(a)
  <2>1. PICK a \in Addrs : owner[a] = "client" /\ owner' = [owner EXCEPT ![a] = "none"]
    BY <1>5 DEF CloseHub, Gone
  <2>2. Owned' = Owned
    BY <1>1, <2>1, OwnedKept
  <2> QED BY <1>2, <2>2, HubsKept
<1> QED BY <1>3, <1>4, <1>5
        DEF Client, SetEndpointMap, SetEndpoint, Link, Disconnect, LookupEndpoint, ArmTyped,
            ResolveDial, ArmResolved

\* Every state of the topology.
LEMMA HubsSpecInv == Spec => []HubsInv
<1>1. Init => HubsInv
  <2> SUFFICES ASSUME Init PROVE HubsInv
    OBVIOUS
  <2>1. topo.pc = "text" /\ topo.next = 1 /\ topo.mine = {} /\ owner = [a \in Addrs |-> "none"]
    BY DEF Init
  <2>2. Owned = {}
    BY <2>1 DEF Owned
  <2> QED BY <2>1, <2>2 DEF HubsInv, FileGood, MadeInv, BadLineIsUsers
<1>2. NetInv /\ HubsInv /\ [Next]_vars => HubsInv'
  <2> SUFFICES ASSUME NetInv, HubsInv, [Next]_vars PROVE HubsInv'
    OBVIOUS
  <2>1. CASE UNCHANGED vars
    <3>1. UNCHANGED <<file, topo>> /\ Owned' = Owned
      BY <2>1 DEF vars, Owned
    <3> QED BY <3>1, HubsKept
  <2>2. CASE Topo
    BY <2>2, ParseKeepsHubs, CreateKeepsHubs, CloseKeepsHubs, ArmKeepsHubs DEF Topo
  <2> QED BY <2>1, <2>2, ClientKeepsHubs DEF Next
<1> QED BY <1>1, <1>2, NetSpecInv, PTL DEF Spec

\* createHubs of the wrapper's Topology makes every hub of the file or leaves
\* none, whatever hubs another client makes and closes of the same addresses.
THEOREM HubsAllOrNone == Spec => []CreateAllOrNone
<1>1. NetInv /\ HubsInv => CreateAllOrNone
  <2> SUFFICES ASSUME NetInv, HubsInv PROVE CreateAllOrNone
    OBVIOUS
  <2>1. topo.pc = "failed" => \A a \in Addrs : owner[a] # "topology"
    BY DEF HubsInv, MadeInv, Owned
  <2>2. ASSUME topo.pc = "created", NEW i \in DOMAIN HubLines(file)
        PROVE  owner[file[HubLines(file)[i]].addr] = "topology"
    <3>1. i \in 1 .. HubCount
      BY HubLinesList DEF NetInv, NetTypes, HubCount
    <3>2. HubAddr(i) \in Owned
      BY <2>2, <3>1 DEF HubsInv, MadeInv, Made
    <3> QED BY <3>2 DEF Owned, HubAddr
  <2> QED BY <2>1, <2>2 DEF CreateAllOrNone
<1> QED BY <1>1, NetSpecInv, HubsSpecInv, PTL

\* The line Topology::arm reports for a map the DLL refuses is a line of the
\* file, the first with an endpoint the DLL will not have.
THEOREM BadLineFound == Spec => []BadLineIsUsers
<1>1. HubsInv => BadLineIsUsers
  BY DEF HubsInv
<1> QED BY <1>1, HubsSpecInv, PTL
=============================================================================
