-------------------------- MODULE PingCloseProofs --------------------------
(***************************************************************************)
(* What PingClose promises, for any number of threads and of pings.        *)
(*                                                                         *)
(* Both theorems need to know whose row is whose: the ids threads hold are *)
(* distinct, each held id has a row, and an id not yet handed out has      *)
(* neither a row nor a message.                                            *)
(***************************************************************************)
EXTENDS PingClose, TLAPS

\* Ids are handed out in order, and once.
FreshIds ==
  /\ \A i \in Ids : i > uNextPingId => mapPings[i] = "absent" /\ wire[i] = "unsent"
  /\ \A t \in Threads : call[t].id <= uNextPingId

\* A thread inside Ping with a row has one of its own.
OwnRow ==
  \A t \in Threads : call[t].at \in Holding =>
    /\ call[t].id \in Ids
    /\ mapPings[call[t].id] # "absent"
    /\ \A u \in Threads : (u # t /\ call[u].at \in Holding) => call[u].id # call[t].id

\* The mark is what separates the close's wait from everything before it, and
\* once the wait has seen an empty map the map stays empty.
CloseInv ==
  /\ bClosing <=> hub \notin {"open", "latched"}
  /\ hub \in {"quiet", "freed"} => \A i \in Ids : mapPings[i] = "absent"

\* An echo changes the wire and the row together, and only a send starts one.
EchoInv ==
  /\ \A i \in Ids : mapPings[i] = "answered" => wire[i] = "arrived"
  /\ \A t \in Threads : At(t, "post") => wire[call[t].id] = "unsent"
  /\ \A t \in Threads : At(t, "out") /\ call[t].res = "ok" =>
       call[t].id \in Ids /\ wire[call[t].id] = "arrived"
  /\ \A t \in Threads : call[t].at # "out" => call[t].res # "ok"

Inv == TypeOK /\ FreshIds /\ OwnRow /\ CloseInv /\ EchoInv

-----------------------------------------------------------------------------

\* The initial state satisfies the invariant.
LEMMA InitInv == Init => Inv
<1> SUFFICES ASSUME Init PROVE Inv
  OBVIOUS
<1> USE OwnerAssumption, MaxPingsAssumption DEF Init, Ids, NoCall, At
<1>1. TypeOK
  <2>1. NoCall \in Call
    BY DEF Call, Inside, Results
  <2>2. call \in [Threads -> Call]
    BY <2>1
  <2>3. /\ mapPings \in [Ids -> {"absent", "waiting", "answered"}]
        /\ wire \in [Ids -> {"unsent", "ping", "pong", "arrived", "lost"}]
    OBVIOUS
  <2>4. uNextPingId \in 0 .. MaxPings
    OBVIOUS
  <2>5. signalled \subseteq Ids /\ hub \in HubStep
    BY DEF HubStep
  <2>6. bClosing \in BOOLEAN
    OBVIOUS
  <2> QED BY <2>2, <2>3, <2>4, <2>5, <2>6 DEF TypeOK
<1>2. FreshIds
  BY DEF FreshIds, TypeOK, Call
<1>3. OwnRow
  BY DEF OwnRow, Holding, FreshIds, TypeOK, Call
<1>4. CloseInv
  BY DEF CloseInv, OwnRow, Holding, TypeOK, HubStep
<1>5. EchoInv
  BY DEF EchoInv, OwnRow, Holding, FreshIds, TypeOK, Call
<1> QED BY <1>1, <1>2, <1>3, <1>4, <1>5 DEF Inv

\* Every step keeps it.
LEMMA NextInv == Inv /\ [Next]_vars => Inv'
<1> SUFFICES ASSUME Inv, [Next]_vars PROVE Inv'
  OBVIOUS
<1> USE MaxPingsAssumption, OwnerAssumption DEF Inv, Ids, At, Goto
<1>1. ASSUME NEW t \in Threads, Enter(t) PROVE Inv'
  <2>1. TypeOK'
    <3>1. call'[t] \in Call
      BY <1>1 DEF Enter, TypeOK, Call, Inside, Results
    <3> QED BY <1>1, <3>1 DEF Enter, TypeOK
  <2>2. FreshIds'
    BY <1>1 DEF Enter, FreshIds, TypeOK, Call
  <2>3. OwnRow'
    BY <1>1 DEF Enter, OwnRow, Holding, FreshIds, TypeOK, Call
  <2>4. CloseInv'
    BY <1>1 DEF Enter, CloseInv, OwnRow, Holding, TypeOK, HubStep
  <2>5. EchoInv'
    BY <1>1 DEF Enter, EchoInv, OwnRow, Holding, FreshIds, TypeOK, Call
  <2> QED BY <2>1, <2>2, <2>3, <2>4, <2>5
<1>2. ASSUME NEW t \in Threads, Refuse(t) PROVE Inv'
  <2>1. TypeOK'
    <3>1. call'[t] \in Call
      BY <1>2 DEF Refuse, TypeOK, Call, Inside, Results
    <3> QED BY <1>2, <3>1 DEF Refuse, TypeOK
  <2>2. FreshIds'
    BY <1>2 DEF Refuse, FreshIds, TypeOK, Call
  <2>3. OwnRow'
    BY <1>2 DEF Refuse, OwnRow, Holding, FreshIds, TypeOK, Call
  <2>4. CloseInv'
    BY <1>2 DEF Refuse, CloseInv, OwnRow, Holding, TypeOK, HubStep
  <2>5. EchoInv'
    BY <1>2 DEF Refuse, EchoInv, OwnRow, Holding, FreshIds, TypeOK, Call
  <2> QED BY <2>1, <2>2, <2>3, <2>4, <2>5
<1>3. ASSUME NEW t \in Threads, Register(t) PROVE Inv'
  <2>1. TypeOK'
    <3>1. call'[t] \in Call
      BY <1>3 DEF Register, TypeOK, Call, Inside, Results
    <3> QED BY <1>3, <3>1 DEF Register, TypeOK
  <2>2. FreshIds'
    BY <1>3 DEF Register, FreshIds, TypeOK, Call
  <2>3. OwnRow'
    BY <1>3 DEF Register, OwnRow, Holding, FreshIds, TypeOK, Call
  <2>4. CloseInv'
    BY <1>3 DEF Register, CloseInv, OwnRow, Holding, TypeOK, HubStep
  <2>5. EchoInv'
    BY <1>3 DEF Register, EchoInv, OwnRow, Holding, FreshIds, TypeOK, Call
  <2> QED BY <2>1, <2>2, <2>3, <2>4, <2>5
<1>4. ASSUME NEW t \in Threads, Post(t) PROVE Inv'
  <2>1. call[t].id \in Ids /\ call[t].res \in Results
    BY <1>4 DEF Post, OwnRow, Holding, TypeOK, Call
  <2>2. CASE Goto(t, "wait", call[t].id, "none")
             /\ wire' = [wire EXCEPT ![call[t].id] = "ping"]
    <3>1. TypeOK'
      <4>1. [at |-> "wait", id |-> call[t].id, res |-> "none"] \in Call
        BY <2>1 DEF Call, Inside, Results
      <4> QED BY <1>4, <2>1, <2>2, <4>1 DEF Post, TypeOK
    <3>2. FreshIds' /\ OwnRow'
      BY <1>4, <2>1, <2>2 DEF Post, FreshIds, OwnRow, Holding, TypeOK, Call
    <3>3. CloseInv'
      BY <1>4 DEF Post, CloseInv
    <3>4. EchoInv'
      BY <1>4, <2>1, <2>2 DEF Post, EchoInv, OwnRow, Holding, TypeOK, Call
    <3> QED BY <3>1, <3>2, <3>3, <3>4
  <2>3. CASE Goto(t, "leave", call[t].id, "failed") /\ UNCHANGED wire
    <3>1. TypeOK'
      <4>1. [at |-> "leave", id |-> call[t].id, res |-> "failed"] \in Call
        BY <2>1 DEF Call, Inside, Results
      <4> QED BY <1>4, <2>1, <2>3, <4>1 DEF Post, TypeOK
    <3>2. FreshIds' /\ OwnRow'
      BY <1>4, <2>1, <2>3 DEF Post, FreshIds, OwnRow, Holding, TypeOK, Call
    <3>3. CloseInv'
      BY <1>4 DEF Post, CloseInv
    <3>4. EchoInv'
      BY <1>4, <2>1, <2>3 DEF Post, EchoInv, OwnRow, Holding, TypeOK, Call
    <3> QED BY <3>1, <3>2, <3>3, <3>4
  <2> QED BY <1>4, <2>2, <2>3 DEF Post
<1>5. ASSUME NEW t \in Threads, Wake(t) PROVE Inv'
  <2>1. TypeOK'
    BY <1>5 DEF Wake, TypeOK, Call, Inside, Results, HubStep
  <2>2. FreshIds'
    BY <1>5 DEF Wake, FreshIds, TypeOK, Call
  <2>3. OwnRow'
    BY <1>5 DEF Wake, OwnRow, Holding, FreshIds, TypeOK, Call
  <2>4. CloseInv'
    BY <1>5 DEF Wake, CloseInv, OwnRow, Holding, TypeOK, HubStep
  <2>5. EchoInv'
    BY <1>5 DEF Wake, EchoInv, OwnRow, Holding, FreshIds, TypeOK, Call
  <2> QED BY <2>1, <2>2, <2>3, <2>4, <2>5
<1>6. ASSUME NEW t \in Threads, Expire(t) PROVE Inv'
  <2>1. TypeOK'
    BY <1>6 DEF Expire, TypeOK, Call, Inside, Results, HubStep
  <2>2. FreshIds'
    BY <1>6 DEF Expire, FreshIds, TypeOK, Call
  <2>3. OwnRow'
    BY <1>6 DEF Expire, OwnRow, Holding, FreshIds, TypeOK, Call
  <2>4. CloseInv'
    BY <1>6 DEF Expire, CloseInv, OwnRow, Holding, TypeOK, HubStep
  <2>5. EchoInv'
    BY <1>6 DEF Expire, EchoInv, OwnRow, Holding, FreshIds, TypeOK, Call
  <2> QED BY <2>1, <2>2, <2>3, <2>4, <2>5
<1>7. ASSUME NEW t \in Threads, Leave(t) PROVE Inv'
  <2>1. TypeOK'
    <3>1. Answer(t) \in Results
      BY DEF Answer, TypeOK, Call, Results
    <3>2. call'[t] \in Call
      BY <1>7, <3>1 DEF Leave, TypeOK, Call
    <3> QED BY <1>7, <3>2 DEF Leave, OwnRow, Holding, TypeOK
  <2>2. FreshIds'
    BY <1>7 DEF Leave, FreshIds, TypeOK, Call
  <2>3. OwnRow'
    BY <1>7 DEF Leave, OwnRow, Holding, FreshIds, TypeOK, Call
  <2>4. CloseInv'
    BY <1>7 DEF Leave, CloseInv, OwnRow, Holding, TypeOK, HubStep
  <2>5. EchoInv'
    <3>1. call[t].id \in Ids /\ call[t].res # "ok"
      BY <1>7 DEF Leave, OwnRow, Holding, EchoInv
    <3>2. Answer(t) = "ok" => wire[call[t].id] = "arrived"
      BY <3>1 DEF Answer, EchoInv
    <3> QED BY <1>7, <3>1, <3>2 DEF Leave, EchoInv, TypeOK, Call
  <2> QED BY <2>1, <2>2, <2>3, <2>4, <2>5
<1>8. ASSUME NEW t \in Threads, Return(t) PROVE Inv'
  <2>1. TypeOK'
    BY <1>8 DEF Return, TypeOK, Call, Inside, Results, HubStep
  <2>2. FreshIds'
    BY <1>8 DEF Return, FreshIds, TypeOK, Call
  <2>3. OwnRow'
    BY <1>8 DEF Return, OwnRow, Holding, FreshIds, TypeOK, Call
  <2>4. CloseInv'
    BY <1>8 DEF Return, CloseInv, OwnRow, Holding, TypeOK, HubStep
  <2>5. EchoInv'
    BY <1>8 DEF Return, EchoInv, OwnRow, Holding, FreshIds, TypeOK, Call
  <2> QED BY <2>1, <2>2, <2>3, <2>4, <2>5
<1>9. ASSUME NEW i \in Ids, Echo(i) PROVE Inv'
  <2>1. TypeOK'
    BY <1>9 DEF Echo, TypeOK, Call, Inside, Results, HubStep
  <2>2. FreshIds'
    BY <1>9 DEF Echo, FreshIds, TypeOK, Call
  <2>3. OwnRow'
    BY <1>9 DEF Echo, OwnRow, Holding, FreshIds, TypeOK, Call
  <2>4. CloseInv'
    BY <1>9 DEF Echo, CloseInv, OwnRow, Holding, TypeOK, HubStep
  <2>5. EchoInv'
    BY <1>9 DEF Echo, EchoInv, OwnRow, Holding, FreshIds, TypeOK, Call
  <2> QED BY <2>1, <2>2, <2>3, <2>4, <2>5
<1>10. ASSUME NEW i \in Ids, Lose(i) PROVE Inv'
  <2>1. TypeOK'
    BY <1>10 DEF Lose, TypeOK, Call, Inside, Results, HubStep
  <2>2. FreshIds'
    BY <1>10 DEF Lose, FreshIds, TypeOK, Call
  <2>3. OwnRow'
    BY <1>10 DEF Lose, OwnRow, Holding, FreshIds, TypeOK, Call
  <2>4. CloseInv'
    BY <1>10 DEF Lose, CloseInv, OwnRow, Holding, TypeOK, HubStep
  <2>5. EchoInv'
    BY <1>10 DEF Lose, EchoInv, OwnRow, Holding, FreshIds, TypeOK, Call
  <2> QED BY <2>1, <2>2, <2>3, <2>4, <2>5
<1>11. ASSUME NEW i \in Ids, Pong(i) PROVE Inv'
  <2>1. TypeOK'
    BY <1>11 DEF Pong, TypeOK, Call, Inside, Results, HubStep
  <2>2. FreshIds'
    BY <1>11 DEF Pong, FreshIds, TypeOK, Call
  <2>3. OwnRow'
    BY <1>11 DEF Pong, OwnRow, Holding, FreshIds, TypeOK, Call
  <2>4. CloseInv'
    BY <1>11 DEF Pong, CloseInv, OwnRow, Holding, TypeOK, HubStep
  <2>5. EchoInv'
    BY <1>11 DEF Pong, EchoInv, OwnRow, Holding, FreshIds, TypeOK, Call
  <2> QED BY <2>1, <2>2, <2>3, <2>4, <2>5
<1>12. CASE Latch
  <2>1. TypeOK'
    BY <1>12 DEF Latch, TypeOK, Call, Inside, Results, HubStep
  <2>2. FreshIds'
    BY <1>12 DEF Latch, FreshIds, TypeOK, Call
  <2>3. OwnRow'
    BY <1>12 DEF Latch, OwnRow, Holding, FreshIds, TypeOK, Call
  <2>4. CloseInv'
    BY <1>12 DEF Latch, CloseInv, OwnRow, Holding, TypeOK, HubStep
  <2>5. EchoInv'
    BY <1>12 DEF Latch, EchoInv, OwnRow, Holding, FreshIds, TypeOK, Call
  <2> QED BY <2>1, <2>2, <2>3, <2>4, <2>5
<1>13. CASE MarkAndRelease
  <2>1. TypeOK'
    BY <1>13 DEF MarkAndRelease, Rows, TypeOK, Call, Inside, Results, HubStep
  <2>2. FreshIds'
    BY <1>13 DEF MarkAndRelease, Rows, FreshIds, TypeOK, Call
  <2>3. OwnRow'
    BY <1>13 DEF MarkAndRelease, Rows, OwnRow, Holding, FreshIds, TypeOK, Call
  <2>4. CloseInv'
    BY <1>13 DEF MarkAndRelease, Rows, CloseInv, OwnRow, Holding, TypeOK, HubStep
  <2>5. EchoInv'
    BY <1>13 DEF MarkAndRelease, Rows, EchoInv, OwnRow, Holding, FreshIds, TypeOK, Call
  <2> QED BY <2>1, <2>2, <2>3, <2>4, <2>5
<1>14. CASE SeeEmpty
  <2>1. TypeOK'
    BY <1>14 DEF SeeEmpty, Rows, TypeOK, Call, Inside, Results, HubStep
  <2>2. FreshIds'
    BY <1>14 DEF SeeEmpty, Rows, FreshIds, TypeOK, Call
  <2>3. OwnRow'
    BY <1>14 DEF SeeEmpty, Rows, OwnRow, Holding, FreshIds, TypeOK, Call
  <2>4. CloseInv'
    BY <1>14 DEF SeeEmpty, Rows, CloseInv, OwnRow, Holding, TypeOK, HubStep
  <2>5. EchoInv'
    BY <1>14 DEF SeeEmpty, Rows, EchoInv, OwnRow, Holding, FreshIds, TypeOK, Call
  <2> QED BY <2>1, <2>2, <2>3, <2>4, <2>5
<1>15. CASE GiveUp
  <2>1. TypeOK'
    BY <1>15 DEF GiveUp, TypeOK, Call, Inside, Results, HubStep
  <2>2. FreshIds'
    BY <1>15 DEF GiveUp, FreshIds, TypeOK, Call
  <2>3. OwnRow'
    BY <1>15 DEF GiveUp, OwnRow, Holding, FreshIds, TypeOK, Call
  <2>4. CloseInv'
    BY <1>15 DEF GiveUp, CloseInv, OwnRow, Holding, TypeOK, HubStep
  <2>5. EchoInv'
    BY <1>15 DEF GiveUp, EchoInv, OwnRow, Holding, FreshIds, TypeOK, Call
  <2> QED BY <2>1, <2>2, <2>3, <2>4, <2>5
<1>16. CASE Free
  <2>1. TypeOK'
    BY <1>16 DEF Free, TypeOK, Call, Inside, Results, HubStep
  <2>2. FreshIds'
    BY <1>16 DEF Free, FreshIds, TypeOK, Call
  <2>3. OwnRow'
    BY <1>16 DEF Free, OwnRow, Holding, FreshIds, TypeOK, Call
  <2>4. CloseInv'
    BY <1>16 DEF Free, CloseInv, OwnRow, Holding, TypeOK, HubStep
  <2>5. EchoInv'
    BY <1>16 DEF Free, EchoInv, OwnRow, Holding, FreshIds, TypeOK, Call
  <2> QED BY <2>1, <2>2, <2>3, <2>4, <2>5
<1>17. CASE UNCHANGED vars
  <2>1. TypeOK'
    BY <1>17 DEF vars, TypeOK, Call, Inside, Results, HubStep
  <2>2. FreshIds'
    BY <1>17 DEF vars, FreshIds, TypeOK, Call
  <2>3. OwnRow'
    BY <1>17 DEF vars, OwnRow, Holding, FreshIds, TypeOK, Call
  <2>4. CloseInv'
    BY <1>17 DEF vars, CloseInv, OwnRow, Holding, TypeOK, HubStep
  <2>5. EchoInv'
    BY <1>17 DEF vars, EchoInv, OwnRow, Holding, FreshIds, TypeOK, Call
  <2> QED BY <2>1, <2>2, <2>3, <2>4, <2>5
<1> QED
  BY <1>1, <1>2, <1>3, <1>4, <1>5, <1>6, <1>7, <1>8, <1>9, <1>10, <1>11, <1>12, <1>13, <1>14, <1>15, <1>16, <1>17
  DEF Next, Continue, Travel, CloseRest

\* The invariant holds in every reachable state.
LEMMA SpecInv == Spec => []Inv
  BY InitInv, NextInv, PTL DEF Spec

\* The variables keep their types, for any number of threads and of pings.
THEOREM TypeCorrect == Spec => []TypeOK
  BY SpecInv, PTL DEF Inv

\* A close that saw the map empty frees no hub a registered ping is inside of.
THEOREM WaitersAreOut == Spec => []NoWaiterInFreedHub
<1>1. Inv => NoWaiterInFreedHub
  BY DEF Inv, OwnRow, CloseInv, NoWaiterInFreedHub
<1> QED BY <1>1, SpecInv, PTL

\* A ping that reports success was answered by the echo of its own request.
THEOREM SuccessIsGenuine == Spec => []SuccessIsOwnEcho
<1>1. Inv => SuccessIsOwnEcho
  BY DEF Inv, EchoInv, SuccessIsOwnEcho
<1> QED BY <1>1, SpecInv, PTL
=============================================================================
