----------------------------- MODULE TrustProofs -----------------------------
(***************************************************************************)
(* What Trust promises for any hubs, peers, keys and threads, as long as   *)
(* the calls on one hub come one at a time.                                *)
(*                                                                         *)
(* A hub that no call is under way on is settled: the kernel lists whom    *)
(* the hub trusts.  A call owns the hubs it touches, so what it knows of   *)
(* them stays true between its steps, and each of its stages is described  *)
(* by what it knows: what the files hold, what was trusted before it       *)
(* granted, which of the two hubs of a Link is already secured.            *)
(***************************************************************************)
EXTENDS Trust, TLAPS

-----------------------------------------------------------------------------
(* The invariant *)

\* The kernel lists what f trusts, unless a rollback could not say so.
Listed(h, f) == h \in unsaved \/ (\A q \in Names : f[q] # NoKey => list[h][q] = f[q])
Settled(h)   == Listed(h, trusted[h])

\* A hub enforces and lists a peer, so that it may be armed towards it.
Secured(h, p) == required[h] /\ trusted[h][p] # NoKey /\ list[h][p] # NoKey
Enforced(h)   == \A p \in cons[h] : Secured(h, p)

\* Stages of a call: the list is being written, a grant may still be taken back,
\* and the grant has been taken back but the list not yet rewritten.
Writing      == {"snapshot", "temp", "append", "move", "load"}
Granting(k)  == \/ k.at \in {"require", "autharm", "restore"}
                \/ k.at \in Writing /\ k.why = "grant"
Rewriting(k) == k.at \in Writing /\ k.why = "rollback"
Withdrawn(k) == \/ k.at = "untrust"
                \/ k.at \in Writing /\ k.why = "withdraw"
Before(k)    == [trusted[k.hub] EXCEPT ![k.peer] = k.prev]

\* Whom a call is about.
Placed(k) ==
  /\ k.hub \in Hubs /\ k.peer \in Names /\ k.peer # k.hub /\ k.key \in Keys
  /\ k.op = "link" => k.peer \in Hubs
  /\ k.at \in {"trusts", "listen", "untrust"} \/ Withdrawn(k) => k.op = "link"
  /\ k.at \in {"listen", "arm"} /\ k.op = "link" => k.second
  /\ k.at = "restore" => k.why # "withdraw"
  /\ k.at = "refused" => k.op = "connect"

\* What the files hold while the list is written.
FileStage(k) ==
  /\ k.at \in Writing \ {"snapshot"} => k.snap = trusted[k.hub]
  /\ k.at = "append" => temp[k.hub] = NoFile
  /\ k.at = "move" => temp[k.hub] \in {NoFile, k.snap}
  /\ k.at = "load" => file[k.hub] = k.snap

\* What the kernel lists.
ListStage(k) ==
  /\ k.at \in Writing \cup {"restore"} /\ k.why = "grant" => Listed(k.hub, Before(k))
  /\ k.at \in {"require", "autharm"} => list[k.hub] = trusted[k.hub]
  /\ k.at \in {"arm", "refused"} /\ k.op = "connect" => list[k.hub] = trusted[k.hub]
  /\ k.at # "restore" /\ ~Rewriting(k) /\ ~(k.at \in Writing /\ k.why = "grant") => Settled(k.hub)
  /\ k.op = "link" => Settled(k.peer)

\* What a Listen or Connect found.
FoundStage(k) ==
  k.op = "connect" =>
    /\ Granting(k) => Before(k) = k.found
    /\ Rewriting(k) \/ k.at \in {"grant", "relinquish", "failed"} => trusted[k.hub] = k.found
    /\ k.at \in {"arm", "refused"} => trusted[k.hub] = [k.found EXCEPT ![k.peer] = k.key]

\* What may be armed meanwhile.
ArmStage(k) ==
  /\ Granting(k) => /\ trusted[k.hub][k.peer] = k.key
                    /\ k.peer \in cons[k.hub] => k.prev # NoKey
  /\ (Granting(k) \/ Rewriting(k)) => (k.first => cons[k.hub] = {})
  /\ k.at = "relinquish" => cons[k.hub] = {}
  /\ k.op = "link" /\ k.at # "arm" => k.peer \notin cons[k.hub] /\ k.hub \notin cons[k.peer]
  /\ k.op = "link" /\ k.second /\ ~Withdrawn(k) => Secured(k.peer, k.hub)
  /\ k.at \in {"listen", "arm", "refused"} => Secured(k.hub, k.peer)

Stage(k) == Placed(k) /\ FileStage(k) /\ ListStage(k) /\ FoundStage(k) /\ ArmStage(k)

\* Calls on one hub come one at a time.
Apart ==
  \A t, u \in Threads : t # u /\ call[t].at # "idle" /\ call[u].at # "idle" =>
    Touches(call[t]) \cap Touches(call[u]) = {}

Stages   == \A t \in Threads : \A k \in Call : call[t] = k /\ k.at # "idle" => Stage(k)
HubInv   == \A h \in Hubs : Enforced(h) /\ (~Busy(h) => Settled(h))

Inv == TypeOK /\ Apart /\ Stages /\ HubInv

-----------------------------------------------------------------------------
(* Types *)

\* A record keeps its type under the updates the steps make.
LEMMA NoCallType == NoCall \in Call /\ Nothing \in Trusting /\ NoCall.at = "idle"
BY KeyAssumption, NameAssumption DEF NoCall, Call, Nothing, Trusting, Steps, Names

LEMMA TypeInit == Init => TypeOK
BY NoCallType, NameAssumption DEF Init, TypeOK, Trusting

\* Advancing a call.
LEMMA GotoFields ==
  ASSUME call \in [Threads -> Call], NEW t \in Threads, NEW s \in Steps, Goto(t, s)
  PROVE  /\ call' \in [Threads -> Call]
         /\ \A u \in Threads \ {t} : call'[u] = call[u]
         /\ call'[t] = [call[t] EXCEPT !.at = s]
BY DEF Goto, Call

\* Returning.
LEMMA ReturnFields ==
  ASSUME TypeOK, NEW t \in Threads, Return(t)
  PROVE  /\ call' \in [Threads -> Call]
         /\ \A u \in Threads \ {t} : call'[u] = call[u]
         /\ call'[t] = NoCall
         /\ linking' \in Threads \cup {Nobody}
BY NoCallType DEF Return, TypeOK

LEMMA AfterWriteFields ==
  ASSUME TypeOK, NEW t \in Threads, NEW ok \in BOOLEAN, AfterWrite(t, ok)
  PROVE  /\ call' \in [Threads -> Call] /\ linking' \in Threads \cup {Nobody}
         /\ \A u \in Threads \ {t} : call'[u] = call[u]
         /\ call[t].why = "grant" => call'[t] = [call[t] EXCEPT !.at = IF ok THEN "require" ELSE "restore"]
         /\ call[t].why = "rollback" =>
               call'[t] = [call[t] EXCEPT !.at = IF call[t].first THEN "relinquish" ELSE "failed"]
         /\ call[t].why = "withdraw" => call'[t] = NoCall
<1>0. call \in [Threads -> Call] /\ linking \in Threads \cup {Nobody}
      /\ call[t].why \in {"grant", "rollback", "withdraw"}
  BY DEF TypeOK, Call
<1>1. CASE call[t].why = "grant"
  <2>1. Goto(t, IF ok THEN "require" ELSE "restore") /\ UNCHANGED linking
    BY <1>1 DEF AfterWrite
  <2>2. (IF ok THEN "require" ELSE "restore") \in Steps
    BY DEF Steps
  <2> QED BY <1>0, <1>1, <2>1, <2>2, GotoFields
<1>2. CASE call[t].why = "rollback"
  <2>1. Goto(t, IF call[t].first THEN "relinquish" ELSE "failed") /\ UNCHANGED linking
    BY <1>2 DEF AfterWrite
  <2>2. (IF call[t].first THEN "relinquish" ELSE "failed") \in Steps
    BY DEF Steps
  <2> QED BY <1>0, <1>2, <2>1, <2>2, GotoFields
<1>3. CASE call[t].why = "withdraw"
  BY <1>0, <1>3, ReturnFields DEF AfterWrite
<1> QED BY <1>0, <1>1, <1>2, <1>3

-----------------------------------------------------------------------------
(* What every step owes *)

\* A hub no step touches.
Same(g) ==
  /\ trusted'[g] = trusted[g] /\ temp'[g] = temp[g] /\ file'[g] = file[g]
  /\ list'[g] = list[g] /\ required'[g] = required[g] /\ cons'[g] = cons[g]
  /\ g \in unsaved' <=> g \in unsaved

\* A step of a call touches its own hubs, leaves each enforced and, when the
\* call is over, settled.
StepOK(t) ==
  /\ \A u \in Threads \ {t} : call'[u] = call[u]
  /\ \A g \in Hubs \ Touches(call[t]) : Same(g)
  /\ \A g \in Touches(call[t]) : Enforced(g)'
  /\ \/ call'[t].at = "idle" /\ \A g \in Touches(call[t]) : Settled(g)'
     \/ /\ call'[t].at # "idle" /\ Touches(call'[t]) = Touches(call[t])
        /\ \A l \in Call : l = call'[t] => Stage(l)'

LEMMA SameKeeps ==
  ASSUME NEW g \in Hubs, Same(g)
  PROVE  /\ Settled(g) => Settled(g)'
         /\ Enforced(g) => Enforced(g)'
         /\ \A q \in Names : Secured(g, q) => Secured(g, q)'
BY DEF Same, Settled, Listed, Enforced, Secured

\* What a call knows when its next step begins.
LEMMA Knows ==
  ASSUME Inv, NEW t \in Threads, NEW k \in Call, k = call[t], k.at # "idle"
  PROVE  /\ Stage(k) /\ k.hub \in Hubs /\ k.peer \in Names /\ k.peer # k.hub /\ k.key \in Keys
         /\ Touches(k) \subseteq Hubs /\ k.hub \in Touches(k)
         /\ \A g \in Touches(k) : Enforced(g)
         /\ k.op = "link" => k.peer \in Touches(k) /\ Settled(k.peer)
         /\ k.op # "link" => Touches(k) = {k.hub}
BY DEF Inv, Stages, Stage, Placed, Touches, HubInv, ListStage

\* A step that touches the hub the call is about, and no other.
LEMMA LocalStep ==
  ASSUME Inv, NEW t \in Threads, NEW k \in Call, NEW l \in Call,
         k = call[t], l = call'[t], k.at # "idle", l.at # "idle",
         l.op = k.op, l.hub = k.hub, l.peer = k.peer,
         \A u \in Threads \ {t} : call'[u] = call[u],
         \A g \in Hubs \ {k.hub} : Same(g),
         Enforced(k.hub)', Stage(l)'
  PROVE  StepOK(t)
<1>1. \A g \in Touches(k) : Enforced(g)'
  BY Knows, SameKeeps
<1>2. Touches(l) = Touches(k)
  BY DEF Touches
<1>3. \A m \in Call : m = call'[t] => Stage(m)'
  OBVIOUS
<1>4. \A g \in Hubs \ Touches(call[t]) : Same(g)
  BY Knows
<1> QED BY <1>1, <1>2, <1>3, <1>4 DEF StepOK

\* A step that ends the call, touching no hub but its own.
LEMMA LastStep ==
  ASSUME Inv, NEW t \in Threads, NEW k \in Call,
         k = call[t], k.at # "idle", call'[t].at = "idle",
         \A u \in Threads \ {t} : call'[u] = call[u],
         \A g \in Hubs \ {k.hub} : Same(g),
         Enforced(k.hub)', Settled(k.hub)'
  PROVE  StepOK(t)
<1>1. \A g \in Touches(k) : Enforced(g)' /\ Settled(g)'
  BY Knows, SameKeeps DEF Touches
<1>2. \A g \in Hubs \ Touches(call[t]) : Same(g)
  BY Knows
<1> QED BY <1>1, <1>2 DEF StepOK

-----------------------------------------------------------------------------
(* The steps of a call *)

\* What a step keeps of a call when it only goes on to the next stage.
Carries(l, k) ==
  /\ l.op = k.op /\ l.hub = k.hub /\ l.peer = k.peer /\ l.key = k.key /\ l.second = k.second
  /\ l.found = k.found
Keeps(l, k) ==
  Carries(l, k) /\ l.first = k.first /\ l.prev = k.prev /\ l.why = k.why /\ l.snap = k.snap

LEMMA GoneOn ==
  ASSUME NEW k \in Call, NEW s \in Steps, NEW l, l = [k EXCEPT !.at = s]
  PROVE  l \in Call /\ l.at = s /\ Keeps(l, k)
BY DEF Call, Keeps, Carries

LEMMA GoneOnKnowing ==
  ASSUME NEW k \in Call, NEW b \in BOOLEAN, NEW l, l = [k EXCEPT !.at = "grant", !.already = b]
  PROVE  l \in Call /\ l.at = "grant" /\ Keeps(l, k)
BY DEF Call, Steps, Keeps, Carries

\* The call as Grant leaves it.
Granted(k, f, v) == [k EXCEPT !.at = "snapshot", !.why = "grant", !.first = f, !.prev = v]

LEMMA GoneOnGranted ==
  ASSUME NEW k \in Call, NEW f \in BOOLEAN, NEW v \in Keys \cup {NoKey}
  PROVE  LET l == Granted(k, f, v) IN
         /\ l \in Call /\ l.at = "snapshot" /\ l.why = "grant" /\ l.first = f /\ l.prev = v
         /\ Carries(l, k)
<1> PICK l : l = [k EXCEPT !.at = "snapshot", !.why = "grant", !.first = f, !.prev = v]
  OBVIOUS
<1>1. /\ l \in Call /\ l.at = "snapshot" /\ l.why = "grant" /\ l.first = f /\ l.prev = v
      /\ Carries(l, k)
  BY DEF Call, Steps, Carries
<1>2. l = Granted(k, f, v)
  BY DEF Granted
<1> QED BY <1>1, <1>2

\* Link looks whether the first hub trusts the second already.
LEMMA ReadTrustsOK ==
  ASSUME Inv, NEW t \in Threads, NEW k \in Call, k = call[t], ReadTrusts(t)
  PROVE  TypeOK' /\ StepOK(t)
<1>0. /\ TypeOK /\ k.at = "trusts" /\ Stage(k)
      /\ k.hub \in Hubs /\ k.peer \in Names /\ k.peer # k.hub /\ k.key \in Keys
      /\ call \in [Threads -> Call]
      /\ Enforced(k.hub)
  BY Knows DEF ReadTrusts, At, Inv, TypeOK
<1>1. /\ call' = [call EXCEPT ![t] = [k EXCEPT !.at = "grant", !.already = (trusted[k.hub][k.peer] # NoKey)]]
      /\ UNCHANGED <<trusted, files, required, cons, linking, unsaved>>
  BY <1>0 DEF ReadTrusts
<1>a. (trusted[k.hub][k.peer] # NoKey) \in BOOLEAN
  OBVIOUS
<1>2. PICK l \in Call : /\ l = [k EXCEPT !.at = "grant", !.already = (trusted[k.hub][k.peer] # NoKey)]
                        /\ l.at = "grant" /\ Keeps(l, k)
  BY <1>a, GoneOnKnowing
<1>3. /\ call' \in [Threads -> Call] /\ l = call'[t]
      /\ \A u \in Threads \ {t} : call'[u] = call[u]
  BY <1>0, <1>1, <1>2
<1>4. TypeOK'
  BY <1>0, <1>1, <1>3 DEF TypeOK, files
<1>5. \A g \in Hubs : Same(g)
  BY <1>1 DEF Same, files
<1>6. Stage(l)'
  BY <1>0, <1>1, <1>2 DEF Stage, Placed, FileStage, ListStage, FoundStage, ArmStage, Granting,
    Rewriting, Withdrawn, Writing, Settled, Listed, Secured, files, Keeps, Carries
<1> QED BY <1>0, <1>2, <1>3, <1>4, <1>5, <1>6, SameKeeps, LocalStep DEF Keeps, Carries

\* The grant: what was there before is remembered.
LEMMA GrantOK ==
  ASSUME Inv, NEW t \in Threads, NEW k \in Call, k = call[t], Grant(t)
  PROVE  TypeOK' /\ StepOK(t)
<1>0. /\ TypeOK /\ k.at = "grant" /\ Stage(k)
      /\ k.hub \in Hubs /\ k.peer \in Names /\ k.peer # k.hub /\ k.key \in Keys
      /\ call \in [Threads -> Call]
      /\ Enforced(k.hub)
  BY Knows DEF Grant, At, Inv, TypeOK
<1>a. trusted \in [Hubs -> [Names -> Keys \cup {NoKey}]] /\ trusted[k.hub] \in [Names -> Keys \cup {NoKey}]
  BY <1>0 DEF TypeOK, Trusting
<1>b. PICK fst \in BOOLEAN : fst = (trusted[k.hub] = Nothing)
  OBVIOUS
<1>c. PICK prv \in Keys \cup {NoKey} : prv = trusted[k.hub][k.peer]
  BY <1>0, <1>a
<1> DEFINE new == Granted(k, fst, prv)
<1>1. /\ call' = [call EXCEPT ![t] = new]
      /\ trusted' = [trusted EXCEPT ![k.hub][k.peer] = k.key]
      /\ UNCHANGED <<files, required, cons, linking, unsaved>>
  BY <1>0, <1>b, <1>c DEF Grant, Granted
<1>d. PICK l : l = new
  OBVIOUS
<1>2. /\ l \in Call /\ l = new
      /\ l.at = "snapshot" /\ l.why = "grant" /\ l.first = fst /\ l.prev = prv
      /\ Carries(l, k)
  <2>1. fst \in BOOLEAN /\ prv \in Keys \cup {NoKey}
    BY <1>b, <1>c
  <2>2. /\ new \in Call /\ new.at = "snapshot" /\ new.why = "grant" /\ new.first = fst
        /\ new.prev = prv /\ Carries(new, k)
    BY <2>1, GoneOnGranted
  <2> HIDE DEF new
  <2> QED BY <1>d, <2>2
<1>3. /\ call' \in [Threads -> Call] /\ l = call'[t]
      /\ \A u \in Threads \ {t} : call'[u] = call[u]
  BY <1>0, <1>1, <1>2
<1>4. /\ trusted' \in [Hubs -> Trusting]
      /\ trusted'[k.hub][k.peer] = k.key /\ k.key # NoKey
      /\ \A q \in Names \ {k.peer} : trusted'[k.hub][q] = trusted[k.hub][q]
      /\ \A g \in Hubs \ {k.hub} : trusted'[g] = trusted[g]
      /\ [trusted'[k.hub] EXCEPT ![k.peer] = prv] = trusted[k.hub]
  BY <1>0, <1>1, <1>a, <1>c, KeyAssumption DEF Trusting
<1>5. TypeOK'
  BY <1>0, <1>1, <1>3, <1>4 DEF TypeOK, files
<1>6. \A g \in Hubs \ {k.hub} : Same(g)
  BY <1>1, <1>4 DEF Same, files
<1>7. Enforced(k.hub)' /\ cons[k.hub] \subseteq Names
  BY <1>0, <1>1, <1>4 DEF Enforced, Secured, files, TypeOK
<1>8. fst => cons[k.hub] = {}
  BY <1>0, <1>7, <1>b DEF Enforced, Secured, Nothing
<1>9. k.peer \in cons[k.hub] => prv # NoKey
  BY <1>0, <1>c DEF Enforced, Secured
<1> HIDE DEF new
<1>10. Placed(l)' /\ FileStage(l)'
  BY <1>0, <1>2 DEF Stage, Placed, FileStage, Carries, Writing, Withdrawn
<1>11. Before(l)' = trusted[k.hub]
  BY <1>2, <1>4 DEF Before, Carries
<1>12. ListStage(l)'
  <2>1. Settled(k.hub) /\ (k.op = "link" => Settled(k.peer) /\ k.peer \in Hubs)
    BY <1>0 DEF Stage, ListStage, Placed, Rewriting, Writing
  <2>2. Listed(l.hub, Before(l))'
    BY <1>1, <1>2, <1>11, <2>1 DEF Settled, Listed, files, Carries
  <2>3. l.op = "link" => Settled(l.peer)'
    BY <1>0, <1>2, <1>6, <2>1, SameKeeps DEF Carries
  <2> QED BY <1>2, <2>2, <2>3 DEF ListStage, Rewriting, Writing
<1>13. FoundStage(l)'
  BY <1>0, <1>2, <1>11 DEF Stage, FoundStage, Granting, Rewriting, Writing, Carries
<1>14. ArmStage(l)'
  <2>1. Granting(l) /\ ~Rewriting(l) /\ ~Withdrawn(l) /\ ~Withdrawn(k)
    BY <1>0, <1>2 DEF Granting, Rewriting, Withdrawn, Writing
  <2>2. l.op = "link" => k.peer \notin cons[k.hub] /\ k.hub \notin cons[k.peer]
    BY <1>0, <1>2 DEF Stage, ArmStage, Carries
  <2>3. l.op = "link" /\ l.second => Secured(k.peer, k.hub)'
    BY <1>0, <1>2, <1>6, <2>1, SameKeeps DEF Stage, Placed, ArmStage, Carries, Names
  <2> QED BY <1>1, <1>2, <1>4, <1>8, <1>9, <2>1, <2>2, <2>3 DEF ArmStage, Carries
<1>15. Stage(l)'
  BY <1>10, <1>12, <1>13, <1>14 DEF Stage
<1> QED BY <1>0, <1>2, <1>3, <1>5, <1>6, <1>7, <1>15, LocalStep DEF Carries

-----------------------------------------------------------------------------
(* Writing the list *)

\* While the list is written, only what the files hold changes.
LEMMA WritesOn ==
  ASSUME NEW k \in Call, NEW l \in Call, k.at \in Writing, l.at \in Writing,
         Carries(l, k), l.first = k.first, l.prev = k.prev, l.why = k.why, Stage(k),
         UNCHANGED <<trusted, list, required, cons, unsaved>>
  PROVE  Placed(l)' /\ ListStage(l)' /\ FoundStage(l)' /\ ArmStage(l)'
<1>1. /\ Granting(l) <=> Granting(k)
      /\ Rewriting(l) <=> Rewriting(k)
      /\ Withdrawn(l) <=> Withdrawn(k)
  BY DEF Granting, Rewriting, Withdrawn, Writing
<1>2. Before(l)' = Before(k)
  BY DEF Before, Carries
<1>3. Placed(l)'
  BY <1>1 DEF Stage, Placed, Carries, Writing
<1>4. ListStage(l)'
  BY <1>1, <1>2 DEF Stage, ListStage, Settled, Listed, Carries, Writing
<1>5. FoundStage(l)'
  BY <1>1, <1>2 DEF Stage, FoundStage, Carries, Writing
<1>6. ArmStage(l)'
  BY <1>1 DEF Stage, ArmStage, Secured, Carries, Writing
<1> QED BY <1>3, <1>4, <1>5, <1>6

\* The call with the list it is going to write.
Snapped(k, f) == [k EXCEPT !.at = "temp", !.snap = f]

LEMMA GoneOnSnapped ==
  ASSUME NEW k \in Call, NEW f \in Trusting
  PROVE  /\ Snapped(k, f) \in Call /\ Snapped(k, f).at = "temp" /\ Snapped(k, f).snap = f
         /\ Snapped(k, f).first = k.first /\ Snapped(k, f).prev = k.prev
         /\ Snapped(k, f).why = k.why /\ Carries(Snapped(k, f), k)
BY DEF Call, Steps, Carries, Snapped

\* The list is to be what the hub trusts.
LEMMA SnapshotOK ==
  ASSUME Inv, NEW t \in Threads, NEW k \in Call, k = call[t], Snapshot(t)
  PROVE  TypeOK' /\ StepOK(t)
<1>0. /\ TypeOK /\ k.at = "snapshot" /\ Stage(k)
      /\ k.hub \in Hubs /\ k.peer \in Names /\ k.peer # k.hub /\ k.key \in Keys
      /\ call \in [Threads -> Call]
      /\ Enforced(k.hub)
  BY Knows DEF Snapshot, At, Inv, TypeOK
<1>1. /\ call' = [call EXCEPT ![t] = Snapped(k, trusted[k.hub])]
      /\ UNCHANGED <<trusted, files, required, cons, linking, unsaved>>
  BY <1>0 DEF Snapshot, Snapped
<1>a. trusted[k.hub] \in Trusting
  BY <1>0 DEF TypeOK
<1>2. PICK l \in Call :
         /\ l = Snapped(k, trusted[k.hub]) /\ l.at = "temp" /\ l.snap = trusted[k.hub]
         /\ l.first = k.first /\ l.prev = k.prev /\ l.why = k.why /\ Carries(l, k)
  BY <1>a, GoneOnSnapped
<1>3. /\ call' \in [Threads -> Call] /\ l = call'[t]
      /\ \A u \in Threads \ {t} : call'[u] = call[u]
  BY <1>0, <1>1, <1>2
<1>4. TypeOK'
  BY <1>0, <1>1, <1>3 DEF TypeOK, files
<1>5. \A g \in Hubs : Same(g)
  BY <1>1 DEF Same, files
<1>6. FileStage(l)'
  BY <1>1, <1>2 DEF FileStage, Carries
<1>7. k.at \in Writing /\ l.at \in Writing
  BY <1>0, <1>2 DEF Writing
<1>8. Placed(l)' /\ ListStage(l)' /\ FoundStage(l)' /\ ArmStage(l)'
  BY <1>0, <1>1, <1>2, <1>7, WritesOn DEF files
<1>9. Stage(l)'
  BY <1>6, <1>8 DEF Stage
<1> QED BY <1>0, <1>2, <1>3, <1>4, <1>5, <1>9, SameKeeps, LocalStep DEF Carries

\* A file left over is deleted.
LEMMA DeleteTempOK ==
  ASSUME Inv, NEW t \in Threads, NEW k \in Call, k = call[t], DeleteTemp(t)
  PROVE  TypeOK' /\ StepOK(t)
<1>0. /\ TypeOK /\ k.at = "temp" /\ Stage(k)
      /\ k.hub \in Hubs /\ k.peer \in Names /\ k.peer # k.hub /\ k.key \in Keys
      /\ call \in [Threads -> Call]
      /\ Enforced(k.hub)
  BY Knows DEF DeleteTemp, At, Inv, TypeOK
<1>1. Goto(t, "append")
  BY DEF DeleteTemp
<1>2. /\ call' \in [Threads -> Call] /\ \A u \in Threads \ {t} : call'[u] = call[u]
      /\ call'[t] = [k EXCEPT !.at = "append"]
  BY <1>0, <1>1, GotoFields DEF Steps
<1>3. PICK l \in Call : l = call'[t] /\ l.at = "append" /\ Keeps(l, k)
  BY <1>2, GoneOn DEF Steps
<1>4. /\ temp' = [temp EXCEPT ![k.hub] = NoFile]
      /\ UNCHANGED <<trusted, file, list, required, cons, linking, unsaved>>
  BY DEF DeleteTemp
<1>a. temp \in [Hubs -> Trusting \cup {NoFile}]
  BY <1>0 DEF TypeOK
<1>5. TypeOK'
  BY <1>0, <1>2, <1>4, <1>a DEF TypeOK
<1>6. (\A g \in Hubs \ {k.hub} : Same(g)) /\ Enforced(k.hub)'
  BY <1>0, <1>4, <1>a DEF Same, Enforced, Secured
<1>7. FileStage(l)'
  BY <1>0, <1>3, <1>4, <1>a DEF Stage, FileStage, Keeps, Carries, Writing
<1>8. k.at \in Writing /\ l.at \in Writing
  BY <1>0, <1>3 DEF Writing
<1>9. Placed(l)' /\ ListStage(l)' /\ FoundStage(l)' /\ ArmStage(l)'
  BY <1>0, <1>3, <1>4, <1>8, WritesOn DEF Keeps
<1>10. Stage(l)'
  BY <1>7, <1>9 DEF Stage
<1> QED BY <1>0, <1>2, <1>3, <1>5, <1>6, <1>10, LocalStep DEF Keeps, Carries

\* A list that cannot be written: a grant goes on to take itself back, a roll-back
\* leaves the list unsaved, and what is withdrawn stays listed.
LEMMA FailedWrite ==
  ASSUME Inv, NEW t \in Threads, NEW k \in Call, k = call[t],
         k.at \in {"append", "move", "load"}, WriteFails(t),
         UNCHANGED <<trusted, list, required, cons>>,
         \A g \in Hubs \ {k.hub} : temp'[g] = temp[g] /\ file'[g] = file[g]
  PROVE  /\ call' \in [Threads -> Call] /\ linking' \in Threads \cup {Nobody}
         /\ unsaved' \subseteq Hubs /\ StepOK(t)
<1>0. /\ TypeOK /\ Stage(k) /\ k.hub \in Hubs /\ k.peer \in Names /\ k.peer # k.hub
      /\ Enforced(k.hub) /\ k.why \in {"grant", "rollback", "withdraw"} /\ k.at # "idle"
      /\ k.at \in Writing /\ unsaved \subseteq Hubs /\ call \in [Threads -> Call]
  BY Knows DEF Inv, TypeOK, Call, Writing
<1>1. /\ AfterWrite(t, FALSE)
      /\ unsaved' = IF k.why = "rollback" THEN unsaved \cup {k.hub} ELSE unsaved
  BY DEF WriteFails
<1>2. /\ call' \in [Threads -> Call] /\ linking' \in Threads \cup {Nobody}
      /\ \A u \in Threads \ {t} : call'[u] = call[u]
      /\ k.why = "grant" => call'[t] = [k EXCEPT !.at = "restore"]
      /\ k.why = "rollback" => call'[t] = [k EXCEPT !.at = IF k.first THEN "relinquish" ELSE "failed"]
      /\ k.why = "withdraw" => call'[t] = NoCall
  BY <1>0, <1>1, AfterWriteFields
<1>3. (\A g \in Hubs \ {k.hub} : Same(g)) /\ Enforced(k.hub)'
  BY <1>0, <1>1 DEF Same, Enforced, Secured
<1>4. CASE k.why = "grant"
  <2>1. PICK l \in Call : l = call'[t] /\ l.at = "restore" /\ Keeps(l, k)
    BY <1>2, <1>4, GoneOn DEF Steps
  <2>2. /\ Granting(l) /\ Granting(k) /\ ~Rewriting(l) /\ ~Withdrawn(l) /\ ~Withdrawn(k)
        /\ unsaved' = unsaved
    BY <1>0, <1>1, <1>4, <2>1 DEF Granting, Rewriting, Withdrawn, Writing, Keeps
  <2>3. Before(l)' = Before(k)
    BY <2>1 DEF Before, Keeps, Carries
  <2>4. Placed(l)' /\ FileStage(l)'
    BY <1>0, <1>4, <2>1, <2>2 DEF Stage, Placed, FileStage, Keeps, Carries, Writing
  <2>5. ListStage(l)'
    BY <1>0, <1>4, <2>1, <2>2, <2>3 DEF Stage, ListStage, Settled, Listed, Keeps, Carries, Writing
  <2>6. FoundStage(l)'
    BY <1>0, <2>1, <2>2, <2>3 DEF Stage, FoundStage, Keeps, Carries
  <2>7. ArmStage(l)'
    BY <1>0, <2>1, <2>2 DEF Stage, ArmStage, Secured, Keeps, Carries, Writing
  <2>8. Stage(l)'
    BY <2>4, <2>5, <2>6, <2>7 DEF Stage
  <2>9. StepOK(t)
    BY <1>0, <1>2, <1>3, <2>1, <2>8, LocalStep DEF Keeps, Carries
  <2> QED BY <1>2, <2>2, <2>9, <1>0
<1>5. CASE k.why = "rollback"
  <2>1. PICK l \in Call : /\ l = call'[t] /\ l.at = (IF k.first THEN "relinquish" ELSE "failed")
                          /\ Keeps(l, k)
    <3>1. (IF k.first THEN "relinquish" ELSE "failed") \in Steps
      BY DEF Steps
    <3> QED BY <1>2, <1>5, <3>1, GoneOn
  <2>2. /\ ~Granting(l) /\ ~Granting(k) /\ ~Rewriting(l) /\ Rewriting(k)
        /\ ~Withdrawn(l) /\ ~Withdrawn(k)
        /\ k.hub \in unsaved' /\ \A g \in Hubs \ {k.hub} : g \in unsaved' <=> g \in unsaved
    BY <1>0, <1>1, <1>5, <2>1 DEF Granting, Rewriting, Withdrawn, Writing, Keeps
  <2>3. Placed(l)' /\ FileStage(l)'
    BY <1>0, <2>1, <2>2 DEF Stage, Placed, FileStage, Keeps, Carries, Writing
  <2>4. ListStage(l)'
    BY <1>0, <2>1, <2>2, <1>3, SameKeeps DEF Stage, Placed, ListStage, Settled, Listed, Keeps, Carries, Writing
  <2>5. FoundStage(l)'
    BY <1>0, <2>1, <2>2 DEF Stage, FoundStage, Keeps, Carries
  <2>6. ArmStage(l)'
    BY <1>0, <2>1, <2>2 DEF Stage, ArmStage, Secured, Keeps, Carries, Writing
  <2>7. Stage(l)' /\ l.at # "idle"
    BY <2>1, <2>3, <2>4, <2>5, <2>6 DEF Stage
  <2>8. StepOK(t)
    BY <1>0, <1>2, <1>3, <2>1, <2>7, LocalStep DEF Keeps, Carries
  <2> QED BY <1>0, <1>1, <1>2, <2>8
<1>6. CASE k.why = "withdraw"
  <2>1. call'[t].at = "idle" /\ unsaved' = unsaved
    BY <1>1, <1>2, <1>6, NoCallType
  <2>2. Settled(k.hub)'
    BY <1>0, <1>6, <2>1 DEF Stage, ListStage, Rewriting, Writing, Settled, Listed
  <2>3. StepOK(t)
    BY <1>0, <1>2, <1>3, <2>1, <2>2, LastStep
  <2> QED BY <1>0, <1>2, <2>1, <2>3
<1> QED BY <1>0, <1>4, <1>5, <1>6

\* Every line appended, or one refused.
LEMMA AppendOK ==
  ASSUME Inv, NEW t \in Threads, NEW k \in Call, k = call[t], Append(t)
  PROVE  TypeOK' /\ StepOK(t)
<1>0. /\ TypeOK /\ k.at = "append" /\ Stage(k)
      /\ k.hub \in Hubs /\ k.peer \in Names /\ k.peer # k.hub /\ k.key \in Keys
      /\ call \in [Threads -> Call]
      /\ Enforced(k.hub)
  BY Knows DEF Append, At, Inv, TypeOK
<1>1. UNCHANGED <<trusted, file, list, required, cons>>
  BY DEF Append
<1>a. temp \in [Hubs -> Trusting \cup {NoFile}] /\ trusted[k.hub] \in Trusting
  BY <1>0 DEF TypeOK
<1>2. CASE /\ temp' = [temp EXCEPT ![k.hub] = Appended(temp[k.hub], k.snap)]
           /\ Goto(t, "move") /\ UNCHANGED <<linking, unsaved>>
  <2>1. /\ call' \in [Threads -> Call] /\ \A u \in Threads \ {t} : call'[u] = call[u]
        /\ call'[t] = [k EXCEPT !.at = "move"]
    BY <1>0, <1>2, GotoFields DEF Steps
  <2>2. PICK l \in Call : l = call'[t] /\ l.at = "move" /\ Keeps(l, k)
    BY <2>1, GoneOn DEF Steps
  <2>3. temp[k.hub] = NoFile /\ k.snap = trusted[k.hub]
    BY <1>0 DEF Stage, FileStage, Writing
  <2>4. Appended(temp[k.hub], k.snap) \in {NoFile, k.snap}
    BY <2>3 DEF Appended
  <2>5. temp' \in [Hubs -> Trusting \cup {NoFile}] /\ temp'[k.hub] \in {NoFile, k.snap}
        /\ \A g \in Hubs \ {k.hub} : temp'[g] = temp[g]
    BY <1>0, <1>2, <1>a, <2>3, <2>4
  <2>6. TypeOK'
    BY <1>0, <1>1, <1>2, <2>1, <2>5 DEF TypeOK
  <2>7. (\A g \in Hubs \ {k.hub} : Same(g)) /\ Enforced(k.hub)'
    BY <1>0, <1>1, <1>2, <2>5 DEF Same, Enforced, Secured
  <2>8. FileStage(l)'
    BY <1>1, <2>2, <2>3, <2>5 DEF FileStage, Keeps, Carries
  <2>9. k.at \in Writing /\ l.at \in Writing
    BY <1>0, <2>2 DEF Writing
  <2>10. Placed(l)' /\ ListStage(l)' /\ FoundStage(l)' /\ ArmStage(l)'
    BY <1>0, <1>1, <1>2, <2>2, <2>9, WritesOn DEF Keeps
  <2>11. Stage(l)'
    BY <2>8, <2>10 DEF Stage
  <2>12. StepOK(t)
    BY <1>0, <2>1, <2>2, <2>7, <2>11, LocalStep DEF Keeps, Carries
  <2> QED BY <2>6, <2>12
<1>3. CASE /\ temp' = [temp EXCEPT ![k.hub] = NoFile] /\ WriteFails(t)
  <2>1. temp' \in [Hubs -> Trusting \cup {NoFile}] /\ \A g \in Hubs \ {k.hub} : temp'[g] = temp[g]
    BY <1>0, <1>3, <1>a
  <2>2. /\ call' \in [Threads -> Call] /\ linking' \in Threads \cup {Nobody}
        /\ unsaved' \subseteq Hubs /\ StepOK(t)
    BY <1>0, <1>1, <1>3, <2>1, FailedWrite
  <2> QED BY <1>0, <1>1, <2>1, <2>2 DEF TypeOK
<1> QED BY <1>0, <1>2, <1>3 DEF Append

\* The new file takes the place of the old one, if there is a new one.
LEMMA MoveOK ==
  ASSUME Inv, NEW t \in Threads, NEW k \in Call, k = call[t], Move(t)
  PROVE  TypeOK' /\ StepOK(t)
<1>0. /\ TypeOK /\ k.at = "move" /\ Stage(k)
      /\ k.hub \in Hubs /\ k.peer \in Names /\ k.peer # k.hub /\ k.key \in Keys
      /\ call \in [Threads -> Call]
      /\ Enforced(k.hub)
  BY Knows DEF Move, At, Inv, TypeOK
<1>1. /\ UNCHANGED <<trusted, list, required, cons>>
      /\ temp' = [temp EXCEPT ![k.hub] = NoFile]
  BY <1>0 DEF Move
<1>a. temp \in [Hubs -> Trusting \cup {NoFile}] /\ file \in [Hubs -> Trusting]
  BY <1>0 DEF TypeOK
<1>b. temp' \in [Hubs -> Trusting \cup {NoFile}] /\ \A g \in Hubs \ {k.hub} : temp'[g] = temp[g]
  BY <1>0, <1>1, <1>a
<1>2. CASE /\ temp[k.hub] # NoFile /\ file' = [file EXCEPT ![k.hub] = temp[k.hub]]
           /\ Goto(t, "load") /\ UNCHANGED <<linking, unsaved>>
  <2>1. /\ call' \in [Threads -> Call] /\ \A u \in Threads \ {t} : call'[u] = call[u]
        /\ call'[t] = [k EXCEPT !.at = "load"]
    BY <1>0, <1>2, GotoFields DEF Steps
  <2>2. PICK l \in Call : l = call'[t] /\ l.at = "load" /\ Keeps(l, k)
    BY <2>1, GoneOn DEF Steps
  <2>3. temp[k.hub] = k.snap /\ k.snap = trusted[k.hub]
    BY <1>0, <1>2 DEF Stage, FileStage, Writing
  <2>5. file' \in [Hubs -> Trusting] /\ file'[k.hub] = k.snap
        /\ \A g \in Hubs \ {k.hub} : file'[g] = file[g]
    BY <1>0, <1>2, <1>a, <2>3
  <2>6. TypeOK'
    BY <1>0, <1>1, <1>2, <1>b, <2>1, <2>5 DEF TypeOK
  <2>7. (\A g \in Hubs \ {k.hub} : Same(g)) /\ Enforced(k.hub)'
    BY <1>0, <1>1, <1>2, <1>b, <2>5 DEF Same, Enforced, Secured
  <2>8. FileStage(l)'
    BY <1>1, <2>2, <2>3, <2>5 DEF FileStage, Keeps, Carries
  <2>9. k.at \in Writing /\ l.at \in Writing
    BY <1>0, <2>2 DEF Writing
  <2>10. Placed(l)' /\ ListStage(l)' /\ FoundStage(l)' /\ ArmStage(l)'
    BY <1>0, <1>1, <1>2, <2>2, <2>9, WritesOn DEF Keeps
  <2>11. Stage(l)'
    BY <2>8, <2>10 DEF Stage
  <2>12. StepOK(t)
    BY <1>0, <2>1, <2>2, <2>7, <2>11, LocalStep DEF Keeps, Carries
  <2> QED BY <2>6, <2>12
<1>3. CASE WriteFails(t) /\ UNCHANGED file
  <2>2. /\ call' \in [Threads -> Call] /\ linking' \in Threads \cup {Nobody}
        /\ unsaved' \subseteq Hubs /\ StepOK(t)
    BY <1>0, <1>1, <1>3, <1>b, FailedWrite
  <2> QED BY <1>0, <1>1, <1>3, <1>b, <2>2 DEF TypeOK
<1> QED BY <1>0, <1>2, <1>3 DEF Move

\* The kernel loads the file, or keeps the list it has.
LEMMA LoadOK ==
  ASSUME Inv, NEW t \in Threads, NEW k \in Call, k = call[t], Load(t)
  PROVE  TypeOK' /\ StepOK(t)
<1>0. /\ TypeOK /\ k.at = "load" /\ Stage(k)
      /\ k.hub \in Hubs /\ k.peer \in Names /\ k.peer # k.hub /\ k.key \in Keys
      /\ call \in [Threads -> Call]
      /\ Enforced(k.hub)
  BY Knows DEF Load, At, Inv, TypeOK
<1>1. /\ UNCHANGED <<trusted, temp, file, required, cons>>
  BY DEF Load
<1>a. list \in [Hubs -> Trusting] /\ file[k.hub] \in Trusting /\ unsaved \subseteq Hubs
      /\ k.why \in {"grant", "rollback", "withdraw"}
  BY <1>0 DEF TypeOK, Call
<1>2. CASE /\ list' = [list EXCEPT ![k.hub] = file[k.hub]] /\ unsaved' = unsaved \ {k.hub}
           /\ AfterWrite(t, TRUE)
  <2>1. /\ call' \in [Threads -> Call] /\ linking' \in Threads \cup {Nobody}
        /\ \A u \in Threads \ {t} : call'[u] = call[u]
        /\ k.why = "grant" => call'[t] = [k EXCEPT !.at = "require"]
        /\ k.why = "rollback" => call'[t] = [k EXCEPT !.at = IF k.first THEN "relinquish" ELSE "failed"]
        /\ k.why = "withdraw" => call'[t] = NoCall
    BY <1>0, <1>2, AfterWriteFields
  <2>2. /\ list' \in [Hubs -> Trusting] /\ list'[k.hub] = trusted'[k.hub]
        /\ \A g \in Hubs \ {k.hub} : list'[g] = list[g]
    BY <1>0, <1>1, <1>2, <1>a DEF Stage, FileStage, Writing
  <2>3. TypeOK'
    BY <1>0, <1>1, <1>2, <1>a, <2>1, <2>2 DEF TypeOK
  <2>4. (\A g \in Hubs \ {k.hub} : Same(g)) /\ Settled(k.hub)' /\ Enforced(k.hub)'
    BY <1>0, <1>1, <1>2, <2>2 DEF Same, Enforced, Secured, Settled, Listed
  <2>a. (\A g \in Hubs \ {k.hub} : Same(g)) /\ (\A u \in Threads \ {t} : call'[u] = call[u])
    BY <2>1, <2>4
  <2>b. Settled(k.hub)' /\ Enforced(k.hub)' /\ k.at # "idle"
    BY <1>0, <2>4
  <2>5. k.op = "link" => Settled(k.peer)'
    BY <1>0, <2>4, SameKeeps DEF Stage, Placed, ListStage
  <2>6. k.op = "link" /\ k.second /\ ~Withdrawn(k) => Secured(k.peer, k.hub)'
    BY <1>0, <2>4, SameKeeps DEF Stage, Placed, ArmStage, Names
  <2>7. CASE k.why = "grant"
    <3>1. PICK l \in Call : l = call'[t] /\ l.at = "require" /\ Keeps(l, k)
      BY <2>1, <2>7, GoneOn DEF Steps
    <3>2. /\ Granting(l) /\ Granting(k) /\ ~Rewriting(l) /\ ~Withdrawn(l) /\ ~Withdrawn(k)
      BY <1>0, <2>7, <3>1 DEF Granting, Rewriting, Withdrawn, Writing, Keeps
    <3>3. Before(l)' = Before(k)
      BY <1>1, <3>1 DEF Before, Keeps, Carries
    <3>4. Placed(l)' /\ FileStage(l)'
      BY <1>0, <3>1, <3>2 DEF Stage, Placed, FileStage, Keeps, Carries, Writing
    <3>5. ListStage(l)'
      BY <1>1, <2>2, <2>4, <2>5, <3>1, <3>2 DEF ListStage, Keeps, Carries, Writing
    <3>6. FoundStage(l)'
      BY <1>0, <1>1, <3>1, <3>2, <3>3 DEF Stage, FoundStage, Keeps, Carries
    <3>7. ArmStage(l)'
      BY <1>0, <1>1, <2>6, <3>1, <3>2 DEF Stage, ArmStage, Keeps, Carries, Writing
    <3>8. Stage(l)'
      BY <3>4, <3>5, <3>6, <3>7 DEF Stage
    <3> QED BY <1>0, <2>3, <2>a, <2>b, <3>1, <3>8, LocalStep DEF Keeps, Carries
  <2>8. CASE k.why = "rollback"
    <3>1. PICK l \in Call : /\ l = call'[t] /\ l.at = (IF k.first THEN "relinquish" ELSE "failed")
                            /\ Keeps(l, k)
      <4>1. (IF k.first THEN "relinquish" ELSE "failed") \in Steps
        BY DEF Steps
      <4> QED BY <2>1, <2>8, <4>1, GoneOn
    <3>2. /\ ~Granting(l) /\ ~Granting(k) /\ ~Rewriting(l) /\ Rewriting(k)
          /\ ~Withdrawn(l) /\ ~Withdrawn(k)
      BY <1>0, <2>8, <3>1 DEF Granting, Rewriting, Withdrawn, Writing, Keeps
    <3>4. Placed(l)' /\ FileStage(l)'
      BY <1>0, <3>1, <3>2 DEF Stage, Placed, FileStage, Keeps, Carries, Writing
    <3>5. ListStage(l)'
      BY <1>1, <2>2, <2>4, <2>5, <3>1, <3>2 DEF ListStage, Keeps, Carries, Writing
    <3>6. FoundStage(l)'
      BY <1>0, <1>1, <3>1, <3>2 DEF Stage, FoundStage, Keeps, Carries
    <3>7. ArmStage(l)'
      BY <1>0, <1>1, <2>6, <3>1, <3>2 DEF Stage, ArmStage, Keeps, Carries, Writing
    <3>8. Stage(l)' /\ l.at # "idle"
      BY <3>1, <3>4, <3>5, <3>6, <3>7 DEF Stage
    <3> QED BY <1>0, <2>3, <2>a, <2>b, <3>1, <3>8, LocalStep DEF Keeps, Carries
  <2>9. CASE k.why = "withdraw"
    <3>1. call'[t].at = "idle"
      BY <2>1, <2>9, NoCallType
    <3> QED BY <2>3, <2>a, <2>b, <3>1, LastStep
  <2> QED BY <1>a, <2>3, <2>7, <2>8, <2>9
<1>3. CASE WriteFails(t) /\ UNCHANGED list
  <2>2. /\ call' \in [Threads -> Call] /\ linking' \in Threads \cup {Nobody}
        /\ unsaved' \subseteq Hubs /\ StepOK(t)
    BY <1>0, <1>1, <1>3, FailedWrite
  <2> QED BY <1>0, <1>1, <1>3, <2>2 DEF TypeOK
<1> QED BY <1>0, <1>2, <1>3 DEF Load

-----------------------------------------------------------------------------
(* Enforcing, and taking back *)

\* The call once the kernel has refused to arm the authentication.
Refused(k) == [k EXCEPT !.at = "restore", !.why = "rollback"]

LEMMA GoneOnRefused ==
  ASSUME NEW k \in Call
  PROVE  /\ Refused(k) \in Call /\ Refused(k).at = "restore" /\ Refused(k).why = "rollback"
         /\ Refused(k).first = k.first /\ Refused(k).prev = k.prev /\ Carries(Refused(k), k)
BY DEF Call, Steps, Carries, Refused

\* A Link on its way to its second hub.
Seconded(k) == [k EXCEPT !.at = "grant", !.second = TRUE, !.hub = k.peer, !.peer = k.hub,
                         !.key = Own[k.hub]]

LEMMA GoneOnSeconded ==
  ASSUME NEW k \in Call, k.hub \in Hubs, k.peer \in Hubs
  PROVE  LET l == Seconded(k) IN
         /\ l \in Call /\ l.at = "grant" /\ l.second /\ l.hub = k.peer /\ l.peer = k.hub
         /\ l.key \in Keys /\ l.op = k.op
<1>1. Own[k.hub] \in Keys
  BY KeyAssumption
<1> QED BY <1>1 DEF Call, Steps, Seconded, Names

\* A Link refused on its second hub, back at its first.
Untrusting(k) == [k EXCEPT !.at = "untrust", !.hub = k.peer, !.peer = k.hub]

LEMMA GoneOnUntrusting ==
  ASSUME NEW k \in Call, k.hub \in Hubs, k.peer \in Hubs
  PROVE  LET l == Untrusting(k) IN
         /\ l \in Call /\ l.at = "untrust" /\ l.hub = k.peer /\ l.peer = k.hub
         /\ l.key = k.key /\ l.op = k.op
BY DEF Call, Steps, Untrusting, Names

\* The list is to be written without a peer.
Withdrawing(k) == [k EXCEPT !.at = "snapshot", !.why = "withdraw"]

LEMMA GoneOnWithdrawing ==
  ASSUME NEW k \in Call
  PROVE  /\ Withdrawing(k) \in Call /\ Withdrawing(k).at = "snapshot"
         /\ Withdrawing(k).why = "withdraw" /\ Carries(Withdrawing(k), k)
BY DEF Call, Steps, Carries, Withdrawing


\* Enforcement is turned on.
LEMMA RequireOK ==
  ASSUME Inv, NEW t \in Threads, NEW k \in Call, k = call[t], Require(t)
  PROVE  TypeOK' /\ StepOK(t)
<1>0. /\ TypeOK /\ k.at = "require" /\ Stage(k)
      /\ k.hub \in Hubs /\ k.peer \in Names /\ k.peer # k.hub /\ k.key \in Keys
      /\ call \in [Threads -> Call]
      /\ Enforced(k.hub)
  BY Knows DEF Require, At, Inv, TypeOK
<1>1. Goto(t, "autharm")
  BY DEF Require
<1>2. /\ call' \in [Threads -> Call] /\ \A u \in Threads \ {t} : call'[u] = call[u]
      /\ call'[t] = [k EXCEPT !.at = "autharm"]
  BY <1>0, <1>1, GotoFields DEF Steps
<1>3. PICK l \in Call : l = call'[t] /\ l.at = "autharm" /\ Keeps(l, k)
  BY <1>2, GoneOn DEF Steps
<1>4. /\ required' = [required EXCEPT ![k.hub] = TRUE]
      /\ UNCHANGED <<trusted, files, cons, linking, unsaved>>
  BY <1>0 DEF Require
<1>a. required \in [Hubs -> BOOLEAN]
  BY <1>0 DEF TypeOK
<1>5. /\ required'[k.hub] /\ \A g \in Hubs \ {k.hub} : required'[g] = required[g]
      /\ required' \in [Hubs -> BOOLEAN]
  BY <1>0, <1>4, <1>a
<1>6. TypeOK'
  BY <1>0, <1>2, <1>4, <1>5 DEF TypeOK, files
<1>7. (\A g \in Hubs \ {k.hub} : Same(g)) /\ Enforced(k.hub)'
  BY <1>0, <1>4, <1>5 DEF Same, Enforced, Secured, files
<1>8. /\ Granting(l) /\ Granting(k) /\ ~Rewriting(l) /\ ~Withdrawn(l) /\ ~Withdrawn(k)
  BY <1>0, <1>3 DEF Granting, Rewriting, Withdrawn, Writing
<1>9. Before(l)' = Before(k)
  BY <1>3, <1>4 DEF Before, Keeps, Carries
<1>10. Placed(l)' /\ FileStage(l)'
  BY <1>0, <1>3, <1>8 DEF Stage, Placed, FileStage, Keeps, Carries, Writing
<1>11. ListStage(l)'
  BY <1>0, <1>3, <1>4, <1>8 DEF Stage, ListStage, Settled, Listed, Keeps, Carries, Writing, files, Rewriting
<1>12. FoundStage(l)'
  BY <1>0, <1>3, <1>8, <1>9 DEF Stage, FoundStage, Keeps, Carries
<1>13. k.op = "link" /\ k.second => Secured(k.peer, k.hub)'
  BY <1>0, <1>7, <1>8, SameKeeps DEF Stage, Placed, ArmStage, Names
<1>14. ArmStage(l)'
  BY <1>0, <1>3, <1>4, <1>8, <1>13 DEF Stage, ArmStage, Keeps, Carries, Writing
<1>15. Stage(l)'
  BY <1>10, <1>11, <1>12, <1>14 DEF Stage
<1> QED BY <1>0, <1>2, <1>3, <1>6, <1>7, <1>15, LocalStep DEF Keeps, Carries

\* The kernel arms the authentication, or refuses.
LEMMA AuthArmOK ==
  ASSUME Inv, NEW t \in Threads, NEW k \in Call, k = call[t], AuthArm(t)
  PROVE  TypeOK' /\ StepOK(t)
<1>0. /\ TypeOK /\ k.at = "autharm" /\ Stage(k)
      /\ k.hub \in Hubs /\ k.peer \in Names /\ k.peer # k.hub /\ k.key \in Keys
      /\ call \in [Threads -> Call]
      /\ Enforced(k.hub)
  BY Knows DEF AuthArm, At, Inv, TypeOK
<1>1. UNCHANGED <<trusted, temp, file, list, required, cons, linking, unsaved>>
  BY DEF AuthArm, files
<1>2. \A g \in Hubs : Same(g)
  BY <1>1 DEF Same
<1>3. /\ Granting(k) /\ ~Rewriting(k) /\ ~Withdrawn(k) /\ list[k.hub] = trusted[k.hub]
      /\ trusted[k.hub][k.peer] = k.key /\ k.key # NoKey /\ Settled(k.hub)
      /\ k.op = "link" => Settled(k.peer) /\ k.peer \in Hubs
  BY <1>0, KeyAssumption DEF Stage, Placed, ListStage, ArmStage, Granting, Rewriting, Withdrawn, Writing
<1>4. CASE call' = [call EXCEPT ![t] = Refused(k)]
  <2>1. PICK l \in Call : /\ l = Refused(k) /\ l.at = "restore" /\ l.why = "rollback"
                          /\ l.first = k.first /\ l.prev = k.prev /\ Carries(l, k)
    BY GoneOnRefused
  <2>2. /\ call' \in [Threads -> Call] /\ l = call'[t]
        /\ \A u \in Threads \ {t} : call'[u] = call[u]
    BY <1>0, <1>4, <2>1
  <2>3. TypeOK'
    BY <1>0, <1>1, <2>2 DEF TypeOK
  <2>4. Granting(l) /\ ~Rewriting(l) /\ ~Withdrawn(l)
    BY <2>1 DEF Granting, Rewriting, Withdrawn, Writing
  <2>5. Before(l)' = Before(k)
    BY <1>1, <2>1 DEF Before, Carries
  <2>6. Placed(l)' /\ FileStage(l)'
    BY <1>0, <2>1, <2>4 DEF Stage, Placed, FileStage, Carries, Writing
  <2>7. ListStage(l)'
    BY <1>1, <1>2, <1>3, <2>1, <2>4, SameKeeps DEF ListStage, Carries, Writing
  <2>8. FoundStage(l)'
    BY <1>0, <1>3, <2>1, <2>4, <2>5 DEF Stage, FoundStage, Carries
  <2>9. ArmStage(l)'
    BY <1>0, <1>1, <1>3, <2>1, <2>4 DEF Stage, ArmStage, Secured, Carries, Writing
  <2>10. Stage(l)'
    BY <2>6, <2>7, <2>8, <2>9 DEF Stage
  <2> QED BY <1>0, <1>2, <2>1, <2>2, <2>3, <2>10, SameKeeps, LocalStep DEF Carries
<1>5. CASE /\ Armable(k.hub) /\ (k.op = "connect" \/ k.second)
           /\ Goto(t, IF k.op = "connect" THEN "arm" ELSE "listen")
  <2>1. /\ call' \in [Threads -> Call] /\ \A u \in Threads \ {t} : call'[u] = call[u]
        /\ call'[t] = [k EXCEPT !.at = IF k.op = "connect" THEN "arm" ELSE "listen"]
    <3>1. (IF k.op = "connect" THEN "arm" ELSE "listen") \in Steps
      BY DEF Steps
    <3> QED BY <1>0, <1>5, <3>1, GotoFields
  <2>2. PICK l \in Call : /\ l = call'[t] /\ l.at = (IF k.op = "connect" THEN "arm" ELSE "listen")
                          /\ Keeps(l, k)
    <3>1. (IF k.op = "connect" THEN "arm" ELSE "listen") \in Steps
      BY DEF Steps
    <3> QED BY <2>1, <3>1, GoneOn
  <2>3. TypeOK'
    BY <1>0, <1>1, <2>1 DEF TypeOK
  <2>4. ~Granting(l) /\ ~Rewriting(l) /\ ~Withdrawn(l)
    BY <2>2 DEF Granting, Rewriting, Withdrawn, Writing
  <2>5. k.op \in {"connect", "link"}
    BY DEF Call
  <2>6. Placed(l)' /\ FileStage(l)'
    BY <1>0, <1>5, <2>2, <2>4, <2>5 DEF Stage, Placed, FileStage, Keeps, Carries, Writing
  <2>7. ListStage(l)'
    BY <1>1, <1>2, <1>3, <1>0, <2>2, <2>4, SameKeeps DEF ListStage, Keeps, Carries, Writing
  <2>8. FoundStage(l)'
    <3>1. k.op = "connect" => trusted[k.hub] = [k.found EXCEPT ![k.peer] = k.key]
      <4> SUFFICES ASSUME k.op = "connect" PROVE trusted[k.hub] = [k.found EXCEPT ![k.peer] = k.key]
        OBVIOUS
      <4>1. k.found = [trusted[k.hub] EXCEPT ![k.peer] = k.prev]
        BY <1>0, <1>3 DEF Stage, FoundStage, Before
      <4>2. trusted[k.hub] \in [Names -> Keys \cup {NoKey}]
        BY <1>0 DEF TypeOK, Trusting
      <4> QED BY <1>0, <1>3, <4>1, <4>2
    <3> QED BY <1>1, <2>2, <2>4, <3>1 DEF FoundStage, Keeps, Carries
  <2>9. ArmStage(l)'
    BY <1>0, <1>1, <1>3, <1>5, <2>2, <2>4, <2>5 DEF Stage, ArmStage, Secured, Armable, Keeps, Carries, Writing
  <2>10. Stage(l)' /\ l.at # "idle"
    BY <2>2, <2>6, <2>7, <2>8, <2>9 DEF Stage
  <2> QED BY <1>0, <1>2, <2>1, <2>2, <2>3, <2>10, SameKeeps, LocalStep DEF Keeps, Carries
<1>6. CASE /\ Armable(k.hub) /\ k.op = "link" /\ ~k.second
           /\ call' = [call EXCEPT ![t] = Seconded(k)]
  <2>1. PICK l \in Call : /\ l = Seconded(k) /\ l.at = "grant" /\ l.second
                          /\ l.hub = k.peer /\ l.peer = k.hub /\ l.key \in Keys /\ l.op = k.op
    BY <1>0, <1>3, <1>6, GoneOnSeconded
  <2>2. /\ call' \in [Threads -> Call] /\ l = call'[t]
        /\ \A u \in Threads \ {t} : call'[u] = call[u]
    BY <1>0, <1>6, <2>1
  <2>3. TypeOK'
    BY <1>0, <1>1, <2>2 DEF TypeOK
  <2>4. ~Granting(l) /\ ~Rewriting(l) /\ ~Withdrawn(l)
    BY <2>1 DEF Granting, Rewriting, Withdrawn, Writing
  <2>5. Secured(k.hub, k.peer)'
    BY <1>0, <1>1, <1>3, <1>6 DEF Secured, Armable
  <2>6. Placed(l)' /\ FileStage(l)'
    BY <1>0, <1>3, <1>6, <2>1, <2>4 DEF Placed, FileStage, Names, Writing
  <2>7. ListStage(l)'
    BY <1>2, <1>3, <1>0, <1>6, <2>1, <2>4, SameKeeps DEF ListStage, Writing
  <2>8. FoundStage(l)'
    BY <1>6, <2>1 DEF FoundStage
  <2>9. ArmStage(l)'
    BY <1>0, <1>1, <1>6, <2>1, <2>4, <2>5 DEF Stage, ArmStage
  <2>10. Stage(l)'
    BY <2>6, <2>7, <2>8, <2>9 DEF Stage
  <2>11. Touches(l) = Touches(k) /\ Touches(k) \subseteq Hubs
    BY <1>0, <1>3, <1>6, <2>1 DEF Touches
  <2>12. \A g \in Touches(k) : Enforced(g)'
    BY <1>0, <1>2, <2>11, Knows, SameKeeps
  <2> QED BY <1>2, <2>1, <2>2, <2>3, <2>10, <2>11, <2>12 DEF StepOK
<1>7. k.op \in {"connect", "link"} /\ k.second \in BOOLEAN
  BY DEF Call
<1> QED
  <2>1. \/ call' = [call EXCEPT ![t] = Refused(k)]
        \/ /\ Armable(k.hub)
           /\ call' = [call EXCEPT ![t] =
                IF k.op = "connect" THEN [k EXCEPT !.at = "arm"]
                ELSE IF k.second THEN [k EXCEPT !.at = "listen"] ELSE Seconded(k)]
    BY <1>0 DEF AuthArm, Refused, Seconded
  <2>2. Goto(t, "arm") <=> call' = [call EXCEPT ![t] = [k EXCEPT !.at = "arm"]]
    BY <1>0 DEF Goto
  <2>3. Goto(t, "listen") <=> call' = [call EXCEPT ![t] = [k EXCEPT !.at = "listen"]]
    BY <1>0 DEF Goto
  <2> QED BY <1>4, <1>5, <1>6, <1>7, <2>1, <2>2, <2>3

\* What was trusted before is put back.
LEMMA RestoreOK ==
  ASSUME Inv, NEW t \in Threads, NEW k \in Call, k = call[t], Restore(t)
  PROVE  TypeOK' /\ StepOK(t)
<1>0. /\ TypeOK /\ k.at = "restore" /\ Stage(k)
      /\ k.hub \in Hubs /\ k.peer \in Names /\ k.peer # k.hub /\ k.key \in Keys
      /\ call \in [Threads -> Call]
      /\ Enforced(k.hub)
  BY Knows DEF Restore, At, Inv, TypeOK
<1>1. /\ trusted' = [trusted EXCEPT ![k.hub][k.peer] = k.prev]
      /\ Goto(t, IF k.why = "grant" THEN "failed" ELSE "snapshot")
      /\ UNCHANGED <<temp, file, list, required, cons, linking, unsaved>>
  BY <1>0 DEF Restore, files
<1>a. trusted \in [Hubs -> [Names -> Keys \cup {NoKey}]] /\ k.prev \in Keys \cup {NoKey}
      /\ k.why \in {"grant", "rollback"}
  BY <1>0 DEF TypeOK, Trusting, Call, Stage, Placed
<1>2. /\ call' \in [Threads -> Call] /\ \A u \in Threads \ {t} : call'[u] = call[u]
      /\ call'[t] = [k EXCEPT !.at = IF k.why = "grant" THEN "failed" ELSE "snapshot"]
  <2>1. (IF k.why = "grant" THEN "failed" ELSE "snapshot") \in Steps
    BY DEF Steps
  <2> QED BY <1>0, <1>1, <2>1, GotoFields
<1>3. PICK l \in Call : /\ l = call'[t] /\ l.at = (IF k.why = "grant" THEN "failed" ELSE "snapshot")
                        /\ Keeps(l, k)
  <2>1. (IF k.why = "grant" THEN "failed" ELSE "snapshot") \in Steps
    BY DEF Steps
  <2> QED BY <1>2, <2>1, GoneOn
<1>4. /\ trusted' \in [Hubs -> Trusting] /\ trusted'[k.hub] = Before(k)
      /\ \A q \in Names \ {k.peer} : trusted'[k.hub][q] = trusted[k.hub][q]
      /\ trusted'[k.hub][k.peer] = k.prev
      /\ \A g \in Hubs \ {k.hub} : trusted'[g] = trusted[g]
  BY <1>0, <1>1, <1>a DEF Trusting, Before
<1>5. TypeOK'
  BY <1>0, <1>1, <1>2, <1>4 DEF TypeOK
<1>6. \A g \in Hubs \ {k.hub} : Same(g)
  BY <1>1, <1>4 DEF Same
<1>7. /\ Granting(k) /\ ~Granting(l) /\ ~Withdrawn(l) /\ ~Withdrawn(k)
      /\ Rewriting(l) <=> k.why = "rollback"
  BY <1>0, <1>3, <1>a DEF Granting, Rewriting, Withdrawn, Writing, Keeps
<1>8. Enforced(k.hub)'
  <2>1. cons' = cons /\ cons[k.hub] \subseteq Names
    BY <1>0, <1>1 DEF TypeOK
  <2>2. k.peer \in cons[k.hub] => k.prev # NoKey
    BY <1>0, <1>7 DEF Stage, ArmStage
  <2> QED BY <1>0, <1>1, <1>4, <2>1, <2>2 DEF Enforced, Secured
<1>9. Placed(l)' /\ FileStage(l)'
  BY <1>0, <1>3, <1>7, <1>a DEF Stage, Placed, FileStage, Keeps, Carries, Writing
<1>10. ListStage(l)'
  <2>1. k.op = "link" => Settled(k.peer)'
    BY <1>0, <1>6, SameKeeps DEF Stage, Placed, ListStage
  <2>2. k.why = "grant" => Settled(k.hub)'
    <3>1. k.why = "grant" => Listed(k.hub, Before(k))
      BY <1>0 DEF Stage, ListStage
    <3> QED BY <1>1, <1>4, <3>1 DEF Settled, Listed
  <2> QED BY <1>a, <1>3, <1>7, <2>1, <2>2 DEF ListStage, Keeps, Carries, Writing
<1>11. FoundStage(l)'
  BY <1>0, <1>3, <1>4, <1>7 DEF Stage, FoundStage, Keeps, Carries
<1>12. ArmStage(l)'
  <2>1. k.op = "link" /\ k.second => Secured(k.peer, k.hub)'
    BY <1>0, <1>6, <1>7, SameKeeps DEF Stage, Placed, ArmStage, Names
  <2> QED BY <1>0, <1>1, <1>3, <1>7, <2>1 DEF Stage, ArmStage, Keeps, Carries, Writing
<1>13. Stage(l)' /\ l.at # "idle"
  BY <1>3, <1>9, <1>10, <1>11, <1>12 DEF Stage
<1>14. \A u \in Threads \ {t} : call'[u] = call[u]
  BY <1>2
<1> QED BY <1>0, <1>3, <1>5, <1>6, <1>8, <1>13, <1>14, LocalStep DEF Keeps, Carries

\* A hub that had no peer stops enforcing.
LEMMA RelinquishOK ==
  ASSUME Inv, NEW t \in Threads, NEW k \in Call, k = call[t], Relinquish(t)
  PROVE  TypeOK' /\ StepOK(t)
<1>0. /\ TypeOK /\ k.at = "relinquish" /\ Stage(k)
      /\ k.hub \in Hubs /\ k.peer \in Names /\ k.peer # k.hub /\ k.key \in Keys
      /\ call \in [Threads -> Call]
      /\ Enforced(k.hub)
  BY Knows DEF Relinquish, At, Inv, TypeOK
<1>1. Goto(t, "failed")
  BY DEF Relinquish
<1>2. /\ call' \in [Threads -> Call] /\ \A u \in Threads \ {t} : call'[u] = call[u]
      /\ call'[t] = [k EXCEPT !.at = "failed"]
  BY <1>0, <1>1, GotoFields DEF Steps
<1>3. PICK l \in Call : l = call'[t] /\ l.at = "failed" /\ Keeps(l, k)
  BY <1>2, GoneOn DEF Steps
<1>4. /\ required' = [required EXCEPT ![k.hub] = FALSE]
      /\ UNCHANGED <<trusted, temp, file, list, cons, linking, unsaved>>
  BY <1>0 DEF Relinquish, files
<1>a. required \in [Hubs -> BOOLEAN]
  BY <1>0 DEF TypeOK
<1>5. /\ \A g \in Hubs \ {k.hub} : required'[g] = required[g]
      /\ required' \in [Hubs -> BOOLEAN]
  BY <1>0, <1>4, <1>a
<1>6. TypeOK'
  BY <1>0, <1>2, <1>4, <1>5 DEF TypeOK
<1>7. (\A g \in Hubs \ {k.hub} : Same(g)) /\ Enforced(k.hub)'
  BY <1>0, <1>4, <1>5 DEF Same, Enforced, Stage, ArmStage
<1>8. /\ ~Granting(l) /\ ~Granting(k) /\ ~Rewriting(l) /\ ~Rewriting(k) /\ ~Withdrawn(l) /\ ~Withdrawn(k)
  BY <1>0, <1>3 DEF Granting, Rewriting, Withdrawn, Writing
<1>9. Placed(l)' /\ FileStage(l)'
  BY <1>0, <1>3, <1>8 DEF Stage, Placed, FileStage, Keeps, Carries, Writing
<1>10. ListStage(l)'
  BY <1>0, <1>3, <1>4, <1>8 DEF Stage, ListStage, Settled, Listed, Keeps, Carries, Writing
<1>11. FoundStage(l)'
  BY <1>0, <1>3, <1>4, <1>8 DEF Stage, FoundStage, Keeps, Carries
<1>12. k.op = "link" /\ k.second => Secured(k.peer, k.hub)'
  BY <1>0, <1>7, <1>8, SameKeeps DEF Stage, Placed, ArmStage, Names
<1>13. ArmStage(l)'
  BY <1>0, <1>3, <1>4, <1>8, <1>12 DEF Stage, ArmStage, Keeps, Carries
<1>14. Stage(l)'
  BY <1>9, <1>10, <1>11, <1>13 DEF Stage
<1> QED BY <1>0, <1>2, <1>3, <1>6, <1>7, <1>14, LocalStep DEF Keeps, Carries

\* The call is refused.
LEMMA FailOK ==
  ASSUME Inv, NEW t \in Threads, NEW k \in Call, k = call[t], Fail(t)
  PROVE  TypeOK' /\ StepOK(t)
<1>0. /\ TypeOK /\ k.at \in {"failed", "refused"} /\ Stage(k)
      /\ k.hub \in Hubs /\ k.peer \in Names /\ k.peer # k.hub /\ k.key \in Keys
      /\ call \in [Threads -> Call]
      /\ Enforced(k.hub)
  BY Knows DEF Fail, At, Inv, TypeOK
<1>1. UNCHANGED <<trusted, temp, file, list, required, cons, unsaved>>
  BY DEF Fail, files
<1>2. \A g \in Hubs : Same(g)
  BY <1>1 DEF Same
<1>3. Settled(k.hub) /\ (k.op = "link" => Settled(k.peer) /\ k.peer \in Hubs)
  BY <1>0 DEF Stage, Placed, ListStage, Rewriting, Writing
<1>4. CASE Return(t)
  <2>1. /\ call' \in [Threads -> Call] /\ linking' \in Threads \cup {Nobody}
        /\ \A u \in Threads \ {t} : call'[u] = call[u]
        /\ call'[t].at = "idle"
    BY <1>0, <1>4, ReturnFields, NoCallType
  <2>2. TypeOK'
    BY <1>0, <1>1, <2>1 DEF TypeOK
  <2>3. Settled(k.hub)' /\ Enforced(k.hub)'
    BY <1>0, <1>2, <1>3, SameKeeps
  <2> QED BY <1>0, <1>2, <2>1, <2>2, <2>3, LastStep
<1>5. CASE /\ k.op = "link" /\ call' = [call EXCEPT ![t] = Untrusting(k)] /\ UNCHANGED linking
  <2>1. PICK l \in Call : /\ l = Untrusting(k) /\ l.at = "untrust" /\ l.hub = k.peer
                          /\ l.peer = k.hub /\ l.key = k.key /\ l.op = k.op
    BY <1>0, <1>3, <1>5, GoneOnUntrusting
  <2>2. /\ call' \in [Threads -> Call] /\ l = call'[t]
        /\ \A u \in Threads \ {t} : call'[u] = call[u]
    BY <1>0, <1>5, <2>1
  <2>3. TypeOK'
    BY <1>0, <1>1, <1>5, <2>2 DEF TypeOK
  <2>4. ~Granting(l) /\ ~Rewriting(l) /\ Withdrawn(l)
    BY <2>1 DEF Granting, Rewriting, Withdrawn, Writing
  <2>6. Placed(l)' /\ FileStage(l)'
    BY <1>0, <1>3, <1>5, <2>1, <2>4 DEF Placed, FileStage, Names, Writing
  <2>7. ListStage(l)'
    BY <1>2, <1>3, <1>0, <1>5, <2>1, <2>4, SameKeeps DEF ListStage, Writing
  <2>8. FoundStage(l)'
    BY <1>5, <2>1 DEF FoundStage
  <2>9. ArmStage(l)'
    BY <1>0, <1>1, <1>5, <2>1, <2>4 DEF Stage, ArmStage
  <2>10. Stage(l)'
    BY <2>6, <2>7, <2>8, <2>9 DEF Stage
  <2>11. Touches(l) = Touches(k) /\ Touches(k) \subseteq Hubs
    BY <1>0, <1>3, <1>5, <2>1 DEF Touches
  <2>12. \A g \in Touches(k) : Enforced(g)'
    BY <1>0, <1>2, <2>11, Knows, SameKeeps
  <2> QED BY <1>2, <2>1, <2>2, <2>3, <2>10, <2>11, <2>12 DEF StepOK
<1> QED BY <1>0, <1>4, <1>5 DEF Fail, Untrusting

\* A Link withdraws what it granted on its first hub.
LEMMA UntrustOK ==
  ASSUME Inv, NEW t \in Threads, NEW k \in Call, k = call[t], Untrust(t)
  PROVE  TypeOK' /\ StepOK(t)
<1>0. /\ TypeOK /\ k.at = "untrust" /\ Stage(k)
      /\ k.hub \in Hubs /\ k.peer \in Names /\ k.peer # k.hub /\ k.key \in Keys
      /\ call \in [Threads -> Call]
      /\ Enforced(k.hub)
  BY Knows DEF Untrust, At, Inv, TypeOK
<1>1. /\ trusted' = [trusted EXCEPT ![k.hub][k.peer] = NoKey]
      /\ call' = [call EXCEPT ![t] = Withdrawing(k)]
      /\ UNCHANGED <<temp, file, list, required, cons, linking, unsaved>>
  BY <1>0 DEF Untrust, Withdrawing, files
<1>a. trusted \in [Hubs -> [Names -> Keys \cup {NoKey}]]
  BY <1>0 DEF TypeOK, Trusting
<1>2. PICK l \in Call : /\ l = Withdrawing(k) /\ l.at = "snapshot" /\ l.why = "withdraw"
                        /\ Carries(l, k)
  BY GoneOnWithdrawing
<1>3. /\ call' \in [Threads -> Call] /\ l = call'[t]
      /\ \A u \in Threads \ {t} : call'[u] = call[u]
  BY <1>0, <1>1, <1>2
<1>4. /\ trusted' \in [Hubs -> Trusting]
      /\ \A q \in Names \ {k.peer} : trusted'[k.hub][q] = trusted[k.hub][q]
      /\ trusted'[k.hub][k.peer] = NoKey
      /\ \A g \in Hubs \ {k.hub} : trusted'[g] = trusted[g]
  BY <1>0, <1>1, <1>a DEF Trusting
<1>5. TypeOK'
  BY <1>0, <1>1, <1>3, <1>4 DEF TypeOK
<1>6. \A g \in Hubs \ {k.hub} : Same(g)
  BY <1>1, <1>4 DEF Same
<1>7. k.op = "link" /\ k.peer \in Hubs /\ k.peer \notin cons[k.hub] /\ Settled(k.hub) /\ Settled(k.peer)
  BY <1>0 DEF Stage, Placed, ArmStage, ListStage, Rewriting, Writing, Withdrawn
<1>8. Enforced(k.hub)'
  <2>1. cons' = cons /\ cons[k.hub] \subseteq Names
    BY <1>0, <1>1 DEF TypeOK
  <2> QED BY <1>0, <1>1, <1>4, <1>7, <2>1 DEF Enforced, Secured
<1>9. ~Granting(l) /\ ~Rewriting(l) /\ Withdrawn(l)
  BY <1>2 DEF Granting, Rewriting, Withdrawn, Writing
<1>10. Placed(l)' /\ FileStage(l)'
  BY <1>0, <1>2, <1>7, <1>9 DEF Placed, FileStage, Carries
<1>11. ListStage(l)'
  <2>1. Settled(k.hub)'
    BY <1>1, <1>4, <1>7 DEF Settled, Listed
  <2>2. Settled(k.peer)'
    BY <1>0, <1>6, <1>7, SameKeeps
  <2> QED BY <1>2, <1>9, <2>1, <2>2 DEF ListStage, Carries
<1>12. FoundStage(l)'
  BY <1>2, <1>7 DEF FoundStage, Carries
<1>13. ArmStage(l)'
  BY <1>0, <1>1, <1>2, <1>9 DEF Stage, ArmStage, Carries
<1>14. Stage(l)'
  BY <1>10, <1>11, <1>12, <1>13 DEF Stage
<1> QED BY <1>0, <1>2, <1>3, <1>5, <1>6, <1>8, <1>14, LocalStep DEF Carries

\* The first hub of a Link listens, or the Link is over.
LEMMA ArmListenerOK ==
  ASSUME Inv, NEW t \in Threads, NEW k \in Call, k = call[t], ArmListener(t)
  PROVE  TypeOK' /\ StepOK(t)
<1>0. /\ TypeOK /\ k.at = "listen" /\ Stage(k)
      /\ k.hub \in Hubs /\ k.peer \in Names /\ k.peer # k.hub /\ k.key \in Keys
      /\ call \in [Threads -> Call]
      /\ Enforced(k.hub)
  BY Knows DEF ArmListener, At, Inv, TypeOK
<1>1. UNCHANGED <<trusted, temp, file, list, required, unsaved>>
  BY DEF ArmListener, files
<1>2. /\ k.op = "link" /\ k.second /\ k.peer \in Hubs /\ Settled(k.hub) /\ Settled(k.peer)
      /\ Secured(k.hub, k.peer) /\ Secured(k.peer, k.hub) /\ Enforced(k.peer)
      /\ Touches(k) = {k.hub, k.peer}
  <2>1. ~Withdrawn(k) /\ ~Rewriting(k)
    BY <1>0 DEF Withdrawn, Rewriting, Writing
  <2>2. k.op = "link" /\ k.second
    BY <1>0 DEF Stage, Placed
  <2> QED BY <1>0, <2>1, <2>2, Knows DEF Stage, Placed, ListStage, ArmStage, Touches, Writing
<1>b. cons \in [Hubs -> SUBSET Names]
  BY <1>0 DEF TypeOK
<1>3. CASE /\ cons' = [cons EXCEPT ![k.peer] = @ \cup {k.hub}] /\ Goto(t, "arm") /\ UNCHANGED linking
  <2>1. /\ call' \in [Threads -> Call] /\ \A u \in Threads \ {t} : call'[u] = call[u]
        /\ call'[t] = [k EXCEPT !.at = "arm"]
    BY <1>0, <1>3, GotoFields DEF Steps
  <2>2. PICK l \in Call : l = call'[t] /\ l.at = "arm" /\ Keeps(l, k)
    BY <2>1, GoneOn DEF Steps
  <2>3. /\ cons' \in [Hubs -> SUBSET Names] /\ cons'[k.peer] = cons[k.peer] \cup {k.hub}
        /\ \A g \in Hubs \ {k.peer} : cons'[g] = cons[g]
    BY <1>0, <1>2, <1>3, <1>b DEF Names
  <2>4. TypeOK'
    BY <1>0, <1>1, <1>3, <2>1, <2>3 DEF TypeOK
  <2>5. \A g \in Hubs \ {k.peer} : Same(g)
    BY <1>1, <2>3 DEF Same
  <2>6. Enforced(k.peer)' /\ Enforced(k.hub)'
    BY <1>0, <1>1, <1>2, <2>3 DEF Enforced, Secured
  <2>7. ~Granting(l) /\ ~Rewriting(l) /\ ~Withdrawn(l)
    BY <2>2 DEF Granting, Rewriting, Withdrawn, Writing
  <2>8. Placed(l)' /\ FileStage(l)' /\ FoundStage(l)'
    BY <1>0, <1>2, <2>2, <2>7 DEF Placed, FileStage, FoundStage, Keeps, Carries, Writing
  <2>9. ListStage(l)' /\ ArmStage(l)'
    BY <1>0, <1>1, <1>2, <2>2, <2>7 DEF ListStage, ArmStage, Settled, Listed, Secured, Keeps, Carries, Writing
  <2>10. Stage(l)' /\ Touches(l) = Touches(k)
    BY <2>2, <2>8, <2>9 DEF Stage, Touches, Keeps, Carries
  <2>11. \A g \in Hubs \ Touches(k) : Same(g)
    BY <1>2, <2>5
  <2>12. \A g \in Touches(k) : Enforced(g)'
    BY <1>2, <2>6
  <2> QED BY <2>1, <2>2, <2>4, <2>10, <2>11, <2>12 DEF StepOK
<1>4. CASE UNCHANGED cons /\ Return(t)
  <2>1. /\ call' \in [Threads -> Call] /\ linking' \in Threads \cup {Nobody}
        /\ \A u \in Threads \ {t} : call'[u] = call[u]
        /\ call'[t].at = "idle"
    BY <1>0, <1>4, ReturnFields, NoCallType
  <2>2. TypeOK'
    BY <1>0, <1>1, <1>4, <2>1 DEF TypeOK
  <2>3. \A g \in Hubs : Same(g)
    BY <1>1, <1>4 DEF Same
  <2>4. Settled(k.hub)' /\ Enforced(k.hub)'
    BY <1>0, <1>2, <2>3, SameKeeps
  <2> QED BY <1>0, <2>1, <2>2, <2>3, <2>4, LastStep
<1> QED BY <1>0, <1>3, <1>4 DEF ArmListener

\* The connection is armed, or refused.
LEMMA ArmOK ==
  ASSUME Inv, NEW t \in Threads, NEW k \in Call, k = call[t], Arm(t)
  PROVE  TypeOK' /\ StepOK(t)
<1>0. /\ TypeOK /\ k.at = "arm" /\ Stage(k)
      /\ k.hub \in Hubs /\ k.peer \in Names /\ k.peer # k.hub /\ k.key \in Keys
      /\ call \in [Threads -> Call]
      /\ Enforced(k.hub)
  BY Knows DEF Arm, At, Inv, TypeOK
<1>1. UNCHANGED <<trusted, temp, file, list, required, unsaved>>
  BY DEF Arm, files
<1>2. /\ Settled(k.hub) /\ Secured(k.hub, k.peer)
      /\ k.op = "link" => k.peer \in Hubs /\ Settled(k.peer)
  BY <1>0 DEF Stage, Placed, ListStage, ArmStage, Rewriting, Writing
<1>b. cons \in [Hubs -> SUBSET Names]
  BY <1>0 DEF TypeOK
<1>3. CASE Return(t) /\ \/ cons' = [cons EXCEPT ![k.hub] = @ \cup {k.peer}]
                        \/ k.op = "link" /\ cons' \in {cons, [cons EXCEPT ![k.peer] = @ \ {k.hub}]}
  <2>1. /\ call' \in [Threads -> Call] /\ linking' \in Threads \cup {Nobody}
        /\ \A u \in Threads \ {t} : call'[u] = call[u]
        /\ call'[t].at = "idle"
    BY <1>0, <1>3, ReturnFields, NoCallType
  <2>2. /\ cons' \in [Hubs -> SUBSET Names]
        /\ \A g \in Hubs : cons'[g] \subseteq cons[g] \/ (g = k.hub /\ cons'[g] = cons[g] \cup {k.peer})
        /\ \A g \in Hubs : cons'[g] = cons[g] \/ g = k.hub \/ (k.op = "link" /\ g = k.peer)
    <3>1. CASE cons' = [cons EXCEPT ![k.hub] = @ \cup {k.peer}]
      BY <1>0, <1>b, <3>1
    <3>2. CASE cons' = cons
      BY <1>b, <3>2
    <3>3. CASE k.op = "link" /\ cons' = [cons EXCEPT ![k.peer] = @ \ {k.hub}]
      BY <1>2, <1>b, <3>3
    <3> QED BY <1>3, <3>1, <3>2, <3>3
  <2>3. TypeOK'
    BY <1>0, <1>1, <2>1, <2>2 DEF TypeOK
  <2>4. \A g \in Hubs \ Touches(k) : Same(g)
    BY <1>1, <2>2 DEF Same, Touches
  <2>5. Touches(k) \subseteq Hubs /\ \A g \in Touches(k) : Enforced(g) /\ Settled(g)
    BY <1>0, <1>2, Knows DEF Touches
  <2>6. \A g \in Touches(k) : Settled(g)'
    BY <1>1, <2>5 DEF Settled, Listed
  <2>7. \A g \in Touches(k) : Enforced(g)'
    BY <1>1, <1>2, <2>2, <2>5 DEF Enforced, Secured
  <2> QED BY <2>1, <2>3, <2>4, <2>6, <2>7 DEF StepOK
<1>4. CASE k.op = "connect" /\ UNCHANGED <<cons, linking>> /\ Goto(t, "refused")
  <2>1. /\ call' \in [Threads -> Call] /\ \A u \in Threads \ {t} : call'[u] = call[u]
        /\ call'[t] = [k EXCEPT !.at = "refused"]
    BY <1>0, <1>4, GotoFields DEF Steps
  <2>2. PICK l \in Call : l = call'[t] /\ l.at = "refused" /\ Keeps(l, k)
    BY <2>1, GoneOn DEF Steps
  <2>3. TypeOK'
    BY <1>0, <1>1, <1>4, <2>1 DEF TypeOK
  <2>4. \A g \in Hubs : Same(g)
    BY <1>1, <1>4 DEF Same
  <2>5. ~Granting(l) /\ ~Rewriting(l) /\ ~Withdrawn(l)
    BY <2>2 DEF Granting, Rewriting, Withdrawn, Writing
  <2>6. Placed(l)' /\ FileStage(l)'
    BY <1>0, <1>4, <2>2, <2>5 DEF Stage, Placed, FileStage, Keeps, Carries, Writing
  <2>7. ListStage(l)'
    BY <1>0, <1>1, <1>2, <1>4, <2>2, <2>4, <2>5, SameKeeps
       DEF Stage, ListStage, Keeps, Carries, Writing
  <2>8. FoundStage(l)'
    BY <1>0, <1>1, <1>4, <2>2, <2>5 DEF Stage, FoundStage, Keeps, Carries
  <2>9. ArmStage(l)'
    BY <1>0, <1>1, <1>2, <1>4, <2>2, <2>5 DEF ArmStage, Secured, Keeps, Carries, Writing
  <2>10. Stage(l)' /\ l.at # "idle"
    BY <2>2, <2>6, <2>7, <2>8, <2>9 DEF Stage
  <2> QED BY <1>0, <2>1, <2>2, <2>3, <2>4, <2>10, SameKeeps, LocalStep DEF Keeps, Carries
<1>5. k.op \in {"connect", "link"}
  BY DEF Call
<1> QED BY <1>3, <1>4, <1>5 DEF Arm

-----------------------------------------------------------------------------
(* The steps together *)

\* What a call knows stays true while nobody touches its hubs.
LEMMA StageKept ==
  ASSUME NEW k \in Call, Stage(k), \A g \in Touches(k) : Same(g)
  PROVE  Stage(k)'
<1>1. /\ k.hub \in Hubs /\ k.peer \in Names /\ Same(k.hub)
      /\ k.op = "link" => k.peer \in Hubs /\ Same(k.peer)
  BY DEF Stage, Placed, Touches
<1>2. Before(k)' = Before(k)
  BY <1>1 DEF Before, Same
<1>3. Placed(k)' /\ FileStage(k)'
  BY <1>1 DEF Stage, Placed, FileStage, Same
<1>4. ListStage(k)'
  BY <1>1, <1>2 DEF Stage, ListStage, Settled, Listed, Same
<1>5. FoundStage(k)'
  BY <1>1, <1>2 DEF Stage, FoundStage, Same
<1>6. ArmStage(k)'
  <2>1. Secured(k.hub, k.peer) => Secured(k.hub, k.peer)'
    BY <1>1 DEF Secured, Same
  <2>2. k.op = "link" => (Secured(k.peer, k.hub) => Secured(k.peer, k.hub)')
    BY <1>1 DEF Secured, Same
  <2> QED BY <1>1, <2>1, <2>2 DEF Stage, ArmStage, Same
<1> QED BY <1>3, <1>4, <1>5, <1>6 DEF Stage

\* A step of one call keeps the invariant of all.
LEMMA StepKeeps ==
  ASSUME Inv, NEW t \in Threads, call[t].at # "idle", TypeOK', StepOK(t)
  PROVE  Inv'
<1>0. /\ call \in [Threads -> Call] /\ call' \in [Threads -> Call] /\ Apart
      /\ \A u \in Threads \ {t} : call'[u] = call[u]
      /\ \A g \in Hubs \ Touches(call[t]) : Same(g)
  BY DEF Inv, TypeOK, StepOK
<1>1. call'[t].at # "idle" => Touches(call'[t]) = Touches(call[t])
  BY DEF StepOK
<1>2. Apart'
  <2> SUFFICES ASSUME NEW u \in Threads, NEW v \in Threads, u # v,
                      call'[u].at # "idle", call'[v].at # "idle"
               PROVE  Touches(call'[u]) \cap Touches(call'[v]) = {}
    BY DEF Apart, Touches
  <2>1. CASE u = t
    BY <1>0, <1>1, <2>1 DEF Apart
  <2>2. CASE v = t
    BY <1>0, <1>1, <2>2 DEF Apart
  <2>3. CASE u # t /\ v # t
    BY <1>0, <2>3 DEF Apart
  <2> QED BY <2>1, <2>2, <2>3
<1>3. Stages'
  <2> SUFFICES ASSUME NEW u \in Threads, NEW k \in Call, call'[u] = k, k.at # "idle"
               PROVE  Stage(k)'
    BY DEF Stages
  <2>1. CASE u = t
    BY <2>1 DEF StepOK
  <2>2. CASE u # t
    <3>1. call[u] = k
      BY <1>0, <2>2
    <3>2. Stage(k) /\ Touches(k) \subseteq Hubs
      BY <3>1, Knows
    <3>3. Touches(k) \cap Touches(call[t]) = {}
      BY <1>0, <2>2, <3>1 DEF Apart
    <3>4. \A g \in Touches(k) : Same(g)
      BY <1>0, <3>2, <3>3
    <3> QED BY <3>2, <3>4, StageKept
  <2> QED BY <2>1, <2>2
<1>4. HubInv'
  <2> SUFFICES ASSUME NEW g \in Hubs PROVE Enforced(g)' /\ (~Busy(g)' => Settled(g)')
    BY DEF HubInv
  <2>1. CASE g \in Touches(call[t])
    <3>1. Enforced(g)'
      BY <2>1 DEF StepOK
    <3>2. call'[t].at # "idle" => Busy(g)'
      BY <1>1, <2>1 DEF Busy
    <3> QED BY <2>1, <3>1, <3>2 DEF StepOK
  <2>2. CASE g \notin Touches(call[t])
    <3>1. Same(g)
      BY <1>0, <2>2
    <3>2. Busy(g) => Busy(g)'
      BY <1>0, <2>2 DEF Busy
    <3> QED BY <3>1, <3>2, SameKeeps DEF Inv, HubInv
  <2> QED BY <2>1, <2>2
<1> QED BY <1>2, <1>3, <1>4 DEF Inv

\* A call begins on hubs that no other is under way on.
LEMMA Begins ==
  ASSUME Inv, NEW t \in Threads, NEW l \in Call, call[t].at = "idle",
         call' = [call EXCEPT ![t] = l], l.at # "idle", TypeOK',
         \A g \in Hubs : Same(g), \A g \in Touches(l) : ~Busy(g), Stage(l)'
  PROVE  Inv'
<1>0. /\ call \in [Threads -> Call] /\ call' \in [Threads -> Call] /\ Apart /\ call'[t] = l
      /\ \A u \in Threads \ {t} : call'[u] = call[u]
  BY DEF Inv, TypeOK
<1>1. \A u \in Threads : call[u].at # "idle" => Touches(call[u]) \cap Touches(l) = {}
  BY DEF Busy
<1>2. Apart'
  <2> SUFFICES ASSUME NEW u \in Threads, NEW v \in Threads, u # v,
                      call'[u].at # "idle", call'[v].at # "idle"
               PROVE  Touches(call'[u]) \cap Touches(call'[v]) = {}
    BY DEF Apart, Touches
  <2>1. CASE u = t
    BY <1>0, <1>1, <2>1
  <2>2. CASE v = t
    BY <1>0, <1>1, <2>2
  <2>3. CASE u # t /\ v # t
    BY <1>0, <2>3 DEF Apart
  <2> QED BY <2>1, <2>2, <2>3
<1>3. Stages'
  <2> SUFFICES ASSUME NEW u \in Threads, NEW k \in Call, call'[u] = k, k.at # "idle"
               PROVE  Stage(k)'
    BY DEF Stages
  <2>1. CASE u = t
    <3>1. k = l
      BY <1>0, <2>1
    <3> QED BY <3>1
  <2>2. CASE u # t
    <3>1. call[u] = k
      BY <1>0, <2>2
    <3>2. Stage(k) /\ Touches(k) \subseteq Hubs
      BY <3>1, Knows
    <3> QED BY <3>2, StageKept
  <2> QED BY <2>1, <2>2
<1>4. HubInv'
  <2> SUFFICES ASSUME NEW g \in Hubs PROVE Enforced(g)' /\ (~Busy(g)' => Settled(g)')
    BY DEF HubInv
  <2>1. Busy(g) => Busy(g)'
    <3> SUFFICES ASSUME NEW u \in Threads, call[u].at # "idle", g \in Touches(call[u]) PROVE Busy(g)'
      BY DEF Busy
    <3>1. call'[u] = call[u]
      BY <1>0
    <3> QED BY <3>1 DEF Busy
  <2> QED BY <2>1, SameKeeps DEF Inv, HubInv
<1> QED BY <1>2, <1>3, <1>4 DEF Inv

\* The calls as they begin.
Connecting(h, p, x, f, g) == [NoCall EXCEPT !.at = "grant", !.hub = h, !.peer = p, !.key = x,
                                            !.found = f, !.foundList = g]
Linking(h, p) == [NoCall EXCEPT !.at = "trusts", !.op = "link", !.hub = h, !.peer = p, !.key = Own[p]]

LEMMA BeginsConnecting ==
  ASSUME NEW h \in Hubs, NEW p \in Names, NEW x \in Keys, NEW f \in Trusting, NEW g \in Trusting
  PROVE  LET l == Connecting(h, p, x, f, g) IN
         /\ l \in Call /\ l.at = "grant" /\ l.op = "connect" /\ l.hub = h /\ l.peer = p
         /\ l.key = x /\ l.found = f /\ ~l.second
BY NoCallType DEF Connecting, Call, NoCall, Steps

LEMMA BeginsLinking ==
  ASSUME NEW h \in Hubs, NEW p \in Hubs
  PROVE  LET l == Linking(h, p) IN
         /\ l \in Call /\ l.at = "trusts" /\ l.op = "link" /\ l.hub = h /\ l.peer = p
         /\ l.key \in Keys /\ ~l.second
<1>1. Own[p] \in Keys
  BY KeyAssumption
<1> QED BY <1>1, NoCallType DEF Linking, Call, NoCall, Steps, Names

LEMMA ConnectKeeps ==
  ASSUME Serial, Inv, NEW t \in Threads, NEW h \in Hubs, NEW p \in Names, NEW x \in Keys,
         Connect(t, h, p, x)
  PROVE  Inv'
<1>1. /\ call[t].at = "idle" /\ p # h /\ ~Busy(h) /\ TypeOK
      /\ call' = [call EXCEPT ![t] = Connecting(h, p, x, trusted[h], list[h])]
      /\ UNCHANGED <<trusted, temp, file, list, required, cons, linking, unsaved>>
  BY DEF Connect, Connecting, At, Inv, files
<1>2. PICK l \in Call : /\ l = Connecting(h, p, x, trusted[h], list[h])
                        /\ l.at = "grant" /\ l.op = "connect" /\ l.hub = h /\ l.peer = p
                        /\ l.key = x /\ l.found = trusted[h] /\ ~l.second
  <2>1. trusted[h] \in Trusting /\ list[h] \in Trusting
    BY <1>1 DEF TypeOK
  <2> QED BY <2>1, BeginsConnecting
<1>3. TypeOK'
  BY <1>1, <1>2 DEF TypeOK
<1>4. \A g \in Hubs : Same(g)
  BY <1>1 DEF Same
<1>5. Touches(l) = {h} /\ Settled(h)'
  BY <1>1, <1>2, <1>4, SameKeeps DEF Touches, Inv, HubInv
<1>6. ~Granting(l) /\ ~Rewriting(l) /\ ~Withdrawn(l)
  BY <1>2 DEF Granting, Rewriting, Withdrawn, Writing
<1>7. Stage(l)'
  BY <1>1, <1>2, <1>5, <1>6 DEF Stage, Placed, FileStage, ListStage, FoundStage, ArmStage, Writing
<1> QED BY <1>1, <1>2, <1>3, <1>4, <1>5, <1>7, Begins

LEMMA LinkKeeps ==
  ASSUME Serial, Inv, NEW t \in Threads, NEW h \in Hubs, NEW p \in Hubs, Link(t, h, p)
  PROVE  Inv'
<1>1. /\ call[t].at = "idle" /\ p # h /\ ~Busy(h) /\ ~Busy(p) /\ TypeOK
      /\ p \notin cons[h] /\ h \notin cons[p] /\ linking' = t
      /\ call' = [call EXCEPT ![t] = Linking(h, p)]
      /\ UNCHANGED <<trusted, temp, file, list, required, cons, unsaved>>
  BY DEF Link, Linking, At, Inv, files
<1>2. PICK l \in Call : /\ l = Linking(h, p)
                        /\ l.at = "trusts" /\ l.op = "link" /\ l.hub = h /\ l.peer = p
                        /\ l.key \in Keys /\ ~l.second
  BY BeginsLinking
<1>3. TypeOK'
  BY <1>1, <1>2 DEF TypeOK
<1>4. \A g \in Hubs : Same(g)
  BY <1>1 DEF Same
<1>5. Touches(l) = {h, p} /\ Settled(h)' /\ Settled(p)'
  BY <1>1, <1>2, <1>4, SameKeeps DEF Touches, Inv, HubInv
<1>6. ~Granting(l) /\ ~Rewriting(l) /\ ~Withdrawn(l)
  BY <1>2 DEF Granting, Rewriting, Withdrawn, Writing
<1>7. Stage(l)'
  BY <1>1, <1>2, <1>5, <1>6
     DEF Stage, Placed, FileStage, ListStage, FoundStage, ArmStage, Writing, Names
<1> QED BY <1>1, <1>2, <1>3, <1>4, <1>5, <1>7, Begins

LEMMA DropKeeps ==
  ASSUME Inv, NEW h \in Hubs, NEW p \in Names, Drop(h, p)
  PROVE  Inv'
<1>1. /\ UNCHANGED <<trusted, temp, file, list, required, linking, call, unsaved>>
      /\ cons' = [cons EXCEPT ![h] = @ \ {p}] /\ TypeOK
  BY DEF Drop, Inv, files
<1>2. cons' \in [Hubs -> SUBSET Names] /\ \A g \in Hubs : cons'[g] \subseteq cons[g]
  BY <1>1 DEF TypeOK
<1>3. TypeOK'
  BY <1>1, <1>2 DEF TypeOK
<1>4. Apart'
  BY <1>1 DEF Inv, Apart, Touches
<1>5. Stages'
  <2> SUFFICES ASSUME NEW u \in Threads, NEW k \in Call, call[u] = k, k.at # "idle"
               PROVE  Stage(k)'
    BY <1>1 DEF Stages
  <2>1. Stage(k) /\ k.hub \in Hubs /\ (k.op = "link" => k.peer \in Hubs)
    BY DEF Inv, Stages, Stage, Placed
  <2>2. Before(k)' = Before(k)
    BY <1>1 DEF Before
  <2>3. Placed(k)' /\ FileStage(k)' /\ ListStage(k)' /\ FoundStage(k)'
    BY <1>1, <2>1, <2>2 DEF Stage, Placed, FileStage, ListStage, FoundStage, Settled, Listed
  <2>4. ArmStage(k)'
    BY <1>1, <1>2, <2>1 DEF Stage, ArmStage, Secured
  <2> QED BY <2>3, <2>4 DEF Stage
<1>6. HubInv'
  BY <1>1, <1>2 DEF Inv, HubInv, Enforced, Secured, Settled, Listed, Busy, Touches
<1> QED BY <1>3, <1>4, <1>5, <1>6 DEF Inv

LEMMA InvInit == Init => Inv
<1> SUFFICES ASSUME Init PROVE Inv
  OBVIOUS
<1>1. \A t \in Threads : call[t] = NoCall /\ call[t].at = "idle"
  BY NoCallType DEF Init
<1>2. Apart /\ Stages
  BY <1>1 DEF Apart, Stages
<1>3. HubInv
  BY DEF Init, HubInv, Enforced, Settled, Listed, Nothing
<1> QED BY <1>2, <1>3, TypeInit DEF Inv

LEMMA InvNext ==
  ASSUME Serial
  PROVE  Inv /\ [Next]_vars => Inv'
<1> SUFFICES ASSUME Inv, [Next]_vars PROVE Inv'
  OBVIOUS
<1>1. ASSUME NEW t \in Threads, NEW h \in Hubs, NEW p \in Names, NEW x \in Keys, Connect(t, h, p, x)
      PROVE  Inv'
  BY <1>1, ConnectKeeps
<1>2. ASSUME NEW t \in Threads, NEW h \in Hubs, NEW p \in Hubs, Link(t, h, p)
      PROVE  Inv'
  BY <1>2, LinkKeeps
<1>3. ASSUME NEW t \in Threads, Continue(t) PROVE Inv'
  <2>1. PICK k \in Call : k = call[t]
    BY DEF Inv, TypeOK
  <2>2. TypeOK' /\ StepOK(t)
    BY <1>3, <2>1, ReadTrustsOK, GrantOK, SnapshotOK, DeleteTempOK, AppendOK, MoveOK, LoadOK,
       RequireOK, AuthArmOK, RestoreOK, RelinquishOK, FailOK, UntrustOK, ArmListenerOK, ArmOK
       DEF Continue
  <2>3. call[t].at # "idle"
    BY <1>3 DEF Continue, ReadTrusts, Grant, Snapshot, DeleteTemp, Append, Move, Load, Require,
                AuthArm, Restore, Relinquish, Fail, Untrust, ArmListener, Arm, At
  <2> QED BY <2>2, <2>3, StepKeeps
<1>4. ASSUME NEW h \in Hubs, NEW p \in Names, Drop(h, p) PROVE Inv'
  BY <1>4, DropKeeps
<1>5. CASE UNCHANGED vars
  <2>1. \A g \in Hubs : Same(g)
    BY <1>5 DEF vars, files, Same
  <2>2. TypeOK' /\ Apart'
    BY <1>5 DEF vars, files, Inv, TypeOK, Apart, Touches
  <2>3. Stages'
    <3> SUFFICES ASSUME NEW u \in Threads, NEW k \in Call, call[u] = k, k.at # "idle"
                 PROVE  Stage(k)'
      BY <1>5 DEF Stages, vars
    <3> QED BY <2>1, Knows, StageKept
  <2>4. HubInv'
    BY <1>5, <2>1, SameKeeps DEF vars, Inv, HubInv, Busy, Touches
  <2> QED BY <2>2, <2>3, <2>4 DEF Inv
<1> QED BY <1>1, <1>2, <1>3, <1>4, <1>5 DEF Next, Begin

-----------------------------------------------------------------------------
(* The theorems *)

LEMMA SpecInv == ASSUME Serial PROVE Spec => []Inv
<1>1. Init => Inv
  BY InvInit
<1>2. Inv /\ [Next]_vars => Inv'
  BY InvNext
<1> QED BY <1>1, <1>2, PTL DEF Spec

\* Calls on one hub coming one at a time, a hub no call is under way on has every
\* peer it trusts on the list the kernel loaded, with the key it trusts it by,
\* wherever TrustAndEnforce was refused; only a roll-back that could not be written
\* is excepted.
THEOREM TrustListed == ASSUME Serial PROVE Spec => []TrustIsListed
<1>1. Inv => TrustIsListed
  BY DEF Inv, HubInv, Settled, Listed, TrustIsListed
<1> QED BY <1>1, SpecInv, PTL

\* A hub is armed only towards a peer it lists and with its enforcement on, at
\* every step of Listen, Connect and Link and through every refusal.
THEOREM ArmedEnforced == ASSUME Serial PROVE Spec => []ArmedIsEnforced
<1>1. Inv => ArmedIsEnforced
  BY DEF Inv, HubInv, Enforced, Secured, ArmedIsEnforced
<1> QED BY <1>1, SpecInv, PTL

\* A Listen or Connect refused inside TrustAndEnforce has put the trusted set back
\* as it found it; one that ArmResolved refuses leaves its whole grant: the set
\* changed for its peer alone, listed by the kernel and enforced.
THEOREM RefusalWhole == ASSUME Serial PROVE Spec => []RefusalIsWhole
<1>1. Inv => RefusalIsWhole
  <2> SUFFICES ASSUME Inv, NEW t \in Threads, call[t].op = "connect",
                      At(t, "failed") \/ At(t, "refused")
               PROVE  /\ At(t, "failed") => trusted[call[t].hub] = call[t].found
                      /\ At(t, "refused") =>
                           /\ trusted[call[t].hub] = [call[t].found EXCEPT ![call[t].peer] = call[t].key]
                           /\ list[call[t].hub] = trusted[call[t].hub] /\ required[call[t].hub]
    BY DEF RefusalIsWhole
  <2>1. PICK k \in Call : k = call[t] /\ k.at \in {"failed", "refused"}
    BY DEF Inv, TypeOK, At
  <2>2. Stage(k)
    BY <2>1 DEF Inv, Stages
  <2> QED BY <2>1, <2>2 DEF Stage, FoundStage, ListStage, ArmStage, Secured, At
<1> QED BY <1>1, SpecInv, PTL

=============================================================================
