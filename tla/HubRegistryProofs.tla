-------------------------- MODULE HubRegistryProofs --------------------------
(***************************************************************************)
(* What HubRegistry promises, for any number of threads, addresses and     *)
(* hubs: one open hub per address, whatever clients do; and, when clients  *)
(* close hubs only while they hold a reference, no hub deleted under       *)
(* anybody and no pump left running without a kernel.  Then what           *)
(* Provisioning adds: its steps are steps of the registry, and the keys of *)
(* an open secure hub are where its peers look, whatever clients do.       *)
(***************************************************************************)
EXTENDS Provisioning, TLAPS

Making   == {"check", "start", "publish"}
Sweeping == {"sweep", "sweepStop", "sweepDelete"}
Pumped   == {"publish", "unwindStop", "unlist", "stop", "sweepStop"}

\* One open hub per address.
OneOpenPerAddress ==
  \A h, g \in listHubs : hub[h].address = hub[g].address => h = g

\* A thread about to publish has a hub of its own, made for the address it asked
\* for and not on the list yet.
Publishing ==
  /\ \A h \in listHubs : hub[h].life # "unborn"
  /\ \A t \in Threads : call[t].at \in InHub => call[t].hub \in Hubs
  /\ \A t \in Threads : call[t].at \in Making <=> request[t].answer = "pending"
  /\ \A t \in Threads : At(t, "publish") =>
       /\ hub[call[t].hub].life # "unborn"
       /\ hub[call[t].hub].address = request[t].address
       /\ call[t].hub \notin listHubs
       /\ \A u \in Threads \ {t} : At(u, "publish") => call[u].hub # call[t].hub

Inv == TypeOK /\ OneOpenPerAddress /\ Publishing

\* A thread inside a hub has it to itself, and it is off the list unless the
\* thread is about to take it off; one that came through Close has latched it.
InMethod ==
  \A t \in Threads : call[t].at \in InHub =>
    /\ hub[call[t].hub].life = "live"
    /\ call[t].hub \in listHubs => At(t, "unlist")
    /\ call[t].at \in {"unlist", "stop", "delete"} => hub[call[t].hub].bClosed
    /\ \A u \in Threads \ {t} : call[u].at \in InHub => call[u].hub # call[t].hub

\* The hubs on the list are live, and nothing is deleted twice.
Lives ==
  /\ \A h \in listHubs : hub[h].life = "live"
  /\ \A h \in Hubs : hub[h].life # "deletedTwice"

\* A thread in a call holds a reference, except the one that gave back the last.
Referenced ==
  /\ \A t \in Threads : call[t].at \in Sweeping => instance = t /\ holders = {}
  /\ \A t \in Threads : call[t].at \notin Sweeping \cup {"idle"} => t \in holders
  /\ instance \in Threads => call[instance].at \in Sweeping

\* A pump belongs to an open hub or to one some thread is making or closing; with
\* the kernel down there is neither.
PumpsAreKept ==
  /\ \A h \in Hubs : hub[h].pump = "spawned" =>
       \/ h \in listHubs
       \/ \E t \in Threads : call[t].hub = h /\ call[t].at \in Pumped
  /\ ~kernel => holders = {} /\ instance = NoThread /\ listHubs = {}

RefInv == InMethod /\ Lives /\ Referenced /\ PumpsAreKept

-----------------------------------------------------------------------------
\* What the three ways of moving on do to the state of the calls.
LEMMA GotoMoves ==
  ASSUME TypeOK, NEW t \in Threads, NEW s \in Steps, NEW h \in Hubs \cup {NoHub},
         Goto(t, s, h)
  PROVE  /\ call' \in [Threads -> Call] /\ call'[t].at = s /\ call'[t].hub = h
         /\ \A u \in Threads \ {t} : call'[u] = call[u]
  BY DEF Goto, TypeOK, Call

\* A call that returns leaves its thread idle and in no hub.
LEMMA ReturnMoves ==
  ASSUME TypeOK, NEW t \in Threads, Return(t)
  PROVE  /\ call' \in [Threads -> Call] /\ call'[t].at = "idle"
         /\ \A u \in Threads \ {t} : call'[u] = call[u]
  BY DEF Return, Idle, TypeOK, Call, Steps

\* An answer changes one thread's request, and not the address it named.
LEMMA AnswerMoves ==
  ASSUME TypeOK, NEW t \in Threads, NEW a \in {"made", "duplicate", "failed"},
         Answer(t, a)
  PROVE  /\ request' \in [Threads -> Request] /\ request'[t].answer = a
         /\ request'[t].address = request[t].address
         /\ \A u \in Threads \ {t} : request'[u] = request[u]
  BY DEF Answer, TypeOK, Request

\* Close latches one hub and leaves everything else about it.
LEMMA CloseMoves ==
  ASSUME TypeOK, NEW t \in Threads, NEW h \in Hubs, Close(t, h)
  PROVE  /\ hub' \in [Hubs -> Hub]
         /\ hub'[h].bClosed /\ ~hub[h].bClosed
         /\ \A g \in Hubs : g # h => hub'[g] = hub[g]
         /\ \A g \in Hubs : /\ hub'[g].life = hub[g].life
                            /\ hub'[g].address = hub[g].address
                            /\ hub'[g].pump = hub[g].pump
<1>1. hub[h] \in Hub
  BY DEF TypeOK
<1>2. hub' = [hub EXCEPT ![h] = [hub[h] EXCEPT !.bClosed = TRUE]] /\ ~hub[h].bClosed
  BY DEF Close
<1>3. /\ hub'[h] = [hub[h] EXCEPT !.bClosed = TRUE]
      /\ \A g \in Hubs : g # h => hub'[g] = hub[g]
  BY <1>2 DEF TypeOK
<1>4. hub'[h] \in Hub
  BY <1>1, <1>3 DEF Hub
<1>5. hub' \in [Hubs -> Hub]
  BY <1>2, <1>3, <1>4 DEF TypeOK
<1>6. /\ hub'[h].bClosed /\ hub'[h].life = hub[h].life
      /\ hub'[h].address = hub[h].address /\ hub'[h].pump = hub[h].pump
  BY <1>1, <1>3 DEF Hub
<1> QED BY <1>2, <1>3, <1>5, <1>6

\* The kernel's cleanup ends pumps that were not spawned, and nothing else.
LEMMA CleanupMoves ==
  ASSUME TypeOK, NEW t \in Threads, Cleanup(t)
  PROVE  /\ hub' \in [Hubs -> Hub]
         /\ \A g \in Hubs : /\ hub'[g].life = hub[g].life
                            /\ hub'[g].address = hub[g].address
                            /\ hub'[g].bClosed = hub[g].bClosed
                            /\ hub'[g].pump = "spawned" => hub[g].pump = "spawned"
<1>1. hub' = [h \in Hubs |-> IF hub[h].pump = "caller"
                             THEN [hub[h] EXCEPT !.pump = "none"] ELSE hub[h]]
  BY DEF Cleanup
<1>2. ASSUME NEW g \in Hubs
      PROVE  /\ hub'[g] \in Hub
             /\ hub'[g].life = hub[g].life /\ hub'[g].address = hub[g].address
             /\ hub'[g].bClosed = hub[g].bClosed
             /\ hub'[g].pump = "spawned" => hub[g].pump = "spawned"
  <2>1. hub[g] \in Hub
    BY DEF TypeOK
  <2>2. CASE hub[g].pump = "caller"
    <3>1. hub'[g] = [hub[g] EXCEPT !.pump = "none"]
      BY <1>1, <2>2
    <3> QED BY <2>1, <3>1 DEF Hub, Pumps
  <2>3. CASE hub[g].pump # "caller"
    BY <1>1, <2>1, <2>3
  <2> QED BY <2>2, <2>3
<1>3. hub' \in [Hubs -> Hub]
  BY <1>1, <1>2
<1> QED BY <1>2, <1>3

\* Whichever path the pump is stopped on, the hub is left without a spawned one.
LEMMA StopMoves ==
  ASSUME TypeOK, Publishing, NEW t \in Threads, StopPump(t)
  PROVE  /\ call[t].hub \in Hubs /\ call[t].at \in {"stop", "unwindStop", "sweepStop"}
         /\ hub' \in [Hubs -> Hub]
         /\ hub'[call[t].hub].pump # "spawned"
         /\ \A g \in Hubs : g # call[t].hub => hub'[g] = hub[g]
         /\ \A g \in Hubs : /\ hub'[g].life = hub[g].life
                            /\ hub'[g].address = hub[g].address
                            /\ hub'[g].bClosed = hub[g].bClosed
         /\ call' \in [Threads -> Call] /\ call'[t].hub = call[t].hub
         /\ call'[t].at \in {"delete", "unwindDelete", "sweepDelete"}
         /\ call'[t].at = "delete" <=> call[t].at = "stop"
         /\ call'[t].at = "sweepDelete" <=> call[t].at = "sweepStop"
         /\ \A u \in Threads \ {t} : call'[u] = call[u]
         /\ UNCHANGED <<holders, kernel, instance, listHubs, request>>
<1> DEFINE h == call[t].hub
<1>1. h \in Hubs /\ call[t].at \in {"stop", "unwindStop", "sweepStop"}
  BY DEF StopPump, Publishing, InHub, Steps
<1>2. PICK p \in {"caller", "none", "expired"} : hub' = [hub EXCEPT ![h].pump = p]
  BY DEF StopPump
<1>3. hub[h] \in Hub
  BY <1>1 DEF TypeOK
<1>4. /\ hub'[h] = [hub[h] EXCEPT !.pump = p]
      /\ \A g \in Hubs : g # h => hub'[g] = hub[g]
  BY <1>1, <1>2 DEF TypeOK
<1>5. hub'[h] \in Hub
  BY <1>3, <1>4 DEF Hub, Pumps
<1>6. hub' \in [Hubs -> Hub]
  BY <1>2, <1>4, <1>5 DEF TypeOK
<1>7. /\ hub'[h].pump = p /\ hub'[h].life = hub[h].life
      /\ hub'[h].address = hub[h].address /\ hub'[h].bClosed = hub[h].bClosed
  BY <1>3, <1>4 DEF Hub
<1>8. hub'[h].pump # "spawned"
  BY <1>7
<1>9. PICK s \in {"delete", "unwindDelete", "sweepDelete"} :
        /\ Goto(t, s, h)
        /\ s = "delete" <=> call[t].at = "stop"
        /\ s = "sweepDelete" <=> call[t].at = "sweepStop"
  BY <1>1 DEF StopPump, At
<1>10. /\ call' \in [Threads -> Call] /\ call'[t].at = s /\ call'[t].hub = h
       /\ \A u \in Threads \ {t} : call'[u] = call[u]
  BY <1>1, <1>9, GotoMoves DEF Steps
<1>11. UNCHANGED <<holders, kernel, instance, listHubs, request>>
  BY DEF StopPump
<1> QED BY <1>1, <1>4, <1>6, <1>7, <1>8, <1>9, <1>10, <1>11

\* A delete ends the life of one hub.
LEMMA DeleteMoves ==
  ASSUME TypeOK, Publishing, NEW t \in Threads, DeleteHub(t)
  PROVE  /\ call[t].hub \in Hubs
         /\ call[t].at \in {"delete", "unwindDelete", "sweepDelete"}
         /\ hub' \in [Hubs -> Hub]
         /\ hub'[call[t].hub].life \in {"deleted", "deletedTwice"}
         /\ hub[call[t].hub].life = "live" => hub'[call[t].hub].life = "deleted"
         /\ \A g \in Hubs : g # call[t].hub => hub'[g] = hub[g]
         /\ \A g \in Hubs : hub'[g].address = hub[g].address /\ hub'[g].pump = hub[g].pump
         /\ call' \in [Threads -> Call]
         /\ call'[t].at = "sweep" <=> call[t].at = "sweepDelete"
         /\ call'[t].at \in {"idle", "sweep"}
         /\ \A u \in Threads \ {t} : call'[u] = call[u]
         /\ UNCHANGED <<holders, kernel, instance, listHubs, request>>
<1> DEFINE h == call[t].hub
           l == IF hub[h].life = "live" THEN "deleted" ELSE "deletedTwice"
<1>1. h \in Hubs /\ call[t].at \in {"delete", "unwindDelete", "sweepDelete"}
  BY DEF DeleteHub, Publishing, InHub, Steps
<1>2. hub[h] \in Hub
  BY <1>1 DEF TypeOK
<1>3. hub' = [hub EXCEPT ![h] = [hub[h] EXCEPT !.life = l]]
  BY <1>1, <1>2 DEF DeleteHub, TypeOK, Hub
<1> HIDE DEF l
<1>4. /\ hub'[h] = [hub[h] EXCEPT !.life = l]
      /\ \A g \in Hubs : g # h => hub'[g] = hub[g]
  BY <1>1, <1>3 DEF TypeOK
<1>5. l \in {"deleted", "deletedTwice"}
  BY DEF l
<1>6. hub'[h] \in Hub
  BY <1>2, <1>4, <1>5 DEF Hub
<1>7. hub' \in [Hubs -> Hub]
  BY <1>3, <1>4, <1>6 DEF TypeOK
<1>8. /\ hub'[h].life = l /\ hub'[h].pump = hub[h].pump
      /\ hub'[h].address = hub[h].address
  BY <1>2, <1>4 DEF Hub
<1>9. /\ call' \in [Threads -> Call]
      /\ call'[t].at = "sweep" <=> call[t].at = "sweepDelete"
      /\ call'[t].at \in {"idle", "sweep"}
      /\ \A u \in Threads \ {t} : call'[u] = call[u]
  <2>1. CASE At(t, "sweepDelete")
    <3>1. Goto(t, "sweep", NoHub)
      BY <2>1 DEF DeleteHub
    <3> QED BY <2>1, <3>1, GotoMoves DEF Steps, At
  <2>2. CASE ~At(t, "sweepDelete")
    <3>1. Return(t)
      BY <2>2 DEF DeleteHub
    <3> QED BY <2>2, <3>1, ReturnMoves DEF At
  <2> QED BY <2>1, <2>2
<1>10. hub[h].life = "live" => hub'[h].life = "deleted"
  BY <1>8 DEF l
<1>11. UNCHANGED <<holders, kernel, instance, listHubs, request>>
  BY DEF DeleteHub
<1> QED BY <1>1, <1>4, <1>5, <1>7, <1>8, <1>9, <1>10, <1>11

\* The initial state satisfies the invariant.
LEMMA InitInv == Init => Inv
<1> SUFFICES ASSUME Init PROVE Inv
  OBVIOUS
<1>1. PICK a \in Addresses :
        /\ hub = [h \in Hubs |-> [address |-> a, life |-> "unborn", pump |-> "none",
                                  owner |-> NoThread, bClosed |-> FALSE]]
        /\ request = [t \in Threads |-> [address |-> a, answer |-> "none"]]
  BY DEF Init
<1>2. TypeOK
  BY <1>1 DEF Init, TypeOK, Hub, Pumps, Call, Steps, Request, Idle
<1>3. OneOpenPerAddress /\ Publishing
  BY <1>1 DEF Init, OneOpenPerAddress, Publishing, At, Idle, InHub, Steps, Making
<1> QED BY <1>2, <1>3 DEF Inv

\* Every step keeps it.
LEMMA NextInv == Inv /\ [Next]_vars => Inv'
<1> SUFFICES ASSUME Inv, [Next]_vars PROVE Inv'
  OBVIOUS
<1> USE NoHubAssumption, NoThreadAssumption DEF Inv
<1>1. ASSUME NEW t \in Threads, Acquire(t) PROVE Inv'
  <2>1. TypeOK'
    BY <1>1 DEF Acquire, TypeOK
  <2>2. OneOpenPerAddress'
    BY <1>1 DEF Acquire, OneOpenPerAddress, TypeOK, Publishing, At, IsTaken
  <2>3. Publishing'
    BY <1>1 DEF Acquire, Publishing, TypeOK, InHub, Steps, Making, At
  <2> QED BY <2>1, <2>2, <2>3 DEF Inv
<1>2. ASSUME NEW t \in Threads, Release(t) PROVE Inv'
  <2>1. CASE instance' = t /\ Goto(t, "sweep", NoHub) /\ holders' = {}
    <3>1. /\ call' \in [Threads -> Call] /\ call'[t].at = "sweep" /\ call'[t].hub = NoHub
          /\ \A u \in Threads \ {t} : call'[u] = call[u]
      BY <1>2, <2>1, GotoMoves DEF Release, Steps
    <3>2. TypeOK'
      BY <1>2, <2>1, <3>1 DEF Release, TypeOK
    <3>3. OneOpenPerAddress'
      BY <1>2, <2>1, <3>1 DEF Release, OneOpenPerAddress, TypeOK, Publishing, At, IsTaken
    <3>4. Publishing'
      BY <1>2, <2>1, <3>1 DEF Release, Publishing, TypeOK, InHub, Steps, Making, At
    <3> QED BY <3>2, <3>3, <3>4 DEF Inv
  <2>2. CASE holders' # {} /\ UNCHANGED <<instance, call>>
    <3>1. TypeOK'
      BY <1>2, <2>2 DEF Release, TypeOK
    <3>2. OneOpenPerAddress'
      BY <1>2, <2>2 DEF Release, OneOpenPerAddress, TypeOK, Publishing, At, IsTaken
    <3>3. Publishing'
      BY <1>2, <2>2 DEF Release, Publishing, TypeOK, InHub, Steps, Making, At
    <3> QED BY <3>1, <3>2, <3>3 DEF Inv
  <2> QED BY <1>2, <2>1, <2>2 DEF Release
<1>3. ASSUME NEW t \in Threads, NEW a \in Addresses, NEW b \in BOOLEAN, CreateHub(t, a, b) PROVE Inv'
  <2>1. /\ call' \in [Threads -> Call] /\ call'[t].at = "check" /\ call'[t].hub = NoHub
        /\ \A u \in Threads \ {t} : call'[u] = call[u]
    BY <1>3 DEF CreateHub, Idle, TypeOK, Call, Steps
  <2>2. /\ request' \in [Threads -> Request] /\ request'[t].answer = "pending"
        /\ \A u \in Threads \ {t} : request'[u] = request[u]
    BY <1>3 DEF CreateHub, TypeOK, Request
  <2>3. TypeOK'
    BY <1>3, <2>1, <2>2 DEF CreateHub, TypeOK
  <2>4. OneOpenPerAddress'
    BY <1>3, <2>1, <2>2 DEF CreateHub, OneOpenPerAddress, TypeOK, Publishing, At, IsTaken
  <2>5. Publishing'
    BY <1>3, <2>1, <2>2 DEF CreateHub, Publishing, TypeOK, InHub, Steps, Making, At
  <2> QED BY <2>3, <2>4, <2>5 DEF Inv
<1>4. ASSUME NEW t \in Threads, NEW h \in Hubs, Close(t, h) PROVE Inv'
  <2>1. /\ call' \in [Threads -> Call] /\ call'[t].at = "unlist" /\ call'[t].hub = h
        /\ \A u \in Threads \ {t} : call'[u] = call[u]
    BY <1>4, GotoMoves DEF Close, Steps
  <2>2. /\ hub' \in [Hubs -> Hub]
        /\ hub'[h].bClosed /\ ~hub[h].bClosed
        /\ \A g \in Hubs : g # h => hub'[g] = hub[g]
        /\ \A g \in Hubs : /\ hub'[g].life = hub[g].life
                           /\ hub'[g].address = hub[g].address
                           /\ hub'[g].pump = hub[g].pump
    BY <1>4, CloseMoves
  <2>3. TypeOK'
    BY <1>4, <2>1, <2>2 DEF Close, TypeOK
  <2>4. OneOpenPerAddress'
    BY <1>4, <2>1, <2>2 DEF Close, OneOpenPerAddress, TypeOK, Publishing, At, IsTaken
  <2>5. Publishing'
    BY <1>4, <2>1, <2>2 DEF Close, Publishing, TypeOK, InHub, Steps, Making, At
  <2> QED BY <2>3, <2>4, <2>5 DEF Inv
<1>5. ASSUME NEW t \in Threads, SweepTake(t) PROVE Inv'
  <2>1. PICK h \in listHubs : listHubs' = listHubs \ {h} /\ Goto(t, "sweepStop", h)
    BY <1>5 DEF SweepTake
  <2>2. listHubs' = listHubs \ {h} /\ h \in Hubs
    BY <1>5, <2>1 DEF TypeOK
  <2>3. /\ call' \in [Threads -> Call] /\ call'[t].at = "sweepStop" /\ call'[t].hub = h
        /\ \A u \in Threads \ {t} : call'[u] = call[u]
    BY <1>5, <2>1, <2>2, GotoMoves DEF SweepTake, Steps
  <2>4. TypeOK'
    BY <1>5, <2>1, <2>2, <2>3 DEF SweepTake, TypeOK
  <2>5. OneOpenPerAddress'
    BY <1>5, <2>1, <2>2, <2>3 DEF SweepTake, OneOpenPerAddress, TypeOK, Publishing, At, IsTaken
  <2>6. Publishing'
    BY <1>5, <2>1, <2>2, <2>3 DEF SweepTake, Publishing, TypeOK, InHub, Steps, Making, At
  <2> QED BY <2>4, <2>5, <2>6 DEF Inv
<1>6. ASSUME NEW t \in Threads, Cleanup(t) PROVE Inv'
  <2>1. /\ call' \in [Threads -> Call] /\ call'[t].at = "idle"
        /\ \A u \in Threads \ {t} : call'[u] = call[u]
    BY <1>6, ReturnMoves DEF Cleanup, Steps
  <2>2. /\ hub' \in [Hubs -> Hub]
        /\ \A g \in Hubs : /\ hub'[g].life = hub[g].life
                           /\ hub'[g].address = hub[g].address
                           /\ hub'[g].bClosed = hub[g].bClosed
                           /\ hub'[g].pump = "spawned" => hub[g].pump = "spawned"
    BY <1>6, CleanupMoves
  <2>3. TypeOK'
    BY <1>6, <2>1, <2>2 DEF Cleanup, TypeOK
  <2>4. OneOpenPerAddress'
    BY <1>6, <2>1, <2>2 DEF Cleanup, OneOpenPerAddress, TypeOK, Publishing, At, IsTaken
  <2>5. Publishing'
    BY <1>6, <2>1, <2>2 DEF Cleanup, Publishing, TypeOK, InHub, Steps, Making, At
  <2> QED BY <2>3, <2>4, <2>5 DEF Inv
<1>7. ASSUME NEW t \in Threads, CheckAddress(t) PROVE Inv'
  <2>1. CASE Answer(t, "duplicate") /\ Return(t)
    <3>1. /\ call' \in [Threads -> Call] /\ call'[t].at = "idle"
          /\ \A u \in Threads \ {t} : call'[u] = call[u]
      BY <1>7, <2>1, ReturnMoves DEF CheckAddress, Steps
    <3>2. /\ request' \in [Threads -> Request] /\ request'[t].answer = "duplicate"
          /\ request'[t].address = request[t].address
          /\ \A u \in Threads \ {t} : request'[u] = request[u]
      BY <1>7, <2>1, <3>1, AnswerMoves DEF CheckAddress, Steps
    <3>3. TypeOK'
      BY <1>7, <2>1, <3>1, <3>2 DEF CheckAddress, TypeOK
    <3>4. OneOpenPerAddress'
      BY <1>7, <2>1, <3>1, <3>2 DEF CheckAddress, OneOpenPerAddress, TypeOK, Publishing, At, IsTaken
    <3>5. Publishing'
      BY <1>7, <2>1, <3>1, <3>2 DEF CheckAddress, Publishing, TypeOK, InHub, Steps, Making, At
    <3> QED BY <3>3, <3>4, <3>5 DEF Inv
  <2>2. CASE Goto(t, "start", NoHub) /\ UNCHANGED request
    <3>1. /\ call' \in [Threads -> Call] /\ call'[t].at = "start" /\ call'[t].hub = NoHub
          /\ \A u \in Threads \ {t} : call'[u] = call[u]
      BY <1>7, <2>2, GotoMoves DEF CheckAddress, Steps
    <3>2. TypeOK'
      BY <1>7, <2>2, <3>1 DEF CheckAddress, TypeOK
    <3>3. OneOpenPerAddress'
      BY <1>7, <2>2, <3>1 DEF CheckAddress, OneOpenPerAddress, TypeOK, Publishing, At, IsTaken
    <3>4. Publishing'
      BY <1>7, <2>2, <3>1 DEF CheckAddress, Publishing, TypeOK, InHub, Steps, Making, At
    <3> QED BY <3>2, <3>3, <3>4 DEF Inv
  <2> QED BY <1>7, <2>1, <2>2 DEF CheckAddress
<1>8. ASSUME NEW t \in Threads, Start(t) PROVE Inv'
  <2>1. CASE \E h \in Hubs :
             /\ hub[h].life = "unborn"
             /\ hub' = [hub EXCEPT ![h] =
                  [address |-> request[t].address, life |-> "live", bClosed |-> FALSE,
                   pump  |-> IF call[t].callerPumped THEN "caller" ELSE "spawned",
                   owner |-> IF call[t].callerPumped THEN t ELSE NoThread]]
             /\ Goto(t, "publish", h) /\ UNCHANGED request
    <3>1. PICK h \in Hubs :
             /\ hub[h].life = "unborn"
             /\ hub' = [hub EXCEPT ![h] =
                  [address |-> request[t].address, life |-> "live", bClosed |-> FALSE,
                   pump  |-> IF call[t].callerPumped THEN "caller" ELSE "spawned",
                   owner |-> IF call[t].callerPumped THEN t ELSE NoThread]]
             /\ Goto(t, "publish", h) /\ UNCHANGED request
      BY <2>1
    <3>2. /\ call' \in [Threads -> Call] /\ call'[t].at = "publish" /\ call'[t].hub = h
          /\ \A u \in Threads \ {t} : call'[u] = call[u]
      BY <1>8, <3>1, GotoMoves DEF Start, Steps
    <3>3. /\ hub' \in [Hubs -> Hub]
          /\ hub'[h].life = "live" /\ hub'[h].address = request[t].address /\ hub[h].life = "unborn"
          /\ \A g \in Hubs : g # h => hub'[g] = hub[g]
      BY <1>8, <3>1, <3>2 DEF Start, TypeOK, Hub, Pumps, Request
    <3>4. TypeOK'
      BY <1>8, <3>1, <3>2, <3>3 DEF Start, TypeOK
    <3>5. OneOpenPerAddress'
      BY <1>8, <3>1, <3>2, <3>3 DEF Start, OneOpenPerAddress, TypeOK, Publishing, At, IsTaken
    <3>6. Publishing'
      BY <1>8, <3>1, <3>2, <3>3 DEF Start, Publishing, TypeOK, InHub, Steps, Making, At
    <3> QED BY <3>4, <3>5, <3>6 DEF Inv
  <2>2. CASE Answer(t, "failed") /\ Return(t) /\ UNCHANGED hub
    <3>1. /\ call' \in [Threads -> Call] /\ call'[t].at = "idle"
          /\ \A u \in Threads \ {t} : call'[u] = call[u]
      BY <1>8, <2>2, ReturnMoves DEF Start, Steps
    <3>2. /\ request' \in [Threads -> Request] /\ request'[t].answer = "failed"
          /\ request'[t].address = request[t].address
          /\ \A u \in Threads \ {t} : request'[u] = request[u]
      BY <1>8, <2>2, <3>1, AnswerMoves DEF Start, Steps
    <3>3. TypeOK'
      BY <1>8, <2>2, <3>1, <3>2 DEF Start, TypeOK
    <3>4. OneOpenPerAddress'
      BY <1>8, <2>2, <3>1, <3>2 DEF Start, OneOpenPerAddress, TypeOK, Publishing, At, IsTaken
    <3>5. Publishing'
      BY <1>8, <2>2, <3>1, <3>2 DEF Start, Publishing, TypeOK, InHub, Steps, Making, At
    <3> QED BY <3>3, <3>4, <3>5 DEF Inv
  <2> QED BY <1>8, <2>1, <2>2 DEF Start
<1>9. ASSUME NEW t \in Threads, Publish(t) PROVE Inv'
  <2>1. CASE /\ IsTaken(request[t].address) /\ Answer(t, "duplicate")
             /\ Goto(t, "unwindStop", call[t].hub) /\ UNCHANGED listHubs
    <3>1. call[t].hub \in Hubs
      BY <1>9, <2>1 DEF Publish, Publishing, InHub, Steps, At
    <3>2. /\ call' \in [Threads -> Call] /\ call'[t].at = "unwindStop" /\ call'[t].hub = call[t].hub
          /\ \A u \in Threads \ {t} : call'[u] = call[u]
      BY <1>9, <2>1, <3>1, GotoMoves DEF Publish, Steps
    <3>3. /\ request' \in [Threads -> Request] /\ request'[t].answer = "duplicate"
          /\ request'[t].address = request[t].address
          /\ \A u \in Threads \ {t} : request'[u] = request[u]
      BY <1>9, <2>1, <3>1, <3>2, AnswerMoves DEF Publish, Steps
    <3>4. TypeOK'
      BY <1>9, <2>1, <3>1, <3>2, <3>3 DEF Publish, TypeOK
    <3>5. OneOpenPerAddress'
      BY <1>9, <2>1, <3>1, <3>2, <3>3 DEF Publish, OneOpenPerAddress, TypeOK, Publishing, At, IsTaken
    <3>6. Publishing'
      BY <1>9, <2>1, <3>1, <3>2, <3>3 DEF Publish, Publishing, TypeOK, InHub, Steps, Making, At
    <3> QED BY <3>4, <3>5, <3>6 DEF Inv
  <2>2. CASE /\ ~IsTaken(request[t].address) /\ Answer(t, "made")
             /\ listHubs' = listHubs \cup {call[t].hub} /\ Return(t)
    <3>1. call[t].hub \in Hubs
      BY <1>9, <2>2 DEF Publish, Publishing, InHub, Steps, At
    <3>2. /\ call' \in [Threads -> Call] /\ call'[t].at = "idle"
          /\ \A u \in Threads \ {t} : call'[u] = call[u]
      BY <1>9, <2>2, <3>1, ReturnMoves DEF Publish, Steps
    <3>3. /\ request' \in [Threads -> Request] /\ request'[t].answer = "made"
          /\ request'[t].address = request[t].address
          /\ \A u \in Threads \ {t} : request'[u] = request[u]
      BY <1>9, <2>2, <3>1, <3>2, AnswerMoves DEF Publish, Steps
    <3>4. TypeOK'
      BY <1>9, <2>2, <3>1, <3>2, <3>3 DEF Publish, TypeOK
    <3>5. OneOpenPerAddress'
      BY <1>9, <2>2, <3>1, <3>2, <3>3 DEF Publish, OneOpenPerAddress, TypeOK, Publishing, At, IsTaken
    <3>6. Publishing'
      BY <1>9, <2>2, <3>1, <3>2, <3>3 DEF Publish, Publishing, TypeOK, InHub, Steps, Making, At
    <3> QED BY <3>4, <3>5, <3>6 DEF Inv
  <2> QED BY <1>9, <2>1, <2>2 DEF Publish
<1>10. ASSUME NEW t \in Threads, RemoveHub(t) PROVE Inv'
  <2>1. call[t].hub \in Hubs
    BY <1>10 DEF RemoveHub, Publishing, InHub, Steps, At
  <2>2. /\ call' \in [Threads -> Call] /\ call'[t].at = "stop" /\ call'[t].hub = call[t].hub
        /\ \A u \in Threads \ {t} : call'[u] = call[u]
    BY <1>10, <2>1, GotoMoves DEF RemoveHub, Steps
  <2>3. TypeOK'
    BY <1>10, <2>1, <2>2 DEF RemoveHub, TypeOK
  <2>4. OneOpenPerAddress'
    BY <1>10, <2>1, <2>2 DEF RemoveHub, OneOpenPerAddress, TypeOK, Publishing, At, IsTaken
  <2>5. Publishing'
    BY <1>10, <2>1, <2>2 DEF RemoveHub, Publishing, TypeOK, InHub, Steps, Making, At
  <2> QED BY <2>3, <2>4, <2>5 DEF Inv
<1>11. ASSUME NEW t \in Threads, StopPump(t) PROVE Inv'
  <2>1. /\ call[t].hub \in Hubs /\ call[t].at \in {"stop", "unwindStop", "sweepStop"}
        /\ hub' \in [Hubs -> Hub]
        /\ hub'[call[t].hub].pump # "spawned"
        /\ \A g \in Hubs : g # call[t].hub => hub'[g] = hub[g]
        /\ \A g \in Hubs : /\ hub'[g].life = hub[g].life
                           /\ hub'[g].address = hub[g].address
                           /\ hub'[g].bClosed = hub[g].bClosed
        /\ call' \in [Threads -> Call] /\ call'[t].hub = call[t].hub
        /\ call'[t].at \in {"delete", "unwindDelete", "sweepDelete"}
        /\ call'[t].at = "delete" <=> call[t].at = "stop"
        /\ call'[t].at = "sweepDelete" <=> call[t].at = "sweepStop"
        /\ \A u \in Threads \ {t} : call'[u] = call[u]
        /\ UNCHANGED <<holders, kernel, instance, listHubs, request>>
    BY <1>11, StopMoves
  <2>2. TypeOK'
    BY <2>1 DEF TypeOK
  <2>3. OneOpenPerAddress'
    BY <2>1 DEF OneOpenPerAddress, TypeOK, Publishing, At, IsTaken
  <2>4. Publishing'
    BY <2>1 DEF Publishing, TypeOK, InHub, Steps, Making, At
  <2> QED BY <2>2, <2>3, <2>4 DEF Inv
<1>12. ASSUME NEW t \in Threads, DeleteHub(t) PROVE Inv'
  <2>1. /\ call[t].hub \in Hubs
        /\ call[t].at \in {"delete", "unwindDelete", "sweepDelete"}
        /\ hub' \in [Hubs -> Hub]
        /\ hub'[call[t].hub].life \in {"deleted", "deletedTwice"}
        /\ hub[call[t].hub].life = "live" => hub'[call[t].hub].life = "deleted"
        /\ \A g \in Hubs : g # call[t].hub => hub'[g] = hub[g]
        /\ \A g \in Hubs : hub'[g].address = hub[g].address /\ hub'[g].pump = hub[g].pump
        /\ call' \in [Threads -> Call]
        /\ call'[t].at = "sweep" <=> call[t].at = "sweepDelete"
        /\ call'[t].at \in {"idle", "sweep"}
        /\ \A u \in Threads \ {t} : call'[u] = call[u]
        /\ UNCHANGED <<holders, kernel, instance, listHubs, request>>
    BY <1>12, DeleteMoves
  <2>2. TypeOK'
    BY <2>1 DEF TypeOK
  <2>3. OneOpenPerAddress'
    BY <2>1 DEF OneOpenPerAddress, TypeOK, Publishing, At, IsTaken
  <2>4. Publishing'
    <3>1. \A g \in Hubs : hub[g].life # "unborn" => hub'[g].life # "unborn"
      BY <2>1
    <3>2. \A u \in Threads : call[u].at \notin Making /\ u = t => call'[u].at \notin Making
      BY <2>1 DEF Making
    <3>3. \A u \in Threads : call'[u].at \in Making <=> request'[u].answer = "pending"
      BY <2>1, <3>2 DEF Publishing, Making
    <3>4. \A u \in Threads : call'[u].at \in InHub => u # t /\ call'[u].hub \in Hubs
      BY <2>1 DEF Publishing, InHub, Steps
    <3>5. /\ \A u \in Threads : At(u, "publish")' => u # t /\ At(u, "publish") /\ call'[u].hub = call[u].hub
          /\ \A u \in Threads : At(u, "publish") => call[u].hub \in Hubs
      BY <2>1 DEF Publishing, InHub, Steps, At
    <3>6. \A h \in listHubs' : hub'[h].life # "unborn"
      BY <2>1, <3>1 DEF Publishing, TypeOK
    <3>7. \A u \in Threads : At(u, "publish")' =>
           /\ hub'[call'[u].hub].life # "unborn"
           /\ hub'[call'[u].hub].address = request'[u].address
           /\ call'[u].hub \notin listHubs'
           /\ \A v \in Threads \ {u} : At(v, "publish")' => call'[v].hub # call'[u].hub
      BY <2>1, <3>1, <3>5 DEF Publishing
    <3> QED BY <3>3, <3>4, <3>6, <3>7 DEF Publishing
  <2> QED BY <2>2, <2>3, <2>4 DEF Inv
<1>13. CASE UNCHANGED vars
  BY <1>13 DEF vars, Inv, TypeOK, OneOpenPerAddress, Publishing, At, IsTaken
<1> QED
  BY <1>1, <1>2, <1>3, <1>4, <1>5, <1>6, <1>7, <1>8, <1>9, <1>10, <1>11, <1>12, <1>13
  DEF Next, Begin, Continue

\* The invariant holds in every reachable state.
LEMMA SpecInv == Spec => []Inv
  BY InitInv, NextInv, PTL DEF Spec

\* The variables keep their types, for any number of threads and of hubs.
THEOREM TypeCorrect == Spec => []TypeOK
  BY SpecInv, PTL DEF Inv

-----------------------------------------------------------------------------

\* The initial state satisfies what depends on the clients.
LEMMA InitRef == Init => RefInv
  BY NoThreadAssumption
  DEF Init, RefInv, InMethod, Lives, Referenced, PumpsAreKept, Idle, InHub, Steps,
      Sweeping, Pumped

\* Every step keeps that too, when clients close with a reference.
LEMMA NextRef == RefToClose /\ Inv /\ RefInv /\ [Next]_vars => RefInv'
<1> SUFFICES ASSUME RefToClose, Inv, RefInv, [Next]_vars PROVE RefInv'
  OBVIOUS
<1> USE NoHubAssumption, NoThreadAssumption DEF Inv, RefInv
<1>1. ASSUME NEW t \in Threads, Acquire(t) PROVE RefInv'
  <2>1. InMethod'
    BY <1>1 DEF Acquire, InMethod, TypeOK, Publishing, Lives, Referenced, Sweeping, InHub, Steps, At
  <2>2. Lives'
    BY <1>1 DEF Acquire, Lives, TypeOK, InMethod, InHub, Steps, At
  <2>3. Referenced'
    BY <1>1 DEF Acquire, Referenced, TypeOK, Sweeping, Steps, At
  <2>4. PumpsAreKept'
    BY <1>1 DEF Acquire, PumpsAreKept, TypeOK, Publishing, Referenced, InMethod, InHub, Steps, Sweeping, Pumped, At
  <2> QED BY <2>1, <2>2, <2>3, <2>4 DEF RefInv
<1>2. ASSUME NEW t \in Threads, Release(t) PROVE RefInv'
  <2>1. CASE instance' = t /\ Goto(t, "sweep", NoHub) /\ holders' = {}
    <3>1. /\ call' \in [Threads -> Call] /\ call'[t].at = "sweep" /\ call'[t].hub = NoHub
          /\ \A u \in Threads \ {t} : call'[u] = call[u]
      BY <1>2, <2>1, GotoMoves DEF Release, Steps
    <3>2. InMethod'
      BY <1>2, <2>1, <3>1 DEF Release, InMethod, TypeOK, Publishing, Lives, Referenced, Sweeping, InHub, Steps, At
    <3>3. Lives'
      BY <1>2, <2>1, <3>1 DEF Release, Lives, TypeOK, InMethod, InHub, Steps, At
    <3>4. Referenced'
      BY <1>2, <2>1, <3>1 DEF Release, Referenced, TypeOK, Sweeping, Steps, At
    <3>5. PumpsAreKept'
      BY <1>2, <2>1, <3>1 DEF Release, PumpsAreKept, TypeOK, Publishing, Referenced, InMethod, InHub, Steps, Sweeping, Pumped, At
    <3> QED BY <3>2, <3>3, <3>4, <3>5 DEF RefInv
  <2>2. CASE holders' # {} /\ UNCHANGED <<instance, call>>
    <3>1. InMethod'
      BY <1>2, <2>2 DEF Release, InMethod, TypeOK, Publishing, Lives, Referenced, Sweeping, InHub, Steps, At
    <3>2. Lives'
      BY <1>2, <2>2 DEF Release, Lives, TypeOK, InMethod, InHub, Steps, At
    <3>3. Referenced'
      BY <1>2, <2>2 DEF Release, Referenced, TypeOK, Sweeping, Steps, At
    <3>4. PumpsAreKept'
      BY <1>2, <2>2 DEF Release, PumpsAreKept, TypeOK, Publishing, Referenced, InMethod, InHub, Steps, Sweeping, Pumped, At
    <3> QED BY <3>1, <3>2, <3>3, <3>4 DEF RefInv
  <2> QED BY <1>2, <2>1, <2>2 DEF Release
<1>3. ASSUME NEW t \in Threads, NEW a \in Addresses, NEW b \in BOOLEAN, CreateHub(t, a, b) PROVE RefInv'
  <2>1. /\ call' \in [Threads -> Call] /\ call'[t].at = "check" /\ call'[t].hub = NoHub
        /\ \A u \in Threads \ {t} : call'[u] = call[u]
    BY <1>3 DEF CreateHub, Idle, TypeOK, Call, Steps
  <2>2. /\ request' \in [Threads -> Request] /\ request'[t].answer = "pending"
        /\ \A u \in Threads \ {t} : request'[u] = request[u]
    BY <1>3 DEF CreateHub, TypeOK, Request
  <2>3. InMethod'
    BY <1>3, <2>1, <2>2 DEF CreateHub, InMethod, TypeOK, Publishing, Lives, Referenced, Sweeping, InHub, Steps, At
  <2>4. Lives'
    BY <1>3, <2>1, <2>2 DEF CreateHub, Lives, TypeOK, InMethod, InHub, Steps, At
  <2>5. Referenced'
    BY <1>3, <2>1, <2>2 DEF CreateHub, Referenced, TypeOK, Sweeping, Steps, At
  <2>6. PumpsAreKept'
    BY <1>3, <2>1, <2>2 DEF CreateHub, PumpsAreKept, TypeOK, Publishing, Referenced, InMethod, InHub, Steps, Sweeping, Pumped, At
  <2> QED BY <2>3, <2>4, <2>5, <2>6 DEF RefInv
<1>4. ASSUME NEW t \in Threads, NEW h \in Hubs, Close(t, h) PROVE RefInv'
  <2>1. /\ call' \in [Threads -> Call] /\ call'[t].at = "unlist" /\ call'[t].hub = h
        /\ \A u \in Threads \ {t} : call'[u] = call[u]
    BY <1>4, GotoMoves DEF Close, Steps
  <2>2. /\ hub' \in [Hubs -> Hub]
        /\ hub'[h].bClosed /\ ~hub[h].bClosed
        /\ \A g \in Hubs : g # h => hub'[g] = hub[g]
        /\ \A g \in Hubs : /\ hub'[g].life = hub[g].life
                           /\ hub'[g].address = hub[g].address
                           /\ hub'[g].pump = hub[g].pump
    BY <1>4, CloseMoves
  <2>3. InMethod'
    BY <1>4, <2>1, <2>2 DEF Close, InMethod, TypeOK, Publishing, Lives, Referenced, Sweeping, InHub, Steps, At
  <2>4. Lives'
    BY <1>4, <2>1, <2>2 DEF Close, Lives, TypeOK, InMethod, InHub, Steps, At
  <2>5. Referenced'
    BY <1>4, <2>1, <2>2 DEF Close, Referenced, TypeOK, Sweeping, Steps, At
  <2>6. PumpsAreKept'
    BY <1>4, <2>1, <2>2 DEF Close, PumpsAreKept, TypeOK, Publishing, Referenced, InMethod, InHub, Steps, Sweeping, Pumped, At
  <2> QED BY <2>3, <2>4, <2>5, <2>6 DEF RefInv
<1>5. ASSUME NEW t \in Threads, SweepTake(t) PROVE RefInv'
  <2>1. PICK h \in listHubs : listHubs' = listHubs \ {h} /\ Goto(t, "sweepStop", h)
    BY <1>5 DEF SweepTake
  <2>2. listHubs' = listHubs \ {h} /\ h \in Hubs
    BY <1>5, <2>1 DEF TypeOK
  <2>3. /\ call' \in [Threads -> Call] /\ call'[t].at = "sweepStop" /\ call'[t].hub = h
        /\ \A u \in Threads \ {t} : call'[u] = call[u]
    BY <1>5, <2>1, <2>2, GotoMoves DEF SweepTake, Steps
  <2>4. InMethod'
    BY <1>5, <2>1, <2>2, <2>3 DEF SweepTake, InMethod, TypeOK, Publishing, Lives, Referenced, Sweeping, InHub, Steps, At
  <2>5. Lives'
    BY <1>5, <2>1, <2>2, <2>3 DEF SweepTake, Lives, TypeOK, InMethod, InHub, Steps, At
  <2>6. Referenced'
    BY <1>5, <2>1, <2>2, <2>3 DEF SweepTake, Referenced, TypeOK, Sweeping, Steps, At
  <2>7. PumpsAreKept'
    BY <1>5, <2>1, <2>2, <2>3 DEF SweepTake, PumpsAreKept, TypeOK, Publishing, Referenced, InMethod, InHub, Steps, Sweeping, Pumped, At
  <2> QED BY <2>4, <2>5, <2>6, <2>7 DEF RefInv
<1>6. ASSUME NEW t \in Threads, Cleanup(t) PROVE RefInv'
  <2>1. /\ call' \in [Threads -> Call] /\ call'[t].at = "idle"
        /\ \A u \in Threads \ {t} : call'[u] = call[u]
    BY <1>6, ReturnMoves DEF Cleanup, Steps
  <2>2. /\ hub' \in [Hubs -> Hub]
        /\ \A g \in Hubs : /\ hub'[g].life = hub[g].life
                           /\ hub'[g].address = hub[g].address
                           /\ hub'[g].bClosed = hub[g].bClosed
                           /\ hub'[g].pump = "spawned" => hub[g].pump = "spawned"
    BY <1>6, CleanupMoves
  <2>3. InMethod'
    BY <1>6, <2>1, <2>2 DEF Cleanup, InMethod, TypeOK, Publishing, Lives, Referenced, Sweeping, InHub, Steps, At
  <2>4. Lives'
    BY <1>6, <2>1, <2>2 DEF Cleanup, Lives, TypeOK, InMethod, InHub, Steps, At
  <2>5. Referenced'
    BY <1>6, <2>1, <2>2 DEF Cleanup, Referenced, TypeOK, Sweeping, Steps, At
  <2>6. PumpsAreKept'
    BY <1>6, <2>1, <2>2 DEF Cleanup, PumpsAreKept, TypeOK, Publishing, Referenced, InMethod, InHub, Steps, Sweeping, Pumped, At
  <2> QED BY <2>3, <2>4, <2>5, <2>6 DEF RefInv
<1>7. ASSUME NEW t \in Threads, CheckAddress(t) PROVE RefInv'
  <2>1. CASE Answer(t, "duplicate") /\ Return(t)
    <3>1. /\ call' \in [Threads -> Call] /\ call'[t].at = "idle"
          /\ \A u \in Threads \ {t} : call'[u] = call[u]
      BY <1>7, <2>1, ReturnMoves DEF CheckAddress, Steps
    <3>2. /\ request' \in [Threads -> Request] /\ request'[t].answer = "duplicate"
          /\ request'[t].address = request[t].address
          /\ \A u \in Threads \ {t} : request'[u] = request[u]
      BY <1>7, <2>1, <3>1, AnswerMoves DEF CheckAddress, Steps
    <3>3. InMethod'
      BY <1>7, <2>1, <3>1, <3>2 DEF CheckAddress, InMethod, TypeOK, Publishing, Lives, Referenced, Sweeping, InHub, Steps, At
    <3>4. Lives'
      BY <1>7, <2>1, <3>1, <3>2 DEF CheckAddress, Lives, TypeOK, InMethod, InHub, Steps, At
    <3>5. Referenced'
      BY <1>7, <2>1, <3>1, <3>2 DEF CheckAddress, Referenced, TypeOK, Sweeping, Steps, At
    <3>6. PumpsAreKept'
      BY <1>7, <2>1, <3>1, <3>2 DEF CheckAddress, PumpsAreKept, TypeOK, Publishing, Referenced, InMethod, InHub, Steps, Sweeping, Pumped, At
    <3> QED BY <3>3, <3>4, <3>5, <3>6 DEF RefInv
  <2>2. CASE Goto(t, "start", NoHub) /\ UNCHANGED request
    <3>1. /\ call' \in [Threads -> Call] /\ call'[t].at = "start" /\ call'[t].hub = NoHub
          /\ \A u \in Threads \ {t} : call'[u] = call[u]
      BY <1>7, <2>2, GotoMoves DEF CheckAddress, Steps
    <3>2. InMethod'
      BY <1>7, <2>2, <3>1 DEF CheckAddress, InMethod, TypeOK, Publishing, Lives, Referenced, Sweeping, InHub, Steps, At
    <3>3. Lives'
      BY <1>7, <2>2, <3>1 DEF CheckAddress, Lives, TypeOK, InMethod, InHub, Steps, At
    <3>4. Referenced'
      BY <1>7, <2>2, <3>1 DEF CheckAddress, Referenced, TypeOK, Sweeping, Steps, At
    <3>5. PumpsAreKept'
      BY <1>7, <2>2, <3>1 DEF CheckAddress, PumpsAreKept, TypeOK, Publishing, Referenced, InMethod, InHub, Steps, Sweeping, Pumped, At
    <3> QED BY <3>2, <3>3, <3>4, <3>5 DEF RefInv
  <2> QED BY <1>7, <2>1, <2>2 DEF CheckAddress
<1>8. ASSUME NEW t \in Threads, Start(t) PROVE RefInv'
  <2>1. CASE \E h \in Hubs :
             /\ hub[h].life = "unborn"
             /\ hub' = [hub EXCEPT ![h] =
                  [address |-> request[t].address, life |-> "live", bClosed |-> FALSE,
                   pump  |-> IF call[t].callerPumped THEN "caller" ELSE "spawned",
                   owner |-> IF call[t].callerPumped THEN t ELSE NoThread]]
             /\ Goto(t, "publish", h) /\ UNCHANGED request
    <3>1. PICK h \in Hubs :
             /\ hub[h].life = "unborn"
             /\ hub' = [hub EXCEPT ![h] =
                  [address |-> request[t].address, life |-> "live", bClosed |-> FALSE,
                   pump  |-> IF call[t].callerPumped THEN "caller" ELSE "spawned",
                   owner |-> IF call[t].callerPumped THEN t ELSE NoThread]]
             /\ Goto(t, "publish", h) /\ UNCHANGED request
      BY <2>1
    <3>2. /\ call' \in [Threads -> Call] /\ call'[t].at = "publish" /\ call'[t].hub = h
          /\ \A u \in Threads \ {t} : call'[u] = call[u]
      BY <1>8, <3>1, GotoMoves DEF Start, Steps
    <3>3. /\ hub' \in [Hubs -> Hub]
          /\ hub'[h].life = "live" /\ hub'[h].address = request[t].address /\ hub[h].life = "unborn"
          /\ \A g \in Hubs : g # h => hub'[g] = hub[g]
      BY <1>8, <3>1, <3>2 DEF Start, TypeOK, Hub, Pumps, Request
    <3>4. InMethod'
      BY <1>8, <3>1, <3>2, <3>3 DEF Start, InMethod, TypeOK, Publishing, Lives, Referenced, Sweeping, InHub, Steps, At
    <3>5. Lives'
      BY <1>8, <3>1, <3>2, <3>3 DEF Start, Lives, TypeOK, InMethod, InHub, Steps, At
    <3>6. Referenced'
      BY <1>8, <3>1, <3>2, <3>3 DEF Start, Referenced, TypeOK, Sweeping, Steps, At
    <3>7. PumpsAreKept'
      BY <1>8, <3>1, <3>2, <3>3 DEF Start, PumpsAreKept, TypeOK, Publishing, Referenced, InMethod, InHub, Steps, Sweeping, Pumped, At
    <3> QED BY <3>4, <3>5, <3>6, <3>7 DEF RefInv
  <2>2. CASE Answer(t, "failed") /\ Return(t) /\ UNCHANGED hub
    <3>1. /\ call' \in [Threads -> Call] /\ call'[t].at = "idle"
          /\ \A u \in Threads \ {t} : call'[u] = call[u]
      BY <1>8, <2>2, ReturnMoves DEF Start, Steps
    <3>2. /\ request' \in [Threads -> Request] /\ request'[t].answer = "failed"
          /\ request'[t].address = request[t].address
          /\ \A u \in Threads \ {t} : request'[u] = request[u]
      BY <1>8, <2>2, <3>1, AnswerMoves DEF Start, Steps
    <3>3. InMethod'
      BY <1>8, <2>2, <3>1, <3>2 DEF Start, InMethod, TypeOK, Publishing, Lives, Referenced, Sweeping, InHub, Steps, At
    <3>4. Lives'
      BY <1>8, <2>2, <3>1, <3>2 DEF Start, Lives, TypeOK, InMethod, InHub, Steps, At
    <3>5. Referenced'
      BY <1>8, <2>2, <3>1, <3>2 DEF Start, Referenced, TypeOK, Sweeping, Steps, At
    <3>6. PumpsAreKept'
      BY <1>8, <2>2, <3>1, <3>2 DEF Start, PumpsAreKept, TypeOK, Publishing, Referenced, InMethod, InHub, Steps, Sweeping, Pumped, At
    <3> QED BY <3>3, <3>4, <3>5, <3>6 DEF RefInv
  <2> QED BY <1>8, <2>1, <2>2 DEF Start
<1>9. ASSUME NEW t \in Threads, Publish(t) PROVE RefInv'
  <2>1. CASE /\ IsTaken(request[t].address) /\ Answer(t, "duplicate")
             /\ Goto(t, "unwindStop", call[t].hub) /\ UNCHANGED listHubs
    <3>1. call[t].hub \in Hubs
      BY <1>9, <2>1 DEF Publish, Publishing, InHub, Steps, At
    <3>2. /\ call' \in [Threads -> Call] /\ call'[t].at = "unwindStop" /\ call'[t].hub = call[t].hub
          /\ \A u \in Threads \ {t} : call'[u] = call[u]
      BY <1>9, <2>1, <3>1, GotoMoves DEF Publish, Steps
    <3>3. /\ request' \in [Threads -> Request] /\ request'[t].answer = "duplicate"
          /\ request'[t].address = request[t].address
          /\ \A u \in Threads \ {t} : request'[u] = request[u]
      BY <1>9, <2>1, <3>1, <3>2, AnswerMoves DEF Publish, Steps
    <3>4. InMethod'
      BY <1>9, <2>1, <3>1, <3>2, <3>3 DEF Publish, InMethod, TypeOK, Publishing, Lives, Referenced, Sweeping, InHub, Steps, At
    <3>5. Lives'
      BY <1>9, <2>1, <3>1, <3>2, <3>3 DEF Publish, Lives, TypeOK, InMethod, InHub, Steps, At
    <3>6. Referenced'
      BY <1>9, <2>1, <3>1, <3>2, <3>3 DEF Publish, Referenced, TypeOK, Sweeping, Steps, At
    <3>7. PumpsAreKept'
      BY <1>9, <2>1, <3>1, <3>2, <3>3 DEF Publish, PumpsAreKept, TypeOK, Publishing, Referenced, InMethod, InHub, Steps, Sweeping, Pumped, At
    <3> QED BY <3>4, <3>5, <3>6, <3>7 DEF RefInv
  <2>2. CASE /\ ~IsTaken(request[t].address) /\ Answer(t, "made")
             /\ listHubs' = listHubs \cup {call[t].hub} /\ Return(t)
    <3>1. call[t].hub \in Hubs
      BY <1>9, <2>2 DEF Publish, Publishing, InHub, Steps, At
    <3>2. /\ call' \in [Threads -> Call] /\ call'[t].at = "idle"
          /\ \A u \in Threads \ {t} : call'[u] = call[u]
      BY <1>9, <2>2, <3>1, ReturnMoves DEF Publish, Steps
    <3>3. /\ request' \in [Threads -> Request] /\ request'[t].answer = "made"
          /\ request'[t].address = request[t].address
          /\ \A u \in Threads \ {t} : request'[u] = request[u]
      BY <1>9, <2>2, <3>1, <3>2, AnswerMoves DEF Publish, Steps
    <3>4. InMethod'
      BY <1>9, <2>2, <3>1, <3>2, <3>3 DEF Publish, InMethod, TypeOK, Publishing, Lives, Referenced, Sweeping, InHub, Steps, At
    <3>5. Lives'
      BY <1>9, <2>2, <3>1, <3>2, <3>3 DEF Publish, Lives, TypeOK, InMethod, InHub, Steps, At
    <3>6. Referenced'
      BY <1>9, <2>2, <3>1, <3>2, <3>3 DEF Publish, Referenced, TypeOK, Sweeping, Steps, At
    <3>7. PumpsAreKept'
      BY <1>9, <2>2, <3>1, <3>2, <3>3 DEF Publish, PumpsAreKept, TypeOK, Publishing, Referenced, InMethod, InHub, Steps, Sweeping, Pumped, At
    <3> QED BY <3>4, <3>5, <3>6, <3>7 DEF RefInv
  <2> QED BY <1>9, <2>1, <2>2 DEF Publish
<1>10. ASSUME NEW t \in Threads, RemoveHub(t) PROVE RefInv'
  <2>1. call[t].hub \in Hubs
    BY <1>10 DEF RemoveHub, Publishing, InHub, Steps, At
  <2>2. /\ call' \in [Threads -> Call] /\ call'[t].at = "stop" /\ call'[t].hub = call[t].hub
        /\ \A u \in Threads \ {t} : call'[u] = call[u]
    BY <1>10, <2>1, GotoMoves DEF RemoveHub, Steps
  <2>3. InMethod'
    BY <1>10, <2>1, <2>2 DEF RemoveHub, InMethod, TypeOK, Publishing, Lives, Referenced, Sweeping, InHub, Steps, At
  <2>4. Lives'
    BY <1>10, <2>1, <2>2 DEF RemoveHub, Lives, TypeOK, InMethod, InHub, Steps, At
  <2>5. Referenced'
    BY <1>10, <2>1, <2>2 DEF RemoveHub, Referenced, TypeOK, Sweeping, Steps, At
  <2>6. PumpsAreKept'
    BY <1>10, <2>1, <2>2 DEF RemoveHub, PumpsAreKept, TypeOK, Publishing, Referenced, InMethod, InHub, Steps, Sweeping, Pumped, At
  <2> QED BY <2>3, <2>4, <2>5, <2>6 DEF RefInv
<1>11. ASSUME NEW t \in Threads, StopPump(t) PROVE RefInv'
  <2>1. /\ call[t].hub \in Hubs /\ call[t].at \in {"stop", "unwindStop", "sweepStop"}
        /\ hub' \in [Hubs -> Hub]
        /\ hub'[call[t].hub].pump # "spawned"
        /\ \A g \in Hubs : g # call[t].hub => hub'[g] = hub[g]
        /\ \A g \in Hubs : /\ hub'[g].life = hub[g].life
                           /\ hub'[g].address = hub[g].address
                           /\ hub'[g].bClosed = hub[g].bClosed
        /\ call' \in [Threads -> Call] /\ call'[t].hub = call[t].hub
        /\ call'[t].at \in {"delete", "unwindDelete", "sweepDelete"}
        /\ call'[t].at = "delete" <=> call[t].at = "stop"
        /\ call'[t].at = "sweepDelete" <=> call[t].at = "sweepStop"
        /\ \A u \in Threads \ {t} : call'[u] = call[u]
        /\ UNCHANGED <<holders, kernel, instance, listHubs, request>>
    BY <1>11, StopMoves
  <2>2. InMethod'
    BY <2>1 DEF InMethod, TypeOK, Publishing, Lives, Referenced, Sweeping, InHub, Steps, At
  <2>3. Lives'
    BY <2>1 DEF Lives, TypeOK, InMethod, InHub, Steps, At
  <2>4. Referenced'
    BY <2>1 DEF Referenced, TypeOK, Sweeping, Steps, At
  <2>5. PumpsAreKept'
    <3>1. ASSUME NEW g \in Hubs, hub'[g].pump = "spawned"
          PROVE  g \in listHubs' \/ \E u \in Threads : call'[u].hub = g /\ call'[u].at \in Pumped
      <4>1. g # call[t].hub /\ hub[g].pump = "spawned"
        BY <2>1, <3>1
      <4>2. CASE g \in listHubs
        BY <2>1, <4>2
      <4>3. CASE \E u \in Threads : call[u].hub = g /\ call[u].at \in Pumped
        BY <2>1, <4>1, <4>3
      <4> QED BY <4>1, <4>2, <4>3 DEF PumpsAreKept
    <3>2. ~kernel' => holders' = {} /\ instance' = NoThread /\ listHubs' = {}
      BY <2>1 DEF PumpsAreKept
    <3> QED BY <3>1, <3>2 DEF PumpsAreKept
  <2> QED BY <2>2, <2>3, <2>4, <2>5 DEF RefInv
<1>12. ASSUME NEW t \in Threads, DeleteHub(t) PROVE RefInv'
  <2>1. /\ call[t].hub \in Hubs
        /\ call[t].at \in {"delete", "unwindDelete", "sweepDelete"}
        /\ hub' \in [Hubs -> Hub]
        /\ hub'[call[t].hub].life \in {"deleted", "deletedTwice"}
        /\ hub[call[t].hub].life = "live" => hub'[call[t].hub].life = "deleted"
        /\ \A g \in Hubs : g # call[t].hub => hub'[g] = hub[g]
        /\ \A g \in Hubs : hub'[g].address = hub[g].address /\ hub'[g].pump = hub[g].pump
        /\ call' \in [Threads -> Call]
        /\ call'[t].at = "sweep" <=> call[t].at = "sweepDelete"
        /\ call'[t].at \in {"idle", "sweep"}
        /\ \A u \in Threads \ {t} : call'[u] = call[u]
        /\ UNCHANGED <<holders, kernel, instance, listHubs, request>>
    BY <1>12, DeleteMoves
  <2>2. InMethod'
    BY <2>1 DEF InMethod, TypeOK, Publishing, Lives, Referenced, Sweeping, InHub, Steps, At
  <2>3. Lives'
    BY <2>1 DEF Lives, TypeOK, InMethod, InHub, Steps, At
  <2>4. Referenced'
    BY <2>1 DEF Referenced, TypeOK, Sweeping, Steps, At
  <2>5. PumpsAreKept'
    BY <2>1 DEF PumpsAreKept, TypeOK, Publishing, Referenced, InMethod, InHub, Steps, Sweeping, Pumped, At
  <2> QED BY <2>2, <2>3, <2>4, <2>5 DEF RefInv
<1>13. CASE UNCHANGED vars
  BY <1>13 DEF vars, RefInv, InMethod, Lives, Referenced, PumpsAreKept, At, IsTaken
<1> QED
  BY <1>1, <1>2, <1>3, <1>4, <1>5, <1>6, <1>7, <1>8, <1>9, <1>10, <1>11, <1>12, <1>13
  DEF Next, Begin, Continue

\* It holds in every reachable state of such a system.
LEMMA SpecRef == RefToClose => (Spec => [](Inv /\ RefInv))
<1> SUFFICES ASSUME RefToClose PROVE Spec => [](Inv /\ RefInv)
  OBVIOUS
<1>1. Init => Inv /\ RefInv
  BY InitInv, InitRef
<1>2. (Inv /\ RefInv) /\ [Next]_vars => (Inv /\ RefInv)'
  BY NextInv, NextRef
<1> QED BY <1>1, <1>2, PTL DEF Spec

\* No hub is deleted twice or under a thread that is inside it.
THEOREM DeletedOnce == RefToClose => (Spec => []HubDeletedOnce)
<1> SUFFICES ASSUME RefToClose PROVE Spec => []HubDeletedOnce
  OBVIOUS
<1>1. Inv /\ RefInv => HubDeletedOnce
  BY DEF RefInv, InMethod, Lives, HubDeletedOnce
<1> QED BY <1>1, SpecRef, PTL

\* No pump thread outlives the kernel.
THEOREM PumpsHaveKernel == RefToClose => (Spec => []KernelOutlivesPumps)
<1> SUFFICES ASSUME RefToClose PROVE Spec => []KernelOutlivesPumps
  OBVIOUS
<1>1. Inv /\ RefInv => KernelOutlivesPumps
  BY NoThreadAssumption DEF Inv, TypeOK, RefInv, Referenced, PumpsAreKept, Pumped, Sweeping,
     KernelOutlivesPumps
<1> QED BY <1>1, SpecRef, PTL
-----------------------------------------------------------------------------
(* The network is the directory HubDirectory describes. *)

\* An address maps to the one open hub that has it, or to none.
LEMMA OpenIs ==
  ASSUME Inv, NEW a \in Addresses
  PROVE  /\ \A h \in listHubs : hub[h].address = a => Open[a] = h
         /\ Open[a] # NoHub <=> IsTaken(a)
         /\ Open[a] # NoHub => Open[a] \in listHubs /\ hub[Open[a]].address = a
<1>1. CASE IsTaken(a)
  <2>1. Open[a] = CHOOSE h \in listHubs : hub[h].address = a
    BY <1>1 DEF Open
  <2>2. Open[a] \in listHubs /\ hub[Open[a]].address = a
    BY <1>1, <2>1 DEF IsTaken
  <2>3. \A h \in listHubs : hub[h].address = a => Open[a] = h
    BY <2>2 DEF Inv, OneOpenPerAddress
  <2>4. Open[a] # NoHub
    BY <2>2, NoHubAssumption DEF Inv, TypeOK
  <2> QED BY <1>1, <2>2, <2>3, <2>4
<1>2. CASE ~IsTaken(a)
  BY <1>2 DEF Open, IsTaken
<1> QED BY <1>1, <1>2

\* What Open is after a step, given the hubs that are open after it.
LEMMA OpenNext ==
  ASSUME Inv, Inv'
  PROVE  /\ Open = [a \in Addresses |-> Open[a]] /\ Open' = [a \in Addresses |-> Open'[a]]
         /\ \A a \in Addresses :
              /\ \A h \in listHubs' : hub'[h].address = a => Open'[a] = h
              /\ (\A h \in listHubs' : hub'[h].address # a) => Open'[a] = NoHub
<1>1. Open = [a \in Addresses |-> Open[a]] /\ Open' = [a \in Addresses |-> Open'[a]]
  BY DEF Open
<1>2. ASSUME NEW a \in Addresses
      PROVE  /\ \A h \in listHubs' : hub'[h].address = a => Open'[a] = h
             /\ (\A h \in listHubs' : hub'[h].address # a) => Open'[a] = NoHub
  <2>1. CASE \E h \in listHubs' : hub'[h].address = a
    <3>1. Open'[a] = CHOOSE h \in listHubs' : hub'[h].address = a
      BY <2>1 DEF Open, IsTaken
    <3>2. Open'[a] \in listHubs' /\ hub'[Open'[a]].address = a
      BY <2>1, <3>1
    <3> QED BY <2>1, <3>2 DEF Inv, OneOpenPerAddress
  <2>2. CASE ~\E h \in listHubs' : hub'[h].address = a
    BY <2>2 DEF Open, IsTaken
  <2> QED BY <2>1, <2>2
<1> QED BY <1>1, <1>2

\* A step that opens and closes nothing leaves the directory as it is.
LEMMA SameOpen ==
  ASSUME Inv, Inv', listHubs' = listHubs,
         \A h \in listHubs : hub'[h].address = hub[h].address
  PROVE  Open' = Open
<1>1. \A a \in Addresses : Open'[a] = Open[a]
  BY OpenIs, OpenNext DEF IsTaken
<1> QED BY <1>1, OpenNext

\* Taking a hub off the list closes its address.
LEMMA ClosesOne ==
  ASSUME Inv, Inv', NEW g \in listHubs, listHubs' = listHubs \ {g},
         \A h \in listHubs : hub'[h].address = hub[h].address, UNCHANGED request
  PROVE  \E a \in Addresses : Directory!Close(a)
<1>1. PICK a \in Addresses : a = hub[g].address
  BY DEF Inv, TypeOK, Hub
<1>2. Open[a] = g /\ g # NoHub
  BY <1>1, OpenIs, NoHubAssumption DEF Inv, TypeOK
<1>3. \A h \in listHubs' : h \in listHubs /\ hub'[h].address # a
  BY <1>1 DEF Inv, OneOpenPerAddress
<1>4. Open'[a] = NoHub
  BY <1>1, <1>3, OpenNext
<1>5. ASSUME NEW b \in Addresses, b # a PROVE Open'[b] = Open[b]
  <2>1. CASE \E h \in listHubs : hub[h].address = b
    <3>1. PICK h \in listHubs : hub[h].address = b
      BY <2>1
    <3>2. h \in listHubs' /\ hub'[h].address = b
      BY <1>1, <1>5, <3>1
    <3>3. Open[b] = h
      BY <3>1, OpenIs
    <3>4. Open'[b] = h
      BY <3>2, OpenNext
    <3> QED BY <3>3, <3>4
  <2>2. CASE ~\E h \in listHubs : hub[h].address = b
    <3>1. Open[b] = NoHub
      BY <2>2, OpenIs DEF IsTaken
    <3>2. Open'[b] = NoHub
      BY <2>2, <1>3, OpenNext
    <3> QED BY <3>1, <3>2
  <2> QED BY <2>1, <2>2
<1>6. Open' = [Open EXCEPT ![a] = NoHub]
  BY <1>4, <1>5, OpenNext
<1>7. Directory!Close(a)
  BY <1>2, <1>6 DEF Directory!Close
<1> QED BY <1>1, <1>7


\* Publishing a hub whose address is free opens it.
LEMMA OpensOne ==
  ASSUME Inv, Inv', NEW t \in Threads, Publish(t), ~IsTaken(request[t].address)
  PROVE  Directory!Made(t, call[t].hub)
<1> DEFINE a == request[t].address
           g == call[t].hub
<1>1. /\ At(t, "publish") /\ listHubs' = listHubs \cup {g}
      /\ Answer(t, "made") /\ hub' = hub
  BY DEF Publish
<1>2. /\ a \in Addresses /\ g \in Hubs /\ g \notin listHubs /\ g # NoHub
      /\ hub[g].address = a /\ request[t].answer = "pending"
  BY <1>1, NoHubAssumption DEF Inv, TypeOK, Request, Publishing, InHub, Steps, Making, At
<1>3. Open[a] = NoHub
  BY <1>2, OpenIs
<1>4. \A b \in Addresses : Open[b] # g
  BY <1>2, OpenIs
<1>5. Open'[a] = g
  BY <1>1, <1>2, OpenNext
<1>6. ASSUME NEW b \in Addresses, b # a PROVE Open'[b] = Open[b]
  <2>1. CASE \E h \in listHubs : hub[h].address = b
    BY <1>1, <2>1, OpenIs, OpenNext
  <2>2. CASE ~\E h \in listHubs : hub[h].address = b
    <3>1. Open[b] = NoHub
      BY <2>2, OpenIs DEF IsTaken
    <3>2. \A h \in listHubs' : hub'[h].address # b
      BY <1>1, <1>2, <1>6, <2>2
    <3> QED BY <3>1, <3>2, OpenNext
  <2> QED BY <2>1, <2>2
<1>7. Open' = [Open EXCEPT ![a] = g]
  BY <1>5, <1>6, OpenNext
<1> QED BY <1>1, <1>2, <1>3, <1>4, <1>7 DEF Directory!Made, Directory!Answer, Answer

\* The initial state is one of the directory's.
LEMMA DirectoryInit == Init => Directory!Init
<1> SUFFICES ASSUME Init PROVE Directory!Init
  OBVIOUS
<1>1. Open = [a \in Addresses |-> NoHub]
  BY DEF Init, Open, IsTaken
<1>2. \E a \in Addresses : request = [t \in Threads |-> [address |-> a, answer |-> "none"]]
  BY DEF Init
<1> QED BY <1>1, <1>2 DEF Directory!Init

\* Every step is one of the directory's, or changes nothing in it.
LEMMA DirectoryNext ==
  Inv /\ Inv' /\ [Next]_vars => [Directory!Next]_(Directory!vars)
<1> SUFFICES ASSUME Inv, Inv', [Next]_vars PROVE [Directory!Next]_(Directory!vars)
  OBVIOUS
<1>1. ASSUME listHubs' = listHubs, UNCHANGED request,
             \A h \in listHubs : hub'[h].address = hub[h].address
      PROVE  UNCHANGED Directory!vars
  BY <1>1, SameOpen DEF Directory!vars
<1>2. ASSUME UNCHANGED <<listHubs, hub>> PROVE Open' = Open
  BY <1>2, SameOpen
<1>3. ASSUME NEW t \in Threads, Acquire(t) PROVE UNCHANGED Directory!vars
  BY <1>1, <1>3 DEF Acquire
<1>4. ASSUME NEW t \in Threads, Release(t) PROVE UNCHANGED Directory!vars
  BY <1>1, <1>4 DEF Release
<1>5. ASSUME NEW t \in Threads, NEW a \in Addresses, NEW b \in BOOLEAN, CreateHub(t, a, b)
      PROVE  Directory!Ask(t, a)
  <2>1. request[t].answer # "pending"
    BY <1>5 DEF CreateHub, Inv, Publishing, Making, At
  <2>2. /\ request' = [request EXCEPT ![t] = [address |-> a, answer |-> "pending"]]
        /\ UNCHANGED <<listHubs, hub>>
    BY <1>5 DEF CreateHub
  <2> QED BY <1>2, <2>1, <2>2 DEF Directory!Ask
<1>6. ASSUME NEW t \in Threads, NEW h \in Hubs, Close(t, h) PROVE UNCHANGED Directory!vars
  <2>1. \A g \in listHubs : hub'[g].address = hub[g].address
    BY <1>6, CloseMoves DEF Inv, TypeOK
  <2> QED BY <1>1, <1>6, <2>1 DEF Close
<1>7. ASSUME NEW t \in Threads, SweepTake(t) PROVE \E a \in Addresses : Directory!Close(a)
  BY <1>7, ClosesOne DEF SweepTake
<1>8. ASSUME NEW t \in Threads, Cleanup(t) PROVE UNCHANGED Directory!vars
  <2>1. \A g \in listHubs : hub'[g].address = hub[g].address
    BY <1>8, CleanupMoves DEF Inv, TypeOK
  <2> QED BY <1>1, <1>8, <2>1 DEF Cleanup
<1>9. ASSUME NEW t \in Threads, CheckAddress(t)
      PROVE  Directory!Duplicate(t) \/ UNCHANGED Directory!vars
  <2>1. CASE IsTaken(request[t].address)
    <3>1. request[t].answer = "pending" /\ request[t].address \in Addresses
      BY <1>9 DEF CheckAddress, Inv, TypeOK, Request, Publishing, Making, At
    <3>2. Open[request[t].address] # NoHub
      BY <2>1, <3>1, OpenIs
    <3>3. Answer(t, "duplicate") /\ UNCHANGED <<listHubs, hub>>
      BY <1>9, <2>1 DEF CheckAddress
    <3> QED BY <1>2, <3>1, <3>2, <3>3 DEF Directory!Duplicate, Directory!Answer, Answer
  <2>2. CASE ~IsTaken(request[t].address)
    BY <1>1, <1>9, <2>2 DEF CheckAddress
  <2> QED BY <2>1, <2>2
<1>10. ASSUME NEW t \in Threads, Start(t)
       PROVE  Directory!Failed(t) \/ UNCHANGED Directory!vars
  <2>1. CASE Answer(t, "failed") /\ UNCHANGED hub
    <3>1. request[t].answer = "pending"
      BY <1>10 DEF Start, Inv, Publishing, Making, At
    <3>2. UNCHANGED listHubs
      BY <1>10 DEF Start
    <3> QED BY <1>2, <2>1, <3>1, <3>2 DEF Directory!Failed, Directory!Answer, Answer
  <2>2. CASE \E h \in Hubs : /\ hub[h].life = "unborn"
                             /\ \A g \in Hubs \ {h} : hub'[g] = hub[g]
                             /\ UNCHANGED request
    <3>1. \A g \in listHubs : hub'[g].address = hub[g].address
      BY <2>2 DEF Inv, TypeOK, Publishing
    <3> QED BY <1>1, <1>10, <2>2, <3>1 DEF Start
  <2>3. (Answer(t, "failed") /\ UNCHANGED hub)
        \/ \E h \in Hubs : /\ hub[h].life = "unborn"
                           /\ \A g \in Hubs \ {h} : hub'[g] = hub[g]
                           /\ UNCHANGED request
    BY <1>10 DEF Start, Inv, TypeOK
  <2> QED BY <2>1, <2>2, <2>3
<1>11. ASSUME NEW t \in Threads, Publish(t)
       PROVE  Directory!Duplicate(t) \/ \E h \in Hubs : Directory!Made(t, h)
  <2>1. /\ request[t].answer = "pending" /\ request[t].address \in Addresses
        /\ call[t].hub \in Hubs
    BY <1>11 DEF Publish, Inv, TypeOK, Request, Publishing, Making, InHub, Steps, At
  <2>2. CASE IsTaken(request[t].address)
    <3>1. Open[request[t].address] # NoHub
      BY <2>1, <2>2, OpenIs
    <3>2. Answer(t, "duplicate") /\ UNCHANGED <<listHubs, hub>>
      BY <1>11, <2>2 DEF Publish
    <3> QED BY <1>2, <2>1, <3>1, <3>2 DEF Directory!Duplicate, Directory!Answer, Answer
  <2>3. CASE ~IsTaken(request[t].address)
    BY <1>11, <2>1, <2>3, OpensOne
  <2> QED BY <2>2, <2>3
<1>12. ASSUME NEW t \in Threads, RemoveHub(t)
       PROVE  (\E a \in Addresses : Directory!Close(a)) \/ UNCHANGED Directory!vars
  <2>1. /\ listHubs' = listHubs \ {call[t].hub} /\ UNCHANGED <<hub, request>>
    BY <1>12 DEF RemoveHub
  <2>2. CASE call[t].hub \in listHubs
    BY <2>1, <2>2, ClosesOne
  <2>3. CASE call[t].hub \notin listHubs
    BY <1>1, <2>1, <2>3
  <2> QED BY <2>2, <2>3
<1>13. ASSUME NEW t \in Threads, StopPump(t) PROVE UNCHANGED Directory!vars
  <2>1. \A g \in listHubs : hub'[g].address = hub[g].address
    BY <1>13, StopMoves DEF Inv, TypeOK
  <2> QED BY <1>1, <1>13, <2>1 DEF StopPump
<1>14. ASSUME NEW t \in Threads, DeleteHub(t) PROVE UNCHANGED Directory!vars
  <2>1. \A g \in listHubs : hub'[g].address = hub[g].address
    BY <1>14, DeleteMoves DEF Inv, TypeOK
  <2> QED BY <1>1, <1>14, <2>1 DEF DeleteHub
<1>15. CASE UNCHANGED vars
  BY <1>1, <1>15 DEF vars
<1> QED
  BY <1>3, <1>4, <1>5, <1>6, <1>7, <1>8, <1>9, <1>10, <1>11, <1>12, <1>13, <1>14, <1>15
  DEF Next, Begin, Continue, Directory!Next

\* However creations and closes interleave, the network is a directory of hubs.
THEOREM NetworkIsDirectory == Spec => IsDirectory
<1>1. Spec => []Inv
  BY SpecInv
<1> QED BY <1>1, DirectoryInit, DirectoryNext, PTL DEF Spec, IsDirectory, Directory!Spec
-----------------------------------------------------------------------------
(* Secure hubs. *)

\* No two addresses have one stem: the hash tells apart what is alike as a file
\* name, and names that differ in the case of a letter are not both in use.
StemsApart == \A a, b \in Addresses : SecurityStemOf(a) = SecurityStemOf(b) => a = b

\* Hubs on the list, or about to be put there.
Coming == listHubs \cup {call[t].hub : t \in {u \in Threads : At(u, "publish")}}

\* The last reference is given back by a thread that is making no hub, and the
\* network goes with nobody making one.
Creators ==
  /\ \A t \in Threads : call[t].at \in Sweeping => instance = t /\ holders = {}
  /\ \A t \in Threads : call[t].at \in Making => t \in holders

\* A creation under way keeps to the directory that is latched, and has written
\* the halves it has come past.
Staged ==
  \A t \in Threads :
    /\ prov[t].stage = "paths" => prov[t].dir = NoDir
    /\ prov[t].stage # "paths" =>
         /\ At(t, "start") /\ secUsed
         /\ prov[t].dir = secDir /\ secDir \in Dirs /\ secDir \in revoked
    /\ prov[t].stage \in {"publish", "revocation", "held"} => "key.pub" \in keyFiles[Place(t)]
    /\ prov[t].stage \in {"revocation", "held"} => "agree.pub" \in keyFiles[Place(t)]

\* A hub that is or will be on the list has what its creation left there.
Kept ==
  \A h \in Coming : hubDir[h] # NoDir =>
    /\ hubDir[h] = secDir /\ secUsed /\ secDir \in Dirs /\ secDir \in revoked
    /\ {"key.pub", "agree.pub"} \subseteq keyFiles[<<secDir, SecurityStemOf(hub[h].address)>>]

SecInv == ProvTypeOK /\ Creators /\ Staged /\ Kept

\* Every step of a network with secure hubs is one of the registry, or leaves it alone.
LEMMA ProvStep == [ProvNext]_<<vars, provVars>> => [Next]_vars
<1> SUFFICES ASSUME [ProvNext]_<<vars, provVars>> PROVE [Next]_vars
  OBVIOUS
<1>1. ASSUME NEW t \in Threads, Refuse(t), At(t, "start") PROVE Start(t)
  BY <1>1 DEF Refuse, Start
<1>2. ASSUME NEW t \in Threads, NEW s, Advance(t, s) PROVE UNCHANGED vars
  BY <1>2 DEF Advance
<1>3. ASSUME NEW t \in Threads, NEW dir \in Dirs \cup {NoDir}, SetSecurityDir(t, dir)
      PROVE  UNCHANGED vars
  BY <1>3 DEF SetSecurityDir
<1>4. ASSUME NEW t \in Threads, Provision(t) PROVE Start(t) \/ UNCHANGED vars
  BY <1>1, <1>2, <1>4 DEF Provision, SecurityPaths, ProvisionAuth, SetAgreementKey,
     SaveAgreementPublicKey, SetRevocationList, Provisions
<1>5. ASSUME NEW t \in Threads, ProvStart(t) \/ ProvCleanup(t) \/ ProvDelete(t) \/ Elsewhere(t)
      PROVE  Begin(t) \/ Continue(t)
  BY <1>5 DEF ProvStart, ProvCleanup, ProvDelete, Elsewhere, Continue
<1>6. CASE UNCHANGED <<vars, provVars>>
  BY <1>6
<1> QED BY <1>3, <1>4, <1>5, <1>6 DEF ProvNext, Next, Continue

\* What is proved of the registry holds when some hubs are secure.
THEOREM SecureNetworkIsNetwork == ProvSpec => Spec
<1>1. ProvInit => Init
  BY DEF ProvInit
<1> QED BY <1>1, ProvStep, PTL DEF ProvSpec, Spec

\* The registry's steps, the start of a pump apart, put no hub on its way to the
\* list and take nobody out of a creation.
LEMMA RegistryKeeps ==
  ASSUME Inv, NEW t \in Threads,
         \/ Begin(t) \/ SweepTake(t) \/ Cleanup(t) \/ CheckAddress(t) \/ Publish(t)
         \/ RemoveHub(t) \/ StopPump(t) \/ DeleteHub(t)
  PROVE  /\ Coming' \subseteq Coming
         /\ \A h \in Coming : h \in Hubs /\ hub'[h].address = hub[h].address
         /\ \A u \in Threads : At(u, "start") => At(u, "start")' /\ request'[u] = request[u]
<1> USE DEF Inv
<1>1. \A h \in Coming : h \in Hubs
  BY DEF Coming, TypeOK, Publishing, InHub, Steps, At
<1>2. CASE Acquire(t)
  BY <1>1, <1>2 DEF Acquire, Coming, At
<1>3. CASE Release(t)
  <2>1. CASE Goto(t, "sweep", NoHub)
    BY <1>1, <1>3, <2>1, GotoMoves DEF Release, Coming, At, Steps
  <2>2. CASE UNCHANGED call
    BY <1>1, <1>3, <2>2 DEF Release, Coming, At
  <2> QED BY <1>3, <2>1, <2>2 DEF Release
<1>4. ASSUME NEW a \in Addresses, NEW b \in BOOLEAN, CreateHub(t, a, b)
      PROVE  /\ Coming' \subseteq Coming
             /\ \A h \in Coming : hub'[h].address = hub[h].address
             /\ \A u \in Threads : At(u, "start") => At(u, "start")' /\ request'[u] = request[u]
  <2>1. /\ call'[t].at = "check"
        /\ \A u \in Threads \ {t} : call'[u] = call[u] /\ request'[u] = request[u]
    BY <1>4 DEF CreateHub, Idle, TypeOK, Call, Request
  <2> QED BY <1>4, <2>1 DEF CreateHub, Coming, At
<1>5. ASSUME NEW h \in Hubs, Close(t, h)
      PROVE  /\ Coming' \subseteq Coming
             /\ \A g \in Coming : hub'[g].address = hub[g].address
             /\ \A u \in Threads : At(u, "start") => At(u, "start")' /\ request'[u] = request[u]
  <2>1. call'[t].at = "unlist" /\ \A u \in Threads \ {t} : call'[u] = call[u]
    BY <1>5, GotoMoves DEF Close, Steps
  <2>2. \A g \in Hubs : hub'[g].address = hub[g].address
    BY <1>5, CloseMoves
  <2> QED BY <1>1, <1>5, <2>1, <2>2 DEF Close, Coming, At
<1>6. CASE SweepTake(t)
  <2>1. PICK h \in listHubs : listHubs' = listHubs \ {h} /\ Goto(t, "sweepStop", h)
    BY <1>6 DEF SweepTake
  <2>2. call'[t].at = "sweepStop" /\ \A u \in Threads \ {t} : call'[u] = call[u]
    BY <2>1, GotoMoves DEF Steps, TypeOK
  <2> QED BY <1>1, <1>6, <2>1, <2>2 DEF SweepTake, Coming, At
<1>7. CASE Cleanup(t)
  BY <1>1, <1>7, CleanupMoves, ReturnMoves DEF Cleanup, Coming, At
<1>8. CASE CheckAddress(t)
  <2>1. CASE Answer(t, "duplicate") /\ Return(t)
    BY <1>1, <1>8, <2>1, AnswerMoves, ReturnMoves DEF CheckAddress, Coming, At
  <2>2. CASE Goto(t, "start", NoHub) /\ UNCHANGED request
    BY <1>1, <1>8, <2>2, GotoMoves DEF CheckAddress, Coming, At, Steps
  <2> QED BY <1>8, <2>1, <2>2 DEF CheckAddress
<1>9. CASE Publish(t)
  <2>1. At(t, "publish") /\ call[t].hub \in Coming /\ call[t].hub \in Hubs /\ hub' = hub
    BY <1>1, <1>9 DEF Publish, Coming
  <2>2. CASE Answer(t, "duplicate") /\ Goto(t, "unwindStop", call[t].hub) /\ UNCHANGED listHubs
    <3>1. \A u \in Threads \ {t} : call'[u] = call[u] /\ request'[u] = request[u]
      BY <2>1, <2>2, GotoMoves, AnswerMoves DEF Steps
    <3>2. call'[t].at = "unwindStop"
      BY <2>1, <2>2, GotoMoves DEF Steps
    <3> QED BY <1>1, <2>1, <2>2, <3>1, <3>2 DEF Coming, At
  <2>3. CASE /\ Answer(t, "made") /\ Return(t)
             /\ listHubs' = listHubs \cup {call[t].hub}
    <3>1. \A u \in Threads \ {t} : call'[u] = call[u] /\ request'[u] = request[u]
      BY <2>3, ReturnMoves, AnswerMoves
    <3>2. call'[t].at = "idle"
      BY <2>3, ReturnMoves
    <3> QED BY <1>1, <2>1, <2>3, <3>1, <3>2 DEF Coming, At
  <2> QED BY <1>9, <2>2, <2>3 DEF Publish
<1>10. CASE RemoveHub(t)
  <2>1. call[t].hub \in Hubs
    BY <1>10 DEF RemoveHub, Publishing, InHub, Steps, At
  <2>2. call'[t].at = "stop" /\ \A u \in Threads \ {t} : call'[u] = call[u]
    BY <1>10, <2>1, GotoMoves DEF RemoveHub, Steps
  <2> QED BY <1>1, <1>10, <2>2 DEF RemoveHub, Coming, At
<1>11. CASE StopPump(t)
  BY <1>1, <1>11, StopMoves DEF Coming, At
<1>12. CASE DeleteHub(t)
  BY <1>1, <1>12, DeleteMoves DEF Coming, At
<1> QED
  BY <1>1, <1>2, <1>3, <1>4, <1>5, <1>6, <1>7, <1>8, <1>9, <1>10, <1>11, <1>12 DEF Begin

\* Who holds a reference, and who sweeps, after any step of the registry.
LEMMA CreatorsNext ==
  ASSUME Inv, Creators, [Next]_vars
  PROVE  Creators'
<1> USE NoThreadAssumption DEF Inv, Sweeping, Making
<1>1. ASSUME NEW t \in Threads, Acquire(t) PROVE Creators'
  BY <1>1 DEF Acquire, Creators, At
<1>2. ASSUME NEW t \in Threads, Release(t) PROVE Creators'
  <2>1. CASE instance' = t /\ Goto(t, "sweep", NoHub) /\ holders' = {}
    <3>1. call'[t].at = "sweep" /\ \A u \in Threads \ {t} : call'[u] = call[u]
      BY <2>1, GotoMoves DEF Steps
    <3>2. \A u \in Threads \ {t} : u \notin holders
      BY <1>2, <2>1 DEF Release
    <3> QED BY <1>2, <2>1, <3>1, <3>2 DEF Release, Creators, At
  <2>2. CASE holders' # {} /\ UNCHANGED <<instance, call>>
    BY <1>2, <2>2 DEF Release, Creators, At
  <2> QED BY <1>2, <2>1, <2>2 DEF Release
<1>3. ASSUME NEW t \in Threads, NEW a \in Addresses, NEW b \in BOOLEAN, CreateHub(t, a, b)
      PROVE  Creators'
  <2>1. call'[t].at = "check" /\ \A u \in Threads \ {t} : call'[u] = call[u]
    BY <1>3 DEF CreateHub, Idle, TypeOK, Call
  <2> QED BY <1>3, <2>1 DEF CreateHub, Creators
<1>4. ASSUME NEW t \in Threads, NEW h \in Hubs, Close(t, h) PROVE Creators'
  <2>1. call'[t].at = "unlist" /\ \A u \in Threads \ {t} : call'[u] = call[u]
    BY <1>4, GotoMoves DEF Close, Steps
  <2> QED BY <1>4, <2>1 DEF Close, Creators
<1>5. ASSUME NEW t \in Threads, SweepTake(t) PROVE Creators'
  <2>1. PICK h \in listHubs : Goto(t, "sweepStop", h)
    BY <1>5 DEF SweepTake
  <2>2. call'[t].at = "sweepStop" /\ \A u \in Threads \ {t} : call'[u] = call[u]
    BY <2>1, GotoMoves DEF Steps, TypeOK
  <2> QED BY <1>5, <2>2 DEF SweepTake, Creators, At
<1>6. ASSUME NEW t \in Threads, Cleanup(t) PROVE Creators'
  <2>1. call'[t].at = "idle" /\ \A u \in Threads \ {t} : call'[u] = call[u]
    BY <1>6, ReturnMoves DEF Cleanup
  <2>2. \A u \in Threads \ {t} : call[u].at \notin Sweeping
    BY <1>6 DEF Cleanup, Creators, At
  <2> QED BY <1>6, <2>1, <2>2 DEF Cleanup, Creators
<1>7. ASSUME NEW t \in Threads, CheckAddress(t) PROVE Creators'
  <2>1. call'[t].at \in {"idle", "start"} /\ \A u \in Threads \ {t} : call'[u] = call[u]
    BY <1>7, GotoMoves, ReturnMoves DEF CheckAddress, Steps
  <2> QED BY <1>7, <2>1 DEF CheckAddress, Creators, At
<1>8. ASSUME NEW t \in Threads, Start(t) PROVE Creators'
  <2>1. call'[t].at \in {"idle", "publish"} /\ \A u \in Threads \ {t} : call'[u] = call[u]
    BY <1>8, GotoMoves, ReturnMoves DEF Start, Steps
  <2> QED BY <1>8, <2>1 DEF Start, Creators, At
<1>9. ASSUME NEW t \in Threads, Publish(t) PROVE Creators'
  <2>1. call[t].hub \in Hubs
    BY <1>9 DEF Publish, Publishing, InHub, Steps, At
  <2>2. call'[t].at \in {"idle", "unwindStop"} /\ \A u \in Threads \ {t} : call'[u] = call[u]
    BY <1>9, <2>1, GotoMoves, ReturnMoves DEF Publish, Steps
  <2> QED BY <1>9, <2>2 DEF Publish, Creators, At
<1>10. ASSUME NEW t \in Threads, RemoveHub(t) PROVE Creators'
  <2>1. call[t].hub \in Hubs
    BY <1>10 DEF RemoveHub, Publishing, InHub, Steps, At
  <2>2. call'[t].at = "stop" /\ \A u \in Threads \ {t} : call'[u] = call[u]
    BY <1>10, <2>1, GotoMoves DEF RemoveHub, Steps
  <2> QED BY <1>10, <2>2 DEF RemoveHub, Creators, At
<1>11. ASSUME NEW t \in Threads, StopPump(t) PROVE Creators'
  BY <1>11, StopMoves DEF Creators
<1>12. ASSUME NEW t \in Threads, DeleteHub(t) PROVE Creators'
  BY <1>12, DeleteMoves DEF Creators
<1>13. CASE UNCHANGED vars
  BY <1>13 DEF vars, Creators
<1> QED
  BY <1>1, <1>2, <1>3, <1>4, <1>5, <1>6, <1>7, <1>8, <1>9, <1>10, <1>11, <1>12, <1>13
  DEF Next, Begin, Continue

\* The initial state has no secure hub.
LEMMA SecInit == ProvInit => SecInv
<1> SUFFICES ASSUME ProvInit PROVE SecInv
  OBVIOUS
<1>1. ProvTypeOK
  BY DEF ProvInit, ProvTypeOK, Unstarted, Stages
<1>2. Creators
  BY DEF ProvInit, Init, Creators, Sweeping, Making, Idle
<1>3. Staged
  BY DEF ProvInit, Staged, Unstarted
<1>4. Kept
  BY DEF ProvInit, Init, Kept, Coming, At, Idle
<1> QED BY <1>1, <1>2, <1>3, <1>4 DEF SecInv

\* Where a creation has come past the first stage, its files are files.
LEMMA PlaceIs ==
  ASSUME Inv, SecInv, NEW t \in Threads, prov[t].stage # "paths"
  PROVE  Place(t) \in Dirs \X Stems /\ Place(t) = <<secDir, SecurityStemOf(request[t].address)>>
<1>1. request[t].address \in Addresses
  BY DEF Inv, TypeOK, Request
<1>2. prov[t].dir = secDir /\ secDir \in Dirs
  BY DEF SecInv, Staged
<1> QED BY <1>1, <1>2 DEF Place, Stems

\* A creation that goes on to its next stage, or adds files, with the network as
\* it is.
LEMMA StageNext ==
  ASSUME Inv, SecInv, NEW t \in Threads, NEW s \in Stages \ {"paths"}, NEW made \in SUBSET Files,
         At(t, "start"), prov[t].stage # "paths", Advance(t, s),
         keyFiles' = [keyFiles EXCEPT ![Place(t)] = @ \cup made], UNCHANGED revoked,
         s \in {"publish", "revocation", "held"} => "key.pub" \in keyFiles'[Place(t)],
         s \in {"revocation", "held"} => "agree.pub" \in keyFiles'[Place(t)]
  PROVE  ProvTypeOK' /\ Staged' /\ Kept'
<1> USE DEF SecInv
<1>1. UNCHANGED <<vars, secVars, hubDir>> /\ prov' = [prov EXCEPT ![t].stage = s]
  BY DEF Advance
<1>2. /\ prov' \in [Threads -> [stage : Stages, dir : Dirs \cup {NoDir}]]
      /\ prov'[t].stage = s /\ prov'[t].dir = prov[t].dir
      /\ \A u \in Threads \ {t} : prov'[u] = prov[u]
  BY <1>1 DEF ProvTypeOK
<1>3. Place(t) \in Dirs \X Stems
  BY PlaceIs
<1>4. /\ keyFiles' \in [Dirs \X Stems -> SUBSET Files]
      /\ \A p \in Dirs \X Stems : keyFiles[p] \subseteq keyFiles'[p]
  BY <1>3 DEF ProvTypeOK
<1>5. ProvTypeOK'
  BY <1>1, <1>2, <1>4 DEF ProvTypeOK, secVars
<1>6. \A u \in Threads : Place(u)' = Place(u)
  BY <1>1, <1>2 DEF Place, vars
<1>7. Staged'
  <2>1. ASSUME NEW u \in Threads, u # t, prov[u].stage # "paths"
        PROVE  keyFiles[Place(u)] \subseteq keyFiles'[Place(u)]
    BY <1>4, <2>1, PlaceIs
  <2>2. \A u \in Threads : At(u, "start")' = At(u, "start")
    BY <1>1 DEF At, vars
  <2>3. prov'[t].stage # "paths" /\ prov[t].dir = secDir /\ secUsed /\ secDir \in Dirs /\ secDir \in revoked
    BY <1>2 DEF Staged
  <2>4. ASSUME NEW u \in Threads, u # t
        PROVE  /\ prov'[u].stage = "paths" => prov'[u].dir = NoDir
               /\ prov'[u].stage # "paths" =>
                    /\ At(u, "start")' /\ secUsed'
                    /\ prov'[u].dir = secDir' /\ secDir' \in Dirs /\ secDir' \in revoked'
               /\ prov'[u].stage \in {"publish", "revocation", "held"} =>
                    "key.pub" \in keyFiles'[Place(u)']
               /\ prov'[u].stage \in {"revocation", "held"} => "agree.pub" \in keyFiles'[Place(u)']
    BY <1>1, <1>2, <1>6, <2>1, <2>2, <2>4 DEF Staged, secVars
  <2> QED BY <1>1, <1>2, <1>6, <2>2, <2>3, <2>4 DEF Staged, secVars
<1>8. Kept'
  <2>1. Coming' = Coming /\ \A h \in Coming : hub'[h].address = hub[h].address
    BY <1>1 DEF Coming, At, vars
  <2>2. \A h \in Coming : h \in Hubs /\ hub[h].address \in Addresses
    BY DEF Coming, Inv, TypeOK, Hub, Publishing, InHub, Steps, At
  <2>3. \A h \in Coming : secDir \in Dirs =>
          <<secDir, SecurityStemOf(hub[h].address)>> \in Dirs \X Stems
    BY <2>2 DEF Stems
  <2> QED BY <1>1, <1>4, <2>1, <2>3 DEF Kept, secVars
<1> QED BY <1>5, <1>7, <1>8

\* A refusal leaves the other creations as they are, and the hubs; it may latch a
\* directory nothing was made out of.
LEMMA RefuseNext ==
  ASSUME Inv, SecInv, NEW t \in Threads, At(t, "start"), Refuse(t),
         secDir' \in Dirs \cup {NoDir}, secUsed' \in BOOLEAN,
         \A u \in Threads : prov[u].stage # "paths" => UNCHANGED secVars,
         \A h \in Coming : hubDir[h] # NoDir => UNCHANGED secVars,
         revoked \subseteq revoked', revoked' \subseteq Dirs,
         keyFiles' \in [Dirs \X Stems -> SUBSET Files],
         \A p \in Dirs \X Stems : keyFiles[p] \subseteq keyFiles'[p]
  PROVE  ProvTypeOK' /\ Staged' /\ Kept'
<1> USE DEF SecInv
<1>1. /\ prov' = [prov EXCEPT ![t] = Unstarted]
      /\ UNCHANGED <<holders, kernel, instance, listHubs, hub, hubDir>>
  BY DEF Refuse
<1>2. /\ prov' \in [Threads -> [stage : Stages, dir : Dirs \cup {NoDir}]]
      /\ prov'[t].stage = "paths" /\ prov'[t].dir = NoDir
      /\ \A u \in Threads \ {t} : prov'[u] = prov[u]
  BY <1>1 DEF ProvTypeOK, Unstarted, Stages
<1>3. ProvTypeOK'
  BY <1>1, <1>2 DEF ProvTypeOK, secVars
<1>4. /\ call'[t].at = "idle" /\ \A u \in Threads \ {t} : call'[u] = call[u]
      /\ \A u \in Threads : request'[u].address = request[u].address
  BY ReturnMoves, AnswerMoves DEF Refuse, Inv
<1>5. Staged'
  <2>1. ASSUME NEW u \in Threads, u # t
        PROVE  Place(u)' = Place(u) /\ At(u, "start")' = At(u, "start")
    BY <1>2, <1>4, <2>1 DEF Place, At
  <2>2. ASSUME NEW u \in Threads, u # t, prov[u].stage # "paths"
        PROVE  keyFiles[Place(u)] \subseteq keyFiles'[Place(u)]
    BY <2>2, PlaceIs
  <2>3. ASSUME NEW u \in Threads, u # t
        PROVE  /\ prov'[u].stage = "paths" => prov'[u].dir = NoDir
               /\ prov'[u].stage # "paths" =>
                    /\ At(u, "start")' /\ secUsed'
                    /\ prov'[u].dir = secDir' /\ secDir' \in Dirs /\ secDir' \in revoked'
               /\ prov'[u].stage \in {"publish", "revocation", "held"} =>
                    "key.pub" \in keyFiles'[Place(u)']
               /\ prov'[u].stage \in {"revocation", "held"} => "agree.pub" \in keyFiles'[Place(u)']
    BY <1>2, <2>1, <2>2, <2>3 DEF Staged, secVars
  <2> QED BY <1>2, <2>3 DEF Staged
<1>6. Kept'
  <2>1. Coming' \subseteq Coming /\ \A h \in Coming : hub'[h].address = hub[h].address
    BY <1>1, <1>4 DEF Coming, At
  <2>2. \A h \in Coming : h \in Hubs /\ hub[h].address \in Addresses
    BY DEF Coming, Inv, TypeOK, Hub, Publishing, InHub, Steps, At
  <2>3. \A h \in Coming : secDir \in Dirs =>
          <<secDir, SecurityStemOf(hub[h].address)>> \in Dirs \X Stems
    BY <2>2 DEF Stems
  <2> QED BY <1>1, <2>1, <2>3 DEF Kept, secVars
<1> QED BY <1>3, <1>5, <1>6

\* Latching the directory moves it only if nothing was made out of it.
LEMMA LatchNext ==
  ASSUME Inv, SecInv, EnsureSecurityDirLocked
  PROVE  /\ secDir' \in Dirs /\ secUsed' /\ secUsed' \in BOOLEAN
         /\ \A t \in Threads : prov[t].stage # "paths" => UNCHANGED secVars
         /\ \A h \in Coming : hubDir[h] # NoDir => UNCHANGED secVars
<1>1. secDir' = (IF secDir = NoDir THEN Beside ELSE secDir) /\ secUsed' = TRUE
  BY DEF EnsureSecurityDirLocked
<1>2. secUsed \in BOOLEAN /\ secDir \in Dirs \cup {NoDir}
  BY DEF SecInv, ProvTypeOK
<1>3. secUsed /\ secDir \in Dirs => UNCHANGED secVars
  BY <1>1, <1>2, DirsAssumption DEF secVars
<1>4. secDir' \in Dirs /\ secUsed'
  BY <1>1, <1>2, DirsAssumption
<1> QED BY <1>1, <1>3, <1>4 DEF SecInv, Staged, Kept

\* Every step keeps what is known of keys and directories.
LEMMA SecNext ==
  ASSUME Inv, Inv', SecInv, [ProvNext]_<<vars, provVars>>
  PROVE  SecInv'
<1> USE DEF SecInv
<1>1. Creators'
  BY CreatorsNext, ProvStep
<1>2. UNCHANGED keyFiles => keyFiles' \in [Dirs \X Stems -> SUBSET Files]
  BY DEF ProvTypeOK
<1>3. \A t \in Threads : prov[t].stage # "paths" =>
        /\ Place(t) \in Dirs \X Stems /\ At(t, "start")
        /\ prov[t].dir = secDir /\ secUsed /\ secDir \in Dirs /\ secDir \in revoked
  BY PlaceIs DEF Staged
<1>4. secDir \in Dirs \cup {NoDir} /\ secUsed \in BOOLEAN /\ revoked \subseteq Dirs
  BY DEF ProvTypeOK
<1>5. ASSUME NEW t \in Threads, NEW dir \in Dirs \cup {NoDir}, SetSecurityDir(t, dir)
      PROVE  ProvTypeOK' /\ Staged' /\ Kept'
  <2>1. /\ ~secUsed /\ secDir' = dir
        /\ UNCHANGED <<vars, secUsed, diskVars, prov, hubDir>>
    BY <1>5 DEF SetSecurityDir
  <2>2. ProvTypeOK'
    BY <2>1 DEF ProvTypeOK, diskVars
  <2>3. Staged'
    BY <2>1 DEF Staged, diskVars
  <2>4. Kept'
    BY <2>1 DEF Kept, Coming, At, vars
  <2> QED BY <2>2, <2>3, <2>4
<1>6. ASSUME NEW t \in Threads, SecurityPaths(t)
      PROVE  ProvTypeOK' /\ Staged' /\ Kept'
  <2>1. At(t, "start") /\ prov[t].stage = "paths" /\ UNCHANGED keyFiles
    BY <1>6 DEF SecurityPaths, Provisions
  <2>2. CASE /\ EnsureSecurityDirLocked
             /\ revoked' = revoked \cup {secDir'}
             /\ prov' = [prov EXCEPT ![t] = [stage |-> "identity", dir |-> secDir']]
             /\ UNCHANGED <<vars, hubDir>>
    <3>1. /\ secDir' \in Dirs /\ secUsed' /\ secUsed' \in BOOLEAN
          /\ \A u \in Threads : prov[u].stage # "paths" => UNCHANGED secVars
          /\ \A h \in Coming : hubDir[h] # NoDir => UNCHANGED secVars
      BY <2>2, LatchNext
    <3>2. /\ prov' \in [Threads -> [stage : Stages, dir : Dirs \cup {NoDir}]]
          /\ prov'[t] = [stage |-> "identity", dir |-> secDir']
          /\ \A u \in Threads \ {t} : prov'[u] = prov[u]
      BY <2>2, <3>1 DEF ProvTypeOK, Stages
    <3>3. ProvTypeOK'
      BY <1>2, <1>4, <2>1, <2>2, <3>1, <3>2 DEF ProvTypeOK
    <3>4. Staged'
      <4>1. \A u \in Threads : At(u, "start")' = At(u, "start")
        BY <2>2 DEF At, vars
      <4>2. \A u \in Threads \ {t} : Place(u)' = Place(u)
        BY <2>2, <3>2 DEF Place, vars
      <4>3. ASSUME NEW u \in Threads, u # t
            PROVE  /\ prov'[u].stage = "paths" => prov'[u].dir = NoDir
                   /\ prov'[u].stage # "paths" =>
                        /\ At(u, "start")' /\ secUsed'
                        /\ prov'[u].dir = secDir' /\ secDir' \in Dirs /\ secDir' \in revoked'
                   /\ prov'[u].stage \in {"publish", "revocation", "held"} =>
                        "key.pub" \in keyFiles'[Place(u)']
                   /\ prov'[u].stage \in {"revocation", "held"} =>
                        "agree.pub" \in keyFiles'[Place(u)']
        BY <2>1, <2>2, <3>1, <3>2, <4>1, <4>2, <4>3 DEF Staged, secVars
      <4>4. /\ prov'[t].stage = "identity" /\ At(t, "start")' /\ secUsed'
            /\ prov'[t].dir = secDir' /\ secDir' \in Dirs /\ secDir' \in revoked'
        BY <2>1, <2>2, <3>1, <3>2, <4>1
      <4> QED BY <4>3, <4>4 DEF Staged
    <3>5. Kept'
      <4>1. Coming' = Coming /\ hub' = hub
        BY <2>2 DEF Coming, At, vars
      <4> QED BY <2>1, <2>2, <3>1, <4>1 DEF Kept, secVars
    <3> QED BY <3>3, <3>4, <3>5
  <2>3. CASE EnsureSecurityDirLocked /\ Refuse(t) /\ UNCHANGED revoked
    <3>1. /\ secDir' \in Dirs /\ secUsed' \in BOOLEAN
          /\ \A u \in Threads : prov[u].stage # "paths" => UNCHANGED secVars
          /\ \A h \in Coming : hubDir[h] # NoDir => UNCHANGED secVars
      BY <2>3, LatchNext
    <3>2. \A p \in Dirs \X Stems : keyFiles[p] \subseteq keyFiles'[p]
      BY <2>1
    <3> QED BY <1>2, <1>4, <2>1, <2>3, <3>1, <3>2, RefuseNext
  <2>4. CASE Refuse(t) /\ UNCHANGED <<secVars, revoked>>
    <3>1. secDir' \in Dirs \cup {NoDir} /\ secUsed' \in BOOLEAN
      BY <1>4, <2>4 DEF secVars
    <3>2. \A p \in Dirs \X Stems : keyFiles[p] \subseteq keyFiles'[p]
      BY <2>1
    <3> QED BY <1>2, <1>4, <2>1, <2>4, <3>1, <3>2, RefuseNext
  <2> QED BY <1>6, <2>2, <2>3, <2>4 DEF SecurityPaths
<1>7. ASSUME NEW t \in Threads, At(t, "start"), Refuse(t), UNCHANGED <<secVars, diskVars>>
      PROVE  ProvTypeOK' /\ Staged' /\ Kept'
  <2>1. secDir' \in Dirs \cup {NoDir} /\ secUsed' \in BOOLEAN
    BY <1>4, <1>7 DEF secVars
  <2>2. \A p \in Dirs \X Stems : keyFiles[p] \subseteq keyFiles'[p]
    BY <1>7 DEF diskVars
  <2> QED BY <1>2, <1>4, <1>7, <2>1, <2>2, RefuseNext DEF diskVars
<1>8. ASSUME NEW t \in Threads, ProvisionAuth(t)
      PROVE  ProvTypeOK' /\ Staged' /\ Kept'
  <2>1. At(t, "start") /\ prov[t].stage = "identity" /\ UNCHANGED revoked
    BY <1>8 DEF ProvisionAuth, Provisions
  <2>2. PICK made \in {{}, {"key"}, {"key", "key.pub"}} :
          /\ keyFiles' = [keyFiles EXCEPT ![Place(t)] = @ \cup made]
          /\ Advance(t, "agreement") \/ (Refuse(t) /\ UNCHANGED secVars)
    BY <1>8 DEF ProvisionAuth
  <2>3. made \in SUBSET Files
    BY DEF Files
  <2>4. /\ keyFiles' \in [Dirs \X Stems -> SUBSET Files]
        /\ \A p \in Dirs \X Stems : keyFiles[p] \subseteq keyFiles'[p]
    BY <1>3, <2>1, <2>2, <2>3 DEF ProvTypeOK
  <2>5. CASE Advance(t, "agreement")
    BY <2>1, <2>2, <2>3, <2>5, StageNext DEF Stages
  <2>6. CASE Refuse(t) /\ UNCHANGED secVars
    <3>1. secDir' \in Dirs \cup {NoDir} /\ secUsed' \in BOOLEAN
      BY <1>4, <2>6 DEF secVars
    <3> QED BY <1>4, <2>1, <2>4, <2>6, <3>1, RefuseNext
  <2> QED BY <2>2, <2>5, <2>6
<1>9. ASSUME NEW t \in Threads, SetAgreementKey(t)
      PROVE  ProvTypeOK' /\ Staged' /\ Kept'
  <2>1. /\ At(t, "start") /\ prov[t].stage = "agreement" /\ UNCHANGED diskVars
        /\ Place(t) \in Dirs \X Stems
    BY <1>3, <1>9 DEF SetAgreementKey, Provisions
  <2>2. CASE "key.pub" \in keyFiles[Place(t)] /\ Advance(t, "publish")
    <3>1. keyFiles' = [keyFiles EXCEPT ![Place(t)] = @ \cup {}]
      BY <2>1 DEF diskVars, ProvTypeOK
    <3>2. {} \in SUBSET Files /\ UNCHANGED <<keyFiles, revoked>>
      BY <2>1 DEF diskVars
    <3> QED BY <2>1, <2>2, <3>1, <3>2, StageNext DEF Stages
  <2>3. CASE Refuse(t) /\ UNCHANGED secVars
    BY <1>7, <2>1, <2>3
  <2> QED BY <1>9, <2>2, <2>3 DEF SetAgreementKey
<1>10. ASSUME NEW t \in Threads, SaveAgreementPublicKey(t)
       PROVE  ProvTypeOK' /\ Staged' /\ Kept'
  <2>1. /\ At(t, "start") /\ prov[t].stage = "publish" /\ UNCHANGED revoked
        /\ Place(t) \in Dirs \X Stems /\ "key.pub" \in keyFiles[Place(t)]
    BY <1>3, <1>10 DEF SaveAgreementPublicKey, Provisions, Staged
  <2>2. CASE /\ keyFiles' = [keyFiles EXCEPT ![Place(t)] = @ \cup {"agree.pub"}]
             /\ Advance(t, "revocation")
    <3>1. {"key.pub", "agree.pub"} \subseteq keyFiles'[Place(t)]
      BY <2>1, <2>2 DEF ProvTypeOK
    <3> QED BY <2>1, <2>2, <3>1, StageNext DEF Stages, Files
  <2>3. CASE Refuse(t) /\ UNCHANGED <<secVars, keyFiles>>
    BY <1>7, <2>1, <2>3 DEF diskVars
  <2> QED BY <1>10, <2>2, <2>3 DEF SaveAgreementPublicKey
<1>11. ASSUME NEW t \in Threads, SetRevocationList(t)
       PROVE  ProvTypeOK' /\ Staged' /\ Kept'
  <2>1. /\ At(t, "start") /\ prov[t].stage = "revocation" /\ UNCHANGED diskVars
        /\ Place(t) \in Dirs \X Stems
        /\ "key.pub" \in keyFiles[Place(t)] /\ "agree.pub" \in keyFiles[Place(t)]
    BY <1>3, <1>11 DEF SetRevocationList, Provisions, Staged
  <2>2. CASE Advance(t, "held")
    <3>1. keyFiles' = [keyFiles EXCEPT ![Place(t)] = @ \cup {}]
      BY <2>1 DEF diskVars, ProvTypeOK
    <3>2. {} \in SUBSET Files /\ UNCHANGED <<keyFiles, revoked>>
      BY <2>1 DEF diskVars
    <3> QED BY <2>1, <2>2, <3>1, <3>2, StageNext DEF Stages
  <2>3. CASE Refuse(t) /\ UNCHANGED secVars
    BY <1>7, <2>1, <2>3
  <2> QED BY <1>11, <2>2, <2>3 DEF SetRevocationList
<1>12. ASSUME NEW t \in Threads, ProvStart(t)
       PROVE  ProvTypeOK' /\ Staged' /\ Kept'
  <2>1. /\ Start(t) /\ At(t, "start") /\ prov[t].stage \in {"paths", "held"}
        /\ prov' = [prov EXCEPT ![t] = Unstarted] /\ UNCHANGED <<secVars, diskVars>>
        /\ UNCHANGED listHubs
    BY <1>12 DEF ProvStart, Start
  <2>2. /\ prov' \in [Threads -> [stage : Stages, dir : Dirs \cup {NoDir}]]
        /\ prov'[t].stage = "paths" /\ prov'[t].dir = NoDir
        /\ \A u \in Threads \ {t} : prov'[u] = prov[u]
    BY <2>1 DEF ProvTypeOK, Unstarted, Stages
  <2>3. /\ \A u \in Threads \ {t} : call'[u] = call[u]
        /\ \A u \in Threads : request'[u].address = request[u].address
    BY <2>1, GotoMoves, ReturnMoves, AnswerMoves DEF Start, Inv, Steps
  <2>4. Staged'
    <3>1. \A u \in Threads \ {t} : Place(u)' = Place(u) /\ At(u, "start")' = At(u, "start")
      BY <2>2, <2>3 DEF Place, At
    <3>2. ASSUME NEW u \in Threads, u # t
          PROVE  /\ prov'[u].stage = "paths" => prov'[u].dir = NoDir
                 /\ prov'[u].stage # "paths" =>
                      /\ At(u, "start")' /\ secUsed'
                      /\ prov'[u].dir = secDir' /\ secDir' \in Dirs /\ secDir' \in revoked'
                 /\ prov'[u].stage \in {"publish", "revocation", "held"} =>
                      "key.pub" \in keyFiles'[Place(u)']
                 /\ prov'[u].stage \in {"revocation", "held"} =>
                      "agree.pub" \in keyFiles'[Place(u)']
      BY <2>1, <2>2, <3>1, <3>2 DEF Staged, secVars, diskVars
    <3> QED BY <2>2, <3>2 DEF Staged
  <2>5. CASE Answer(t, "failed") /\ Return(t) /\ UNCHANGED hub
    <3>1. call'[t].at = "idle"
      BY <2>5, ReturnMoves DEF Inv
    <3>2. UNCHANGED hubDir
      BY <1>12, <3>1 DEF ProvStart
    <3>3. ProvTypeOK'
      BY <2>1, <2>2, <3>2 DEF ProvTypeOK, secVars, diskVars
    <3>4. Coming' \subseteq Coming
      BY <2>1, <2>3, <3>1 DEF Coming, At
    <3>5. Kept'
      BY <2>1, <2>5, <3>2, <3>4 DEF Kept, secVars, diskVars
    <3> QED BY <2>4, <3>3, <3>5
  <2>6. ASSUME NEW h \in Hubs, hub[h].life = "unborn", Goto(t, "publish", h),
               hub'[h].address = request[t].address,
               \A g \in Hubs \ {h} : hub'[g] = hub[g]
        PROVE  ProvTypeOK' /\ Kept'
    <3>1. call'[t].at = "publish" /\ call'[t].hub = h
      BY <2>6, GotoMoves DEF Inv, Steps
    <3>2. hubDir' = [hubDir EXCEPT ![h] = prov[t].dir]
      BY <1>12, <3>1 DEF ProvStart
    <3>3. ProvTypeOK'
      BY <2>1, <2>2, <3>2 DEF ProvTypeOK, secVars, diskVars
    <3>4. \A g \in Coming : g \in Hubs /\ hub[g].life # "unborn"
      BY DEF Coming, Inv, TypeOK, Publishing, InHub, Steps, At
    <3>5. Coming' \subseteq Coming \cup {h}
      BY <2>1, <2>3, <3>1 DEF Coming, At
    <3>6. ASSUME NEW g \in Coming
          PROVE  hubDir'[g] = hubDir[g] /\ hub'[g].address = hub[g].address
      BY <2>6, <3>2, <3>4
    <3>7. hubDir'[h] = prov[t].dir
      BY <3>2 DEF ProvTypeOK
    <3>8. prov[t].dir # NoDir =>
            /\ prov[t].dir = secDir /\ secUsed /\ secDir \in Dirs /\ secDir \in revoked
            /\ {"key.pub", "agree.pub"} \subseteq keyFiles[<<secDir, SecurityStemOf(hub'[h].address)>>]
      BY <2>1, <2>6, PlaceIs DEF Staged
    <3> QED BY <2>1, <3>3, <3>5, <3>6, <3>7, <3>8 DEF Kept, secVars, diskVars
  <2>7. (Answer(t, "failed") /\ Return(t) /\ UNCHANGED hub)
        \/ \E h \in Hubs : /\ hub[h].life = "unborn" /\ Goto(t, "publish", h)
                           /\ hub'[h].address = request[t].address
                           /\ \A g \in Hubs \ {h} : hub'[g] = hub[g]
    BY <2>1 DEF Start, Inv, TypeOK
  <2> QED BY <2>4, <2>5, <2>6, <2>7
<1>13. ASSUME NEW t \in Threads, ProvCleanup(t)
       PROVE  ProvTypeOK' /\ Staged' /\ Kept'
  <2>1. /\ Cleanup(t) /\ secDir' = NoDir /\ secUsed' = FALSE
        /\ UNCHANGED <<diskVars, prov, hubDir>>
    BY <1>13 DEF ProvCleanup
  <2>2. \A u \in Threads : ~At(u, "start") /\ ~At(u, "publish")
    BY <2>1 DEF Cleanup, Creators, Making, Sweeping, At
  <2>3. Coming = {}
    BY <2>1, <2>2 DEF Cleanup, Coming
  <2>4. Coming' \subseteq Coming
    BY <2>1, RegistryKeeps
  <2>5. \A u \in Threads : prov[u].stage = "paths"
    BY <1>3, <2>2
  <2>6. Staged'
    BY <2>1, <2>5 DEF Staged
  <2>7. Kept'
    BY <2>3, <2>4 DEF Kept
  <2>8. ProvTypeOK'
    BY <2>1 DEF ProvTypeOK, diskVars
  <2> QED BY <2>6, <2>7, <2>8
<1>14. ASSUME NEW t \in Threads, ProvDelete(t) \/ Elsewhere(t)
       PROVE  ProvTypeOK' /\ Staged' /\ Kept'
  <2>1. /\ Coming' \subseteq Coming
        /\ \A h \in Coming : h \in Hubs /\ hub'[h].address = hub[h].address
        /\ \A u \in Threads : At(u, "start") => At(u, "start")' /\ request'[u] = request[u]
    BY <1>14, RegistryKeeps DEF ProvDelete, Elsewhere
  <2>2. /\ UNCHANGED <<secVars, diskVars, prov>>
        /\ hubDir' \in [Hubs -> Dirs \cup {NoDir}]
        /\ \A h \in Hubs : hubDir'[h] \in {hubDir[h], NoDir}
    BY <1>14 DEF ProvDelete, Elsewhere, provVars, ProvTypeOK
  <2>3. ProvTypeOK'
    BY <2>2 DEF ProvTypeOK, secVars, diskVars
  <2>4. Staged'
    <3>1. ASSUME NEW u \in Threads, prov[u].stage # "paths"
          PROVE  At(u, "start")' /\ Place(u)' = Place(u)
      BY <1>3, <2>1, <2>2, <3>1 DEF Place
    <3> QED BY <2>2, <3>1 DEF Staged, secVars, diskVars
  <2>5. Kept'
    BY <2>1, <2>2 DEF Kept, secVars, diskVars
  <2> QED BY <2>3, <2>4, <2>5
<1>15. CASE UNCHANGED <<vars, provVars>>
  <2>1. ProvTypeOK'
    BY <1>15 DEF ProvTypeOK, provVars, secVars, diskVars
  <2>2. Staged'
    BY <1>15 DEF Staged, Place, At, vars, provVars, secVars, diskVars
  <2>3. Kept'
    BY <1>15 DEF Kept, Coming, At, vars, provVars, secVars, diskVars
  <2> QED BY <1>1, <2>1, <2>2, <2>3
<1> QED
  BY <1>1, <1>5, <1>6, <1>8, <1>9, <1>10, <1>11, <1>12, <1>13, <1>14, <1>15
  DEF ProvNext, Provision

\* It holds in every reachable state.
LEMMA SpecSec == ProvSpec => [](Inv /\ SecInv)
<1>1. ProvInit => Inv /\ SecInv
  BY InitInv, SecInit DEF ProvInit
<1>2. (Inv /\ SecInv) /\ [ProvNext]_<<vars, provVars>> => (Inv /\ SecInv)'
  BY NextInv, ProvStep, SecNext
<1> QED BY <1>1, <1>2, PTL DEF ProvSpec

\* An open secure hub, its peers and the network agree on where its keys are, and
\* they are nobody else's.
THEOREM PeersFind == StemsApart => (ProvSpec => []PeersFindKeys)
<1> SUFFICES ASSUME StemsApart PROVE ProvSpec => []PeersFindKeys
  OBVIOUS
<1>1. ASSUME Inv, SecInv PROVE PeersFindKeys
  <2> SUFFICES ASSUME NEW h \in listHubs, hubDir[h] # NoDir
               PROVE  /\ hubDir[h] = secDir /\ secDir \in revoked
                      /\ LoadPeerKeys(hub[h].address, secDir) = {"key.pub", "agree.pub"}
                      /\ \A g \in listHubs \ {h} : hubDir[g] = hubDir[h] =>
                           SecurityStemOf(hub[g].address) # SecurityStemOf(hub[h].address)
    BY DEF PeersFindKeys
  <2>1. /\ hubDir[h] = secDir /\ secDir \in revoked
        /\ {"key.pub", "agree.pub"} \subseteq keyFiles[<<secDir, SecurityStemOf(hub[h].address)>>]
    BY <1>1 DEF SecInv, Kept, Coming
  <2>2. LoadPeerKeys(hub[h].address, secDir) = {"key.pub", "agree.pub"}
    BY <2>1 DEF LoadPeerKeys
  <2>3. ASSUME NEW g \in listHubs, g # h
        PROVE  SecurityStemOf(hub[g].address) # SecurityStemOf(hub[h].address)
    <3>1. hub[g].address \in Addresses /\ hub[h].address \in Addresses
      BY <1>1 DEF Inv, TypeOK, Hub
    <3>2. hub[g].address # hub[h].address
      BY <1>1, <2>3 DEF Inv, OneOpenPerAddress
    <3> QED BY <3>1, <3>2 DEF StemsApart
  <2> QED BY <2>1, <2>2, <2>3
<1> QED BY <1>1, SpecSec, PTL
=============================================================================
