----------------------------- MODULE HubRegistry -----------------------------
(***************************************************************************)
(* FacadeNetwork as the owner of the process: the reference-counted        *)
(* singleton that starts and stops the kernel (Acquire, Release), and the  *)
(* list of open hubs (CreateHubEx, FacadeHub::Close, CloseAllHubs).        *)
(*                                                                         *)
(* A step is one critical section, or one piece of work done outside them: *)
(* a pump is started and stopped with no lock held.  The lock of the       *)
(* singleton is the exception, held across the whole of a last Release.    *)
(*                                                                         *)
(* The reference count is kept as the set of the threads that hold a       *)
(* reference, one each.  What CloseInternal does before it stops the pump  *)
(* is in PingClose and HubCons.  The pump a thread drives itself is swept  *)
(* by the kernel's cleanup when the network is released from elsewhere.    *)
(***************************************************************************)
CONSTANTS
  Addresses,   \* hub addresses
  Hubs,        \* bound: hub objects, each created at most once
  Threads,     \* client threads
  NoHub,       \* not a hub
  NoThread,    \* not a thread
  RefToClose   \* whether clients close a hub only while they hold a reference

ASSUME NoHubAssumption    == NoHub \notin Hubs
ASSUME NoThreadAssumption == NoThread \notin Threads
ASSUME RefToCloseAssumption == RefToClose \in BOOLEAN

VARIABLES
  holders,    \* threads that hold a reference: m_cRef
  kernel,     \* between StartupP2Pmsg and CleanupP2Pmsg
  instance,   \* the thread in s_oCSectInstance across steps
  listHubs,   \* m_listHubs
  hub,        \* each hub object
  call,       \* what each thread is in the middle of
  request     \* each thread's latest CreateHub: its address and its answer

vars == <<holders, kernel, instance, listHubs, hub, call, request>>

Pumps   == {"none", "spawned", "caller", "expired"}
Hub     == [address : Addresses, life : {"unborn", "live", "deleted", "deletedTwice"},
            pump : Pumps, owner : Threads \cup {NoThread}, bClosed : BOOLEAN]
Steps   == {"idle", "check", "start", "publish", "unwindStop", "unwindDelete",
            "unlist", "stop", "delete", "sweep", "sweepStop", "sweepDelete"}
InHub   == Steps \ {"idle", "check", "start", "sweep"}
Call    == [at : Steps, hub : Hubs \cup {NoHub}, callerPumped : BOOLEAN]
Request == [address : Addresses,
            answer : {"none", "pending", "made", "duplicate", "failed"}]
Idle    == [at |-> "idle", hub |-> NoHub, callerPumped |-> FALSE]

TypeOK ==
  /\ holders \subseteq Threads
  /\ kernel \in BOOLEAN
  /\ instance \in Threads \cup {NoThread}
  /\ listHubs \subseteq Hubs
  /\ hub \in [Hubs -> Hub]
  /\ call \in [Threads -> Call]
  /\ request \in [Threads -> Request]

At(t, s)        == call[t].at = s
Goto(t, s, h)   == call' = [call EXCEPT ![t].at = s, ![t].hub = h]
Return(t)       == call' = [call EXCEPT ![t] = Idle]
Answer(t, a)    == request' = [request EXCEPT ![t].answer = a]
IsTaken(a)      == \E h \in listHubs : hub[h].address = a
HasPump(t)      == \E h \in Hubs : hub[h].pump = "caller" /\ hub[h].owner = t

-----------------------------------------------------------------------------
(* The singleton *)

\* A first reference starts the kernel, which may fail; a later one is counted.
Acquire(t) ==
  /\ At(t, "idle") /\ t \notin holders /\ instance = NoThread
  /\ holders' = holders \cup {t}
  /\ kernel' = TRUE
  /\ UNCHANGED <<instance, listHubs, hub, call, request>>

\* Mutant: the lock is given back before Shutdown.
ReleaseUnlocked(t) ==
  /\ At(t, "idle") /\ t \in holders /\ instance = NoThread
  /\ holders' = holders \ {t}
  /\ IF holders' = {} THEN Goto(t, "sweep", NoHub) ELSE UNCHANGED call
  /\ UNCHANGED <<instance, kernel, listHubs, hub, request>>

\* The last one out keeps the lock and goes on to Shutdown.
Release(t) ==
  /\ At(t, "idle") /\ t \in holders /\ instance = NoThread
  /\ holders' = holders \ {t}
  /\ IF holders' = {} THEN instance' = t /\ Goto(t, "sweep", NoHub)
                      ELSE UNCHANGED <<instance, call>>
  /\ UNCHANGED <<kernel, listHubs, hub, request>>

\* CloseAllHubs takes one hub off the list at a time, and does not latch it.
SweepTake(t) ==
  /\ At(t, "sweep")
  /\ \E h \in listHubs : listHubs' = listHubs \ {h} /\ Goto(t, "sweepStop", h)
  /\ UNCHANGED <<holders, kernel, instance, hub, request>>

\* CleanupP2Pmsg, which also ends the pumps nobody stopped; then the network is
\* deleted and the lock is released.
Cleanup(t) ==
  /\ At(t, "sweep") /\ listHubs = {}
  /\ kernel' = FALSE
  /\ hub' = [h \in Hubs |-> IF hub[h].pump = "caller" THEN [hub[h] EXCEPT !.pump = "none"]
                            ELSE hub[h]]
  /\ instance' = NoThread
  /\ Return(t)
  /\ UNCHANGED <<holders, listHubs, request>>

-----------------------------------------------------------------------------
(* CreateHubEx *)

CreateHub(t, a, callerPumped) ==
  /\ At(t, "idle") /\ t \in holders
  /\ call' = [call EXCEPT ![t] = [Idle EXCEPT !.at = "check",
                                    !.callerPumped = callerPumped]]
  /\ request' = [request EXCEPT ![t] = [address |-> a, answer |-> "pending"]]
  /\ UNCHANGED <<holders, kernel, instance, listHubs, hub>>

\* The address is looked up under the lock of the list ...
CheckAddress(t) ==
  /\ At(t, "check")
  /\ IF IsTaken(request[t].address) THEN Answer(t, "duplicate") /\ Return(t)
                                    ELSE Goto(t, "start", NoHub) /\ UNCHANGED request
  /\ UNCHANGED <<holders, kernel, instance, listHubs, hub>>

\* ... the hub is made and its pump started without it.  A thread has one pump
\* at the most, so it may not drive two hubs.
Start(t) ==
  /\ At(t, "start")
  /\ \/ \E h \in Hubs :
          /\ hub[h].life = "unborn"
          /\ ~(call[t].callerPumped /\ HasPump(t))
          /\ hub' = [hub EXCEPT ![h] =
               [address |-> request[t].address, life |-> "live", bClosed |-> FALSE,
                pump  |-> IF call[t].callerPumped THEN "caller" ELSE "spawned",
                owner |-> IF call[t].callerPumped THEN t ELSE NoThread]]
          /\ Goto(t, "publish", h)
          /\ UNCHANGED request
     \/ Answer(t, "failed") /\ Return(t) /\ UNCHANGED hub
  /\ UNCHANGED <<holders, kernel, instance, listHubs>>

\* Mutant: published without a second look.
PublishUnchecked(t) ==
  /\ At(t, "publish")
  /\ Answer(t, "made")
  /\ listHubs' = listHubs \cup {call[t].hub}
  /\ Return(t)
  /\ UNCHANGED <<holders, kernel, instance, hub>>

\* ... and the address is looked up again under the lock it is published under.
Publish(t) ==
  /\ At(t, "publish")
  /\ IF IsTaken(request[t].address)
     THEN /\ Answer(t, "duplicate")
          /\ Goto(t, "unwindStop", call[t].hub)
          /\ UNCHANGED listHubs
     ELSE /\ Answer(t, "made")
          /\ listHubs' = listHubs \cup {call[t].hub}
          /\ Return(t)
  /\ UNCHANGED <<holders, kernel, instance, hub>>

-----------------------------------------------------------------------------
(* FacadeHub::Close *)

\* Mutant: closing is not latched.
CloseUnlatched(t, h) ==
  /\ At(t, "idle")
  /\ RefToClose => t \in holders
  /\ hub[h].life = "live" /\ h \in listHubs
  /\ hub[h].pump = "caller" => hub[h].owner = t
  /\ Goto(t, "unlist", h)
  /\ UNCHANGED <<holders, kernel, instance, listHubs, hub, request>>

\* A client closes a hub it was given and has not seen closed.  A thread that
\* does not drive a caller-pumped hub is refused before the latch.
Close(t, h) ==
  /\ At(t, "idle")
  /\ RefToClose => t \in holders
  /\ hub[h].life = "live" /\ h \in listHubs
  /\ hub[h].pump = "caller" => hub[h].owner = t
  /\ ~hub[h].bClosed
  /\ hub' = [hub EXCEPT ![h].bClosed = TRUE]
  /\ Goto(t, "unlist", h)
  /\ UNCHANGED <<holders, kernel, instance, listHubs, request>>

RemoveHub(t) ==
  /\ At(t, "unlist")
  /\ listHubs' = listHubs \ {call[t].hub}
  /\ Goto(t, "stop", call[t].hub)
  /\ UNCHANGED <<holders, kernel, instance, hub, request>>

-----------------------------------------------------------------------------
(* CloseInternal and the delete that follows it, on every path *)

\* A spawned pump is told to end and waited for, within a budget.  A pump that
\* is another thread's is left to it.
StopPump(t) ==
  /\ call[t].at \in {"stop", "unwindStop", "sweepStop"}
  /\ LET h == call[t].hub IN
     /\ \/ hub' = [hub EXCEPT ![h].pump =
                    IF hub[h].pump = "caller" /\ hub[h].owner # t THEN "caller" ELSE "none"]
        \/ hub[h].pump = "spawned" /\ hub' = [hub EXCEPT ![h].pump = "expired"]
     /\ Goto(t, CASE At(t, "stop")       -> "delete"
                  [] At(t, "unwindStop") -> "unwindDelete"
                  [] At(t, "sweepStop")  -> "sweepDelete", h)
  /\ UNCHANGED <<holders, kernel, instance, listHubs, request>>

DeleteHub(t) ==
  /\ call[t].at \in {"delete", "unwindDelete", "sweepDelete"}
  /\ hub' = [hub EXCEPT ![call[t].hub].life =
               IF @ = "live" THEN "deleted" ELSE "deletedTwice"]
  /\ IF At(t, "sweepDelete") THEN Goto(t, "sweep", NoHub) ELSE Return(t)
  /\ UNCHANGED <<holders, kernel, instance, listHubs, request>>

-----------------------------------------------------------------------------
(* Specification *)

Init ==
  /\ holders = {} /\ kernel = FALSE /\ instance = NoThread /\ listHubs = {}
  /\ \E a \in Addresses :
       /\ hub = [h \in Hubs |-> [address |-> a, life |-> "unborn", pump |-> "none",
                                 owner |-> NoThread, bClosed |-> FALSE]]
       /\ request = [t \in Threads |-> [address |-> a, answer |-> "none"]]
  /\ call = [t \in Threads |-> Idle]

Begin(t) ==
  \/ Acquire(t) \/ Release(t)
  \/ \E a \in Addresses, callerPumped \in BOOLEAN : CreateHub(t, a, callerPumped)
  \/ \E h \in Hubs : Close(t, h)

Continue(t) ==
  \/ SweepTake(t) \/ Cleanup(t)
  \/ CheckAddress(t) \/ Start(t) \/ Publish(t)
  \/ RemoveHub(t) \/ StopPump(t) \/ DeleteHub(t)

Next == \E t \in Threads : Begin(t) \/ Continue(t)

Spec == Init /\ [][Next]_vars

-----------------------------------------------------------------------------
(* Properties *)

\* The open hub of each address.
Open == [a \in Addresses |-> IF IsTaken(a) THEN CHOOSE h \in listHubs : hub[h].address = a
                             ELSE NoHub]

Directory == INSTANCE HubDirectory WITH open <- Open

\* However the creations and closes of one address interleave, a client holds at
\* most one open hub with it, and a refusal means it was taken: the network is
\* the directory HubDirectory describes.
IsDirectory == Directory!Spec

\* No hub is deleted under a thread that is still inside one of its methods, or
\* a second time: Close, the unwind of CreateHubEx and CloseAllHubs each delete
\* hubs, each with no lock held.
HubDeletedOnce ==
  /\ \A h \in Hubs : hub[h].life # "deletedTwice"
  /\ \A t \in Threads : call[t].at \in InHub => hub[call[t].hub].life = "live"

\* A pump thread runs only while the kernel is up, unless its join ran out of
\* time: a thread that acquires as the last reference goes waits the shutdown out.
KernelOutlivesPumps ==
  \A h \in Hubs : hub[h].pump = "spawned" => kernel
=============================================================================
