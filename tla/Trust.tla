-------------------------------- MODULE Trust --------------------------------
(***************************************************************************)
(* Whom a secure hub trusts: the hub's own set (m_mapTrusted), the allow-  *)
(* list file it derives from the set, the list the kernel has loaded, and  *)
(* the kernel's enforcement flag.                                          *)
(*                                                                         *)
(* Listen and Connect trust one peer off the keys it published             *)
(* (TrustPublishedPeer); FacadeNetwork::Link hands two hubs each other's   *)
(* keys (SecureEdgeLocked).  Both go through TrustAndEnforce, which grants, *)
(* rewrites the list (WriteAllowList), turns enforcement on and asks the   *)
(* kernel, and puts back what it found when a step is refused.  Only then  *)
(* is anything armed; an arming that is refused takes nothing back.        *)
(*                                                                         *)
(* A step is one critical section on m_oCSectPeers, one operation on a     *)
(* file or one call into the kernel.  Two calls on one hub share its       *)
(* ".allow.new" file, and may both be anywhere.                            *)
(***************************************************************************)
CONSTANTS
  Hubs,       \* addresses of the secure hubs of one network
  Remotes,    \* addresses of hubs elsewhere
  Keys,       \* public points
  NoKey,      \* no point: not trusted, not listed
  Own,        \* Own[h]: the point of hub h
  Published,  \* Published[p]: what may be found in p's "<stem>.key.pub"
  NoFile,     \* there is no ".allow.new"
  Threads,    \* client threads
  Nobody,     \* no address, no thread
  Serial,     \* whether calls on one hub come one at a time
  FilesFail   \* whether the file system may refuse

Names == Hubs \cup Remotes

ASSUME KeyAssumption  ==
  NoKey \notin Keys /\ Own \in [Hubs -> Keys] /\ Published \in [Names -> SUBSET Keys]
ASSUME NameAssumption == Nobody \notin Names \cup Threads
ASSUME FileAssumption == NoFile \notin [Names -> Keys \cup {NoKey}]
ASSUME FlagAssumption == Serial \in BOOLEAN /\ FilesFail \in BOOLEAN

VARIABLES
  trusted,    \* m_mapTrusted of each hub
  temp,       \* its ".allow.new"
  file,       \* its ".allow"
  list,       \* the allow-list the kernel loaded for it
  required,   \* RequireAuth
  cons,       \* peers it has a connection to
  linking,    \* the thread that holds the network's m_oCSection
  call,       \* what each thread is in the middle of
  unsaved     \* history: hubs whose list a rollback could not rewrite

files == <<temp, file, list>>
vars  == <<trusted, files, required, cons, linking, call, unsaved>>

Trusting == [Names -> Keys \cup {NoKey}]
Nothing  == [p \in Names |-> NoKey]

Steps == {"idle", "trusts", "grant", "snapshot", "temp", "append", "move",
          "load", "require", "autharm", "restore", "relinquish", "untrust",
          "listen", "arm", "refused", "failed"}
Call  == [at : Steps, op : {"connect", "link"}, hub : Hubs \cup {Nobody},
          peer : Names \cup {Nobody}, key : Keys \cup {NoKey}, second : BOOLEAN,
          already : BOOLEAN, first : BOOLEAN, prev : Keys \cup {NoKey},
          why : {"grant", "rollback", "withdraw"}, snap : Trusting,
          found : Trusting, foundList : Trusting]
NoCall == [at |-> "idle", op |-> "connect", hub |-> Nobody, peer |-> Nobody,
           key |-> NoKey, second |-> FALSE, already |-> FALSE, first |-> FALSE,
           prev |-> NoKey, why |-> "grant", snap |-> Nothing,
           found |-> Nothing, foundList |-> Nothing]

TypeOK ==
  /\ trusted \in [Hubs -> Trusting]
  /\ temp \in [Hubs -> Trusting \cup {NoFile}]
  /\ file \in [Hubs -> Trusting]
  /\ list \in [Hubs -> Trusting]
  /\ required \in [Hubs -> BOOLEAN]
  /\ cons \in [Hubs -> SUBSET Names]
  /\ linking \in Threads \cup {Nobody}
  /\ call \in [Threads -> Call]
  /\ unsaved \subseteq Hubs

At(t, s)   == call[t].at = s
Goto(t, s) == call' = [call EXCEPT ![t].at = s]

\* The hubs a call may change.
Touches(k) == {k.hub} \cup (IF k.op = "link" THEN {k.peer} ELSE {})
Busy(h)    == \E u \in Threads : call[u].at # "idle" /\ h \in Touches(call[u])

\* AuthArm may answer ArmOk; it need not, since the revocation list that all
\* hubs share fails closed when it does not load.
Armable(h) == required[h] /\ list[h] # Nothing

-----------------------------------------------------------------------------
(* Connections, and the two ways in *)

\* A connection goes; the trust behind it stays.
Drop(h, p) ==
  /\ p \in cons[h]
  /\ cons' = [cons EXCEPT ![h] = @ \ {p}]
  /\ UNCHANGED <<trusted, files, required, linking, call, unsaved>>

\* Listen or Connect, with the point found in the peer's file, which may be another
\* next time.  Without that file nothing is done.
Connect(t, h, p, k) ==
  /\ At(t, "idle") /\ p # h /\ k \in Published[p]
  /\ Serial => ~Busy(h)
  /\ call' = [call EXCEPT ![t] = [NoCall EXCEPT !.at = "grant", !.hub = h, !.peer = p,
                !.key = k, !.found = trusted[h], !.foundList = list[h]]]
  /\ UNCHANGED <<trusted, files, required, cons, linking, unsaved>>

\* Link: one at a time, of two hubs with no connection for each other.
Link(t, a, b) ==
  /\ At(t, "idle") /\ a # b /\ linking = Nobody
  /\ b \notin cons[a] /\ a \notin cons[b]
  /\ Serial => ~Busy(a) /\ ~Busy(b)
  /\ linking' = t
  /\ call' = [call EXCEPT ![t] = [NoCall EXCEPT !.at = "trusts", !.op = "link",
                !.hub = a, !.peer = b, !.key = Own[b]]]
  /\ UNCHANGED <<trusted, files, required, cons, unsaved>>

ReadTrusts(t) ==
  /\ At(t, "trusts")
  /\ call' = [call EXCEPT ![t].at = "grant",
                          ![t].already = trusted[call[t].hub][call[t].peer] # NoKey]
  /\ UNCHANGED <<trusted, files, required, cons, linking, unsaved>>

\* The end of a call, whatever it answers.
Return(t) ==
  /\ call' = [call EXCEPT ![t] = NoCall]
  /\ linking' = IF linking = t THEN Nobody ELSE linking

-----------------------------------------------------------------------------
(* WriteAllowList: called to grant, to roll back and to withdraw *)

\* Mutant: enforcement is relinquished whoever else is trusted.
AfterWriteRelaxed(t, ok) ==
  LET k == call[t] IN
  CASE k.why = "grant"    -> Goto(t, IF ok THEN "require" ELSE "restore") /\ UNCHANGED linking
    [] k.why = "rollback" -> Goto(t, "relinquish") /\ UNCHANGED linking
    [] k.why = "withdraw" -> Return(t)

\* What a caller makes of the answer: only the grant looks at it.
AfterWrite(t, ok) ==
  LET k == call[t] IN
  CASE k.why = "grant"    -> Goto(t, IF ok THEN "require" ELSE "restore") /\ UNCHANGED linking
    [] k.why = "rollback" -> Goto(t, IF k.first THEN "relinquish" ELSE "failed") /\ UNCHANGED linking
    [] k.why = "withdraw" -> Return(t)

WriteFails(t) ==
  /\ unsaved' = IF call[t].why = "rollback" THEN unsaved \cup {call[t].hub} ELSE unsaved
  /\ AfterWrite(t, FALSE)

\* Mutant: the new peer's line takes the place of the others.
SnapshotOfOne(t) ==
  /\ At(t, "snapshot")
  /\ call' = [call EXCEPT ![t].at = "temp", ![t].snap =
                [Nothing EXCEPT ![call[t].peer] = trusted[call[t].hub][call[t].peer]]]
  /\ UNCHANGED <<trusted, files, required, cons, linking, unsaved>>

\* The list is rewritten from the whole set.
Snapshot(t) ==
  /\ At(t, "snapshot")
  /\ call' = [call EXCEPT ![t].at = "temp", ![t].snap = trusted[call[t].hub]]
  /\ UNCHANGED <<trusted, files, required, cons, linking, unsaved>>

DeleteTemp(t) ==
  /\ At(t, "temp")
  /\ temp' = [temp EXCEPT ![call[t].hub] = NoFile]
  /\ Goto(t, "append")
  /\ UNCHANGED <<trusted, file, list, required, cons, linking, unsaved>>

\* The first line for a name is the one that counts.
Appended(old, new) ==
  IF new = Nothing THEN old
  ELSE IF old = NoFile THEN new
  ELSE [p \in Names |-> IF old[p] # NoKey THEN old[p] ELSE new[p]]

\* One line per entry, each of which creates the file: no entry, no file.
Append(t) ==
  /\ At(t, "append")
  /\ LET h == call[t].hub IN
     \/ /\ temp' = [temp EXCEPT ![h] = Appended(temp[h], call[t].snap)]
        /\ Goto(t, "move")
        /\ UNCHANGED <<linking, unsaved>>
     \/ /\ FilesFail
        /\ temp' = [temp EXCEPT ![h] = NoFile]
        /\ WriteFails(t)
  /\ UNCHANGED <<trusted, file, list, required, cons>>

\* MoveFileEx refuses a source that does not exist.
Move(t) ==
  /\ At(t, "move")
  /\ LET h == call[t].hub IN
     /\ \/ /\ temp[h] # NoFile
           /\ file' = [file EXCEPT ![h] = temp[h]]
           /\ Goto(t, "load")
           /\ UNCHANGED <<linking, unsaved>>
        \/ /\ temp[h] = NoFile \/ FilesFail
           /\ WriteFails(t)
           /\ UNCHANGED file
     /\ temp' = [temp EXCEPT ![h] = NoFile]
  /\ UNCHANGED <<trusted, list, required, cons>>

\* SetAllowList swaps the new list in only if it loads.
Load(t) ==
  /\ At(t, "load")
  /\ LET h == call[t].hub IN
     \/ /\ list' = [list EXCEPT ![h] = file[h]]
        /\ unsaved' = unsaved \ {h}
        /\ AfterWrite(t, TRUE)
     \/ /\ FilesFail
        /\ WriteFails(t)
        /\ UNCHANGED list
  /\ UNCHANGED <<trusted, temp, file, required, cons>>

-----------------------------------------------------------------------------
(* TrustAndEnforce *)

Grant(t) ==
  /\ At(t, "grant")
  /\ LET k == call[t] IN
     /\ trusted' = [trusted EXCEPT ![k.hub][k.peer] = k.key]
     /\ call' = [call EXCEPT ![t].at = "snapshot", ![t].why = "grant",
                   ![t].first = (trusted[k.hub] = Nothing),
                   ![t].prev = trusted[k.hub][k.peer]]
  /\ UNCHANGED <<files, required, cons, linking, unsaved>>

Require(t) ==
  /\ At(t, "require")
  /\ required' = [required EXCEPT ![call[t].hub] = TRUE]
  /\ Goto(t, "autharm")
  /\ UNCHANGED <<trusted, files, cons, linking, unsaved>>

\* Link goes on to the other hub, and both go on to arm.
AuthArm(t) ==
  /\ At(t, "autharm")
  /\ LET k == call[t] IN
     \/ call' = [call EXCEPT ![t].at = "restore", ![t].why = "rollback"]
     \/ /\ Armable(k.hub)
        /\ call' = [call EXCEPT ![t] =
             IF k.op = "connect" THEN [k EXCEPT !.at = "arm"]
             ELSE IF k.second    THEN [k EXCEPT !.at = "listen"]
             ELSE [k EXCEPT !.at = "grant", !.second = TRUE, !.hub = k.peer,
                            !.peer = k.hub, !.key = Own[k.hub]]]
  /\ UNCHANGED <<trusted, files, required, cons, linking, unsaved>>

\* Mutant: the entry is erased, whatever was there before the call.
RestoreErases(t) ==
  /\ At(t, "restore")
  /\ LET k == call[t] IN
     /\ trusted' = [trusted EXCEPT ![k.hub][k.peer] = NoKey]
     /\ Goto(t, IF k.why = "grant" THEN "failed" ELSE "snapshot")
  /\ UNCHANGED <<files, required, cons, linking, unsaved>>

\* RestoreTrust: the earlier trust still stands, or there was none.
Restore(t) ==
  /\ At(t, "restore")
  /\ LET k == call[t] IN
     /\ trusted' = [trusted EXCEPT ![k.hub][k.peer] = k.prev]
     /\ Goto(t, IF k.why = "grant" THEN "failed" ELSE "snapshot")
  /\ UNCHANGED <<files, required, cons, linking, unsaved>>

\* A hub that had no peer is put back the way it was spawned.
Relinquish(t) ==
  /\ At(t, "relinquish")
  /\ required' = [required EXCEPT ![call[t].hub] = FALSE]
  /\ Goto(t, "failed")
  /\ UNCHANGED <<trusted, files, cons, linking, unsaved>>

-----------------------------------------------------------------------------
(* What the callers do next *)

\* The call is refused; a Link refused on its second hub first withdraws what
\* it granted on the first.  ArmUnified returns ArmResolved's refusal as it is.
Fail(t) ==
  /\ At(t, "failed") \/ At(t, "refused")
  /\ LET k == call[t] IN
     IF k.op = "link" /\ k.second /\ ~k.already
     THEN /\ call' = [call EXCEPT ![t].at = "untrust", ![t].hub = k.peer,
                                  ![t].peer = k.hub]
          /\ UNCHANGED linking
     ELSE Return(t)
  /\ UNCHANGED <<trusted, files, required, cons, unsaved>>

\* UntrustPeer leaves the enforcement on.
Untrust(t) ==
  /\ At(t, "untrust")
  /\ trusted' = [trusted EXCEPT ![call[t].hub][call[t].peer] = NoKey]
  /\ call' = [call EXCEPT ![t].at = "snapshot", ![t].why = "withdraw"]
  /\ UNCHANGED <<files, required, cons, linking, unsaved>>

\* The first hub of a Link listens; a refusal leaves nothing armed.
ArmListener(t) ==
  /\ At(t, "listen")
  /\ LET k == call[t] IN
     \/ /\ cons' = [cons EXCEPT ![k.peer] = @ \cup {k.hub}]
        /\ Goto(t, "arm")
        /\ UNCHANGED linking
     \/ UNCHANGED cons /\ Return(t)
  /\ UNCHANGED <<trusted, files, required, unsaved>>

\* ArmResolved.  It may be refused: a second connection for the peer is.  Of a
\* Link this is the dial, and a refusal retracts the listener if it can.
Arm(t) ==
  /\ At(t, "arm")
  /\ LET k == call[t] IN
     \/ cons' = [cons EXCEPT ![k.hub] = @ \cup {k.peer}] /\ Return(t)
     \/ k.op = "connect" /\ UNCHANGED <<cons, linking>> /\ Goto(t, "refused")
     \/ k.op = "link" /\ cons' \in {cons, [cons EXCEPT ![k.peer] = @ \ {k.hub}]} /\ Return(t)
  /\ UNCHANGED <<trusted, files, required, unsaved>>

-----------------------------------------------------------------------------
(* Specification *)

Init ==
  /\ trusted = [h \in Hubs |-> Nothing]
  /\ temp = [h \in Hubs |-> NoFile]
  /\ file = [h \in Hubs |-> Nothing]
  /\ list = [h \in Hubs |-> Nothing]
  /\ required = [h \in Hubs |-> FALSE]
  /\ cons = [h \in Hubs |-> {}]
  /\ linking = Nobody
  /\ call = [t \in Threads |-> NoCall]
  /\ unsaved = {}

Begin(t) ==
  \/ \E h \in Hubs, p \in Names, k \in Keys : Connect(t, h, p, k)
  \/ \E a, b \in Hubs : Link(t, a, b)

Continue(t) ==
  \/ ReadTrusts(t) \/ Grant(t)
  \/ Snapshot(t) \/ DeleteTemp(t) \/ Append(t) \/ Move(t) \/ Load(t)
  \/ Require(t) \/ AuthArm(t) \/ Restore(t) \/ Relinquish(t)
  \/ Fail(t) \/ Untrust(t) \/ ArmListener(t) \/ Arm(t)

Next ==
  \/ \E t \in Threads : Begin(t) \/ Continue(t)
  \/ \E h \in Hubs, p \in Names : Drop(h, p)

Spec == Init /\ [][Next]_vars

-----------------------------------------------------------------------------
(* Properties *)

\* Whenever no call is under way on a hub, the kernel lists every peer the hub
\* trusts with the key it trusts it by: a grant keeps every peer granted before,
\* and a refused one puts back the key it replaced.  A rollback whose own rewrite
\* failed is the exception the code allows ("best effort").
TrustIsListed ==
  \A h \in Hubs : (~Busy(h) /\ h \notin unsaved) =>
    \A p \in Names : trusted[h][p] # NoKey => list[h][p] = trusted[h][p]

\* At no moment is a hub armed towards a peer that it does not list or without
\* enforcing: whatever fails, on this hub or the other, the order of
\* TrustAndEnforce and its callers leaves no window.
ArmedIsEnforced ==
  \A h \in Hubs : \A p \in cons[h] :
    required[h] /\ trusted[h][p] # NoKey /\ list[h][p] # NoKey

\* A Listen or Connect that is refused leaves no trust half granted.  Refused
\* inside TrustAndEnforce, it has put the trusted set back exactly as it found it,
\* the peer it was about included.  Refused by ArmResolved after that, it leaves
\* the whole grant: the set changed for its peer alone, the kernel's list agreeing
\* with the set, the enforcement on.
RefusalIsWhole ==
  \A t \in Threads : call[t].op = "connect" =>
    LET k == call[t] IN
    /\ At(t, "failed") => trusted[k.hub] = k.found
    /\ At(t, "refused") => /\ trusted[k.hub] = [k.found EXCEPT ![k.peer] = k.key]
                           /\ list[k.hub] = trusted[k.hub] /\ required[k.hub]

\* What ArmUnified's notes say: nothing is left behind by a failure, and
\* TrustAndEnforce has already put back the allow-list.  Neither holds.
RefusalLeavesNothing ==
  \A t \in Threads : (At(t, "failed") \/ At(t, "refused")) /\ call[t].op = "connect" =>
    trusted[call[t].hub] = call[t].found

RefusalRestoresList ==
  \A t \in Threads :
    (At(t, "failed") /\ call[t].op = "connect") => list[call[t].hub] = call[t].foundList
=============================================================================
