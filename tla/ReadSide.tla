------------------------------ MODULE ReadSide ------------------------------
(***************************************************************************)
(* Reading a hub that changes meanwhile.  Its connections are read by      *)
(* position (GetConCount, GetCon) or by peer (GetEndpoint), and a text in  *)
(* two passes, one for its size and one to fill a buffer.  Each call sees  *)
(* one moment of the two maps; arms, disconnects and logins come between   *)
(* the calls.  The COM tier builds its answers from them: RelationTo walks *)
(* the positions for a name, BstrFromRead repeats the two passes, and the  *)
(* network's EndpointFor does not.                                         *)
(***************************************************************************)
EXTENDS Sequences, Ordered, Functions

CONSTANTS
  Order,       \* the peers there are, in the order of a std::map's keys
  Spellings,   \* spellings of endpoints
  kTries,      \* BstrFromRead's
  Reads,       \* bound: what the one read may be
  MaxChanges   \* bound: the changes of the hub and of the map, before and during it

ASSUME ReadsAssumption ==
  /\ Order \in Seq(Range(Order)) /\ Order # <<>> /\ IsInjective(Order)
  /\ kTries \in Nat \ {0} /\ MaxChanges \in Nat
  /\ Reads \subseteq {"relation", "peerAt", "endpoint", "describe", "map"}

VARIABLES
  record,      \* m_mapArmed: the role and the spelling of each armed connection
  peers,       \* m_mapPeers: "none", "up" or "down"
  entry,       \* what m_mapEndpoints of the network says of one address
  changes,
  read         \* the read, and what it can say of the time since it began

hubVars  == <<record, peers, entry, changes>>
readVars == <<hubVars, read>>

Peers    == Range(Order)
Roles    == {"listen", "dial"}
NotArmed == [role |-> "none", text |-> <<>>]
NoRow    == [role |-> "none", peer |-> "none"]

-----------------------------------------------------------------------------
(* One call, one moment *)

\* SnapshotCons: one row for each peer that was armed or was ever up.  The
\* relation of a row is a function of two names, and left out.
Row(p) == [role |-> record[p].role, peer |-> peers[p]]
Placed == InOrder({i \in DOMAIN Order : Row(Order[i]) # NoRow})
Rows   == [k \in DOMAIN Placed |-> Order[Placed[k]]]

\* GetEndpointFor, of the network.
Said == entry

\* What a text read reads; <<>> where the call has nothing to say.  GetEndpoint
\* answers a peer it knows but did not arm with an empty text.
ValueOf(r) ==
  CASE r.what = "map"      -> Said
    [] r.what = "endpoint" -> IF Row(r.peer) = NoRow THEN <<>> ELSE <<record[r.peer].text>>
    [] r.what = "peerAt"   -> IF r.i > Len(Rows) THEN <<>> ELSE <<Rows[r.i]>>
    [] OTHER -> <<[p \in Peers |-> <<Row(p), record[p].text>>]>>

NoRead == [what |-> "none", at |-> "idle", peer |-> Order[1], count |-> 0, i |-> 1,
           name |-> Order[1], flags |-> NoRow, first |-> <<>>, tries |-> 0,
           was |-> {}, steady |-> TRUE, moved |-> 0]

ReadInit ==
  /\ record = [p \in Peers |-> NotArmed]
  /\ peers = [p \in Peers |-> "none"]
  /\ entry = <<>> /\ changes = 0
  /\ read = NoRead

-----------------------------------------------------------------------------
(* What happens meanwhile *)

\* Bound: the history ends with the read.
Over == read.at \in {"found", "unresolved", "empty", "refused", "read", "moreData"}

\* `was' keeps what the peer's row has been, `moved' how often the text changed.
Watched ==
  \E r \in {read} :
    read' = IF r.at = "idle" THEN r
            ELSE [r EXCEPT !.was    = @ \cup {Row(r.peer)'},
                           !.steady = @ /\ Rows' = Rows,
                           !.moved  = IF ValueOf(r)' = ValueOf(r) THEN @ ELSE @ + 1]

Change == ~Over /\ changes < MaxChanges /\ changes' = changes + 1

\* ArmRecorded; a peer that is armed is refused.
Arm(p, role, text) ==
  /\ Change /\ record[p] = NotArmed
  /\ record' = [record EXCEPT ![p] = [role |-> role, text |-> <<text>>]]
  /\ UNCHANGED <<peers, entry>>
  /\ Watched

\* CloseCon and the roll-back of an arm erase the record.
Erase(p) ==
  /\ Change /\ record[p] # NotArmed
  /\ record' = [record EXCEPT ![p] = NotArmed]
  /\ UNCHANGED <<peers, entry>>
  /\ Watched

\* MarkPeer, also for a name a pattern's listener learns at login and for a dial
\* that fails: a row, once made, stays.
MarkPeer(p, state) ==
  /\ Change /\ state # peers[p]
  /\ peers' = [peers EXCEPT ![p] = state]
  /\ UNCHANGED <<record, entry>>
  /\ Watched

SetEntry(value) ==
  /\ Change /\ "map" \in Reads
  /\ entry' = value
  /\ UNCHANGED <<record, peers>>
  /\ Watched

Goes(r) == read' = r /\ UNCHANGED hubVars

-----------------------------------------------------------------------------
(* RelationTo *)

BeginWalk(p) ==
  /\ "relation" \in Reads /\ read = NoRead
  /\ Goes([read EXCEPT !.what = "relation", !.at = "size", !.peer = p, !.count = Len(Rows),
                       !.was = {Row(p)}])

\* The walk goes on with the next position, up to the count it began with.
Onward(r) == IF r.i = r.count THEN [r EXCEPT !.at = "unresolved"]
                              ELSE [r EXCEPT !.at = "size", !.i = @ + 1]

\* The first GetCon sizes the name, and ends the walk past the last position.
SizeName ==
  /\ read.at = "size"
  /\ IF read.i > read.count \/ read.i > Len(Rows)
     THEN Goes([read EXCEPT !.at = "unresolved"])
     ELSE Goes([read EXCEPT !.at = "name", !.name = Rows[read.i], !.flags = Row(Rows[read.i])])

\* Mutant: the flags are those of the first call.
MatchStale(r) ==
  IF Rows[r.i] = r.peer THEN [r EXCEPT !.at = "found"] ELSE Onward(r)

\* The second reads name and flags together.
Match(r) ==
  IF Rows[r.i] = r.peer THEN [r EXCEPT !.at = "found", !.flags = Row(r.peer)] ELSE Onward(r)

\* It fails, and the position is passed over, when there is no such position any
\* more, or a name too long for the buffer stands there.
ReadName ==
  /\ read.at = "name"
  /\ \/ /\ read.i <= Len(Rows)
        /\ Goes(Match(read))
     \/ /\ read.i \in DOMAIN Rows => Rows[read.i] # read.name
        /\ Goes(Onward(read))

-----------------------------------------------------------------------------
(* BstrFromRead, and the network's EndpointFor *)

BeginText(what, p, i) ==
  /\ what \in Reads \ {"relation"} /\ read = NoRead
  /\ Goes([read EXCEPT !.what = what, !.at = "sizing", !.peer = p, !.i = i])

\* The network answers an address it has no entry for with an empty text.
SizeText ==
  /\ read.at = "sizing"
  /\ Goes([read EXCEPT !.first = ValueOf(read),
                       !.at = IF ValueOf(read) # <<>> THEN "filling"
                              ELSE IF read.what = "map" THEN "empty" ELSE "refused"])

TriesOf(r) == IF r.what = "map" THEN 1 ELSE kTries

\* Mutant: the buffer keeps the size it was given first.
TooLongKept(r) ==
  [r EXCEPT !.tries = @ + 1, !.at = IF r.tries + 1 < TriesOf(r) THEN "filling" ELSE "moreData"]

\* Another attempt begins with the size again.
TooLong(r) ==
  [r EXCEPT !.tries = @ + 1, !.at = IF r.tries + 1 < TriesOf(r) THEN "sizing" ELSE "moreData"]

\* A text that is not the one that was sized may be longer, and does not fit.
FillText ==
  /\ read.at = "filling"
  /\ LET v == ValueOf(read) IN
     \/ v = <<>> /\ Goes([read EXCEPT !.at = "refused"])
     \/ v # <<>> /\ Goes([read EXCEPT !.at = "read"])
     \/ v # <<>> /\ v # read.first /\ Goes(TooLong(read))

-----------------------------------------------------------------------------
Meanwhile ==
  \/ \E p \in Peers : Erase(p) \/ MarkPeer(p, "up") \/ MarkPeer(p, "down")
  \/ \E p \in Peers, role \in Roles, text \in Spellings : Arm(p, role, text)
  \/ \E text \in Spellings : SetEntry(<<text>>)
  \/ SetEntry(<<>>)

Reader ==
  \/ \E p \in Peers : BeginWalk(p) \/ BeginText("endpoint", p, 1)
  \/ \E i \in 1 .. Len(Order) : BeginText("peerAt", Order[1], i)
  \/ BeginText("describe", Order[1], 1) \/ BeginText("map", Order[1], 1)
  \/ SizeName \/ ReadName \/ SizeText \/ FillText

ReadNext == Meanwhile \/ Reader

ReadSpec == ReadInit /\ [][ReadNext]_readVars

-----------------------------------------------------------------------------
(* Properties *)

\* RelationTo answers flags the peer had at a moment of the walk, though it
\* learns them from positions that shift under it; and it knows nothing of a
\* peer only if the peer was unknown at some moment or the positions did shift.
WalkAnswersTruly ==
  /\ read.at = "found" => read.flags \in read.was
  /\ read.at = "unresolved" => NoRow \in read.was \/ ~read.steady

\* The note on BstrFromRead: only a value that keeps changing through every
\* attempt escapes as ERROR_MORE_DATA, one that changed less is answered.
OnlyChurnEscapes == read.at = "moreData" => read.moved >= TriesOf(read)
=============================================================================
