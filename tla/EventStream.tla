----------------------------- MODULE EventStream -----------------------------
(***************************************************************************)
(* What the COM tier promises of a hub's events: those it accepted are     *)
(* raised in the order they came, none twice; one it has to refuse is      *)
(* counted, and the count is reported once everything before it is raised. *)
(***************************************************************************)
EXTENDS Naturals, Sequences

CONSTANT Events

VARIABLES
  accepted,  \* the events taken over from the hub's pump, in order
  raised,    \* those raised to the client's sinks, in order
  refused,   \* how many were refused
  reported   \* how many of the refused the client has been told of

Init == accepted = <<>> /\ raised = <<>> /\ refused = 0 /\ reported = 0

Accept ==
  /\ \E e \in Events : accepted' = Append(accepted, e)
  /\ UNCHANGED <<raised, refused, reported>>

Refuse ==
  /\ refused' = refused + 1
  /\ UNCHANGED <<accepted, raised, reported>>

Raise ==
  /\ Len(raised) < Len(accepted)
  /\ raised' = Append(raised, accepted[Len(raised) + 1])
  /\ UNCHANGED <<accepted, refused, reported>>

Report ==
  /\ raised = accepted
  /\ reported' = refused
  /\ UNCHANGED <<accepted, raised, refused>>

Next == Accept \/ Refuse \/ Raise \/ Report

Spec == Init /\ [][Next]_<<accepted, raised, refused, reported>>
=============================================================================
