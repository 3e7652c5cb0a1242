---------------------------- MODULE HubDirectory ----------------------------
(***************************************************************************)
(* What the network promises of hub addresses: at most one open hub answers *)
(* to an address, CreateHub is refused as a duplicate only when the address *)
(* is taken at some moment of the call, and closing a hub frees its         *)
(* address.  Each call takes effect at once, between its start and its      *)
(* return.                                                                  *)
(***************************************************************************)
CONSTANTS
  Addresses,  \* hub addresses
  Hubs,       \* hub objects
  Threads,    \* client threads
  NoHub       \* what an address nobody answers to maps to

VARIABLES
  open,       \* the hub that answers to each address
  request     \* each thread's latest CreateHub: its address and its answer

vars == <<open, request>>

Answer(t, answer) == request' = [request EXCEPT ![t].answer = answer]

Ask(t, a) ==
  /\ request[t].answer # "pending"
  /\ request' = [request EXCEPT ![t] = [address |-> a, answer |-> "pending"]]
  /\ UNCHANGED open

\* The hub is made, and is nowhere else in the directory.
Made(t, h) ==
  /\ request[t].answer = "pending"
  /\ open[request[t].address] = NoHub /\ \A b \in Addresses : open[b] # h
  /\ open' = [open EXCEPT ![request[t].address] = h]
  /\ Answer(t, "made")

Duplicate(t) ==
  /\ request[t].answer = "pending"
  /\ open[request[t].address] # NoHub
  /\ Answer(t, "duplicate")
  /\ UNCHANGED open

\* No pump could be started for it.
Failed(t) ==
  /\ request[t].answer = "pending"
  /\ Answer(t, "failed")
  /\ UNCHANGED open

\* A hub is closed, by its client or with the network.
Close(a) ==
  /\ open[a] # NoHub
  /\ open' = [open EXCEPT ![a] = NoHub]
  /\ UNCHANGED request

Init ==
  /\ open = [a \in Addresses |-> NoHub]
  /\ \E a \in Addresses : request = [t \in Threads |-> [address |-> a, answer |-> "none"]]

Next ==
  \/ \E t \in Threads : \/ \E a \in Addresses : Ask(t, a)
                        \/ \E h \in Hubs : Made(t, h)
                        \/ Duplicate(t) \/ Failed(t)
  \/ \E a \in Addresses : Close(a)

Spec == Init /\ [][Next]_vars
=============================================================================
