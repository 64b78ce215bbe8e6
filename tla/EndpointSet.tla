----------------------------- MODULE EndpointSet -----------------------------
(***************************************************************************)
(* What creating and deleting endpoints does for the calls that look ports *)
(* up, with no indices, sessions or handles: a set of ports, of which a    *)
(* create adds one that was not there, while there is room, and a delete   *)
(* removes one and no other.  The room that a delete makes can be used     *)
(* again.                                                                  *)
(*                                                                         *)
(* Nothing is promised after a create of a port that exists, or of one     *)
(* more than there is room for: neither is refused.                        *)
(***************************************************************************)
EXTENDS Integers, FiniteSets

CONSTANTS
  Ports,
  Capacity    \* how many endpoints the driver has sessions for

VARIABLES
  live,       \* the ports that have an endpoint
  broken      \* a create went wrong

vars == <<live, broken>>

Init ==
  /\ live = {}
  /\ broken = FALSE

Create(p) ==
  /\ ~ broken
  /\ p \notin live
  /\ Cardinality(live) < Capacity
  /\ live' = live \union {p}
  /\ UNCHANGED broken

Delete(p) ==
  /\ ~ broken
  /\ p \in live
  /\ live' = live \ {p}
  /\ UNCHANGED broken

Break(p) ==
  /\ ~ broken
  /\ p \in live \/ Cardinality(live) = Capacity
  /\ broken' = TRUE
  /\ live' = {}

Next == \E p \in Ports : Create(p) \/ Delete(p) \/ Break(p)

Spec == Init /\ [][Next]_vars
=============================================================================
