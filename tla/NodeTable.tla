------------------------------ MODULE NodeTable ------------------------------
(***************************************************************************)
(* What the shared database is to the processes that use it, with no       *)
(* semaphore, segments or counts: one table of nodes.  Whoever comes first *)
(* finds it empty, whoever comes later finds it as it is, and nobody writes*)
(* in it but a member that is not in it, and its own number only.  Entries *)
(* stay when their processes leave or die.                                 *)
(*                                                                         *)
(* Nothing is promised once the table is broken, which takes a process     *)
(* that is no member: it finalises and removes the segment of others.      *)
(***************************************************************************)

CONSTANTS
  Nodes,
  Entries,
  NoNode

VARIABLES
  members,    \* the processes that have the database
  table,      \* the node in each entry, or NoNode
  broken      \* a segment was removed while a process used it

vars == <<members, table, broken>>

NobodyIn == [n \in Entries |-> NoNode]

Init ==
  /\ members = {}
  /\ table = NobodyIn
  /\ broken = FALSE

\* mcapi_initialize has attached p to the database.
Join(p) ==
  /\ ~ broken
  /\ p \notin members
  /\ members' = members \union {p}
  /\ table' = IF members = {} THEN NobodyIn ELSE table
  /\ UNCHANGED broken

\* add_node has registered p, in an entry that may be another's.
Enter(p, n) ==
  /\ ~ broken
  /\ p \in members
  /\ \A m \in Entries : table[m] # p
  /\ table' = [table EXCEPT ![n] = p]
  /\ UNCHANGED <<members, broken>>

\* p finalises or dies.
Depart(p) ==
  /\ ~ broken
  /\ p \in members
  /\ members' = members \ {p}
  /\ UNCHANGED <<table, broken>>

\* The database is removed after everybody has left.
Vanish ==
  /\ ~ broken
  /\ members = {}
  /\ table' = NobodyIn
  /\ UNCHANGED <<members, broken>>

Break(p) ==
  /\ ~ broken
  /\ p \notin members
  /\ broken' = TRUE
  /\ members' = {}
  /\ table' = NobodyIn

Next ==
  \/ Vanish
  \/ \E p \in Nodes :
       Join(p) \/ Depart(p) \/ Break(p) \/ \E n \in Entries : Enter(p, n)

Spec == Init /\ [][Next]_vars
=============================================================================
