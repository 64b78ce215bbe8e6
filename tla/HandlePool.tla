----------------------------- MODULE HandlePool -----------------------------
(***************************************************************************)
(* What the request pool of the transport layer does for its callers, with *)
(* no free list: a handle is given to a caller only while nobody has it,   *)
(* and a caller that gives one back makes it available again -- except     *)
(* while every handle is out, when the handle given back is lost.          *)
(***************************************************************************)

CONSTANTS
  Handles,
  Callers

VARIABLES
  holds,      \* holds[c] is the set of handles that caller c has
  lost        \* the handles that were given back in vain

vars == <<holds, lost>>

Taken == lost \union UNION {holds[c] : c \in Callers}

Init ==
  /\ holds = [c \in Callers |-> {}]
  /\ lost = {}

\* reserve_request gave h to c.
Take(c, h) ==
  /\ h \notin Taken
  /\ holds' = [holds EXCEPT ![c] = @ \union {h}]
  /\ UNCHANGED lost

\* remove_request made h available again.
Give(c, h) ==
  /\ h \in holds[c]
  /\ Taken # Handles
  /\ holds' = [holds EXCEPT ![c] = @ \ {h}]
  /\ UNCHANGED lost

\* remove_request returned FALSE and c has no further use for h.
Lose(c, h) ==
  /\ h \in holds[c]
  /\ Taken = Handles
  /\ holds' = [holds EXCEPT ![c] = @ \ {h}]
  /\ lost' = lost \union {h}

Next == \E c \in Callers, h \in Handles : Take(c, h) \/ Give(c, h) \/ Lose(c, h)

Spec == Init /\ [][Next]_vars
=============================================================================
