----------------------------- MODULE Operations -----------------------------
(***************************************************************************)
(* What the message interface promises an application, without requests:   *)
(* an operation is started, finishes at most once, and then its buffer is  *)
(* the application's again.  A message that reached a local port stays in  *)
(* order in the port's inbox until one operation takes it, and is in that  *)
(* operation's buffer until the application has had it.                    *)
(***************************************************************************)
EXTENDS Sequences

CONSTANTS
  Ops,
  Ports,
  Msgs,
  Nothing,    \* an empty buffer
  Filled      \* an endpoint handle was stored

VARIABLES
  inbox,      \* inbox[p] is the messages that wait at port p
  state,      \* state[o] is "idle", "active" or "finished"
  mem         \* mem[o] is the buffer of operation o

vars == <<inbox, state, mem>>

Init ==
  /\ inbox = [p \in Ports |-> <<>>]
  /\ state = [o \in Ops |-> "idle"]
  /\ mem = [o \in Ops |-> Nothing]

Arrive(p, m) ==
  /\ inbox' = [inbox EXCEPT ![p] = Append(@, m)]
  /\ UNCHANGED <<state, mem>>

\* The port is deleted with the messages that wait there.
Flush(p) ==
  /\ inbox' = [inbox EXCEPT ![p] = <<>>]
  /\ UNCHANGED <<state, mem>>

Start(o) ==
  /\ state[o] = "idle"
  /\ state' = [state EXCEPT ![o] = "active"]
  /\ UNCHANGED <<inbox, mem>>

\* An operation may also finish in the call that starts it.
Finish(o) ==
  /\ state[o] # "finished"
  /\ mem[o] = Nothing
  /\ state' = [state EXCEPT ![o] = "finished"]
  /\ \/ \E p \in Ports :
          /\ inbox[p] # <<>>
          /\ mem' = [mem EXCEPT ![o] = Head(inbox[p])]
          /\ inbox' = [inbox EXCEPT ![p] = Tail(@)]
     \/ /\ mem' \in {mem, [mem EXCEPT ![o] = Filled]}
        /\ UNCHANGED inbox

\* The operation ends in an error or a timeout: its buffer was not touched.
Abandon(o) ==
  /\ state[o] = "active"
  /\ mem[o] = Nothing
  /\ state' = [state EXCEPT ![o] = "idle"]
  /\ UNCHANGED <<inbox, mem>>

\* The application has had what the buffer holds.
Consume(o) ==
  /\ state[o] = "finished"
  /\ state' = [state EXCEPT ![o] = "idle"]
  /\ mem' = [mem EXCEPT ![o] = Nothing]
  /\ UNCHANGED inbox

Next ==
  \/ \E p \in Ports : Flush(p) \/ \E m \in Msgs : Arrive(p, m)
  \/ \E o \in Ops : Start(o) \/ Finish(o) \/ Abandon(o) \/ Consume(o)

Spec == Init /\ [][Next]_vars
=============================================================================
