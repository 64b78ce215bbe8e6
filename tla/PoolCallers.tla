----------------------------- MODULE PoolCallers ----------------------------
(***************************************************************************)
(* The request pool with its callers.  A caller is an application that     *)
(* starts non-blocking operations and releases each with one mcapi_wait;   *)
(* calls do not overlap.  holds[c] is what the caller believes it holds,   *)
(* valid is what the database says.                                        *)
(***************************************************************************)
EXTENDS RequestPool

CONSTANT Callers

VARIABLE holds

vars == <<poolVars, holds>>

Init ==
  /\ PoolInit
  /\ holds = [c \in Callers |-> {}]

\* A non-blocking call obtains a handle.
Obtain(c, r) ==
  /\ Reserve(r)
  /\ holds' = [holds EXCEPT ![c] = @ \union {r}]

\* A non-blocking call returns MCAPI_ERR_REQUEST_LIMIT.
ObtainFails == ReserveFails /\ UNCHANGED holds

\* mcapi_trans_wait calls mcapi_trans_remove_request, ignores its result and
\* returns: the caller is done with r either way.
GiveBack(c, r) ==
  /\ r \in holds[c]
  /\ Release(r)
  /\ holds' = [holds EXCEPT ![c] = @ \ {r}]

Next ==
  \/ \E c \in Callers, r \in Requests : Obtain(c, r)
  \/ ObtainFails
  \/ \E c \in Callers, r \in Requests : GiveBack(c, r)

Spec == Init /\ [][Next]_vars

-----------------------------------------------------------------------------
AllHolds == UNION {holds[c] : c \in Callers}

TypeOK ==
  /\ PoolTypeOK
  /\ holds \in [Callers -> SUBSET Requests]

\* No handle is given to two callers at once, and a handle that a caller has is
\* reserved in the database: remove_request's assertion holds for it.
ExclusiveHandles ==
  /\ AllHolds \subseteq Held
  /\ \A c, d \in Callers : c # d => holds[c] \intersect holds[d] = {}

\* The calls implement the abstract pool: what it calls lost are the handles
\* that are reserved in the database and that no caller has.
Pool == INSTANCE HandlePool WITH Handles <- Requests, lost <- Held \ AllHolds

ImplementsHandlePool == Pool!Spec

\* Once every handle was reserved at one time, every handle stays reserved.
ExhaustionIsPermanent ==
  [][curr_count = MaxRequests => UNCHANGED <<curr_count, valid>>]_vars
=============================================================================
