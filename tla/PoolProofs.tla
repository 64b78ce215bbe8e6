----------------------------- MODULE PoolProofs -----------------------------
(***************************************************************************)
(* Proofs about the request pool, for every number of handles and callers. *)
(* The inductive invariant is the free-list invariant together with the    *)
(* types and the agreement between callers and database: a handle popped   *)
(* from the list is new to every caller only because the list reaches      *)
(* exactly the handles that are not reserved (RequestPoolProofs).          *)
(***************************************************************************)
EXTENDS PoolCallers, RequestPoolProofs

IInv ==
  /\ TypeOK
  /\ FreeListSound
  /\ ExclusiveHandles

-----------------------------------------------------------------------------
LEMMA IInvInit == Init => IInv
<1> SUFFICES ASSUME Init
             PROVE  IInv
  OBVIOUS
<1>1. PoolTypeOK /\ FreeListSound
  BY PoolInitSound DEF Init
<1>2. TypeOK
  BY <1>1 DEF Init, TypeOK
<1>3. ExclusiveHandles
  BY DEF Init, ExclusiveHandles, AllHolds
<1> QED
  BY <1>1, <1>2, <1>3 DEF IInv

LEMMA IInvStep == IInv /\ [Next]_vars => IInv'
<1> SUFFICES ASSUME IInv, [Next]_vars
             PROVE  IInv'
  OBVIOUS
<1>t. PoolTypeOK /\ FreeListSound /\ holds \in [Callers -> SUBSET Requests]
  BY DEF IInv, TypeOK
<1>1. ASSUME NEW c \in Callers, NEW r \in Requests, Obtain(c, r)
      PROVE  IInv'
  <2>1. PoolTypeOK' /\ FreeListSound'
    BY <1>t, <1>1, ReserveKeepsListSound DEF Obtain
  <2>2. TypeOK'
    BY <1>t, <1>1, <2>1 DEF TypeOK, Obtain
  <2>3. ~ valid[r]
    BY <1>t, <1>1, HeadIsFree DEF Obtain, Reserve
  <2>4. \A d \in Callers : r \notin holds[d]
    BY <2>3 DEF IInv, ExclusiveHandles, AllHolds, Held
  <2>5. ExclusiveHandles'
    <3>1. ASSUME NEW d \in Callers, NEW s \in holds'[d]
          PROVE  s \in Held'
      BY <1>t, <1>1, <3>1 DEF Obtain, Reserve, IInv, ExclusiveHandles, AllHolds, Held, PoolTypeOK
    <3>2. ASSUME NEW d \in Callers, NEW e \in Callers, d # e
          PROVE  holds'[d] \intersect holds'[e] = {}
      BY <1>t, <1>1, <2>4, <3>2 DEF Obtain, IInv, ExclusiveHandles
    <3> QED
      BY <3>1, <3>2 DEF ExclusiveHandles, AllHolds
  <2> QED
    BY <2>1, <2>2, <2>5 DEF IInv
<1>2. CASE ObtainFails
  <2>1. PoolTypeOK' /\ FreeListSound'
    BY <1>t, <1>2, PoolUnchanged DEF ObtainFails, ReserveFails
  <2> QED
    BY <1>2, <2>1 DEF IInv, TypeOK, ObtainFails, ReserveFails, poolVars,
                      ExclusiveHandles, AllHolds, Held
<1>3. ASSUME NEW c \in Callers, NEW r \in Requests, GiveBack(c, r)
      PROVE  IInv'
  <2>1. PoolTypeOK' /\ FreeListSound'
    BY <1>t, <1>3, RemoveKeepsListSound, PoolUnchanged DEF GiveBack, Release, RemoveRefused
  <2>2. TypeOK'
    BY <1>t, <1>3, <2>1 DEF TypeOK, GiveBack
  <2>3. ExclusiveHandles'
    <3>1. ASSUME NEW d \in Callers, NEW s \in holds'[d]
          PROVE  s \in Held'
      <4>1. s \in holds[d] /\ s # r
        BY <1>t, <1>3, <3>1 DEF GiveBack, IInv, ExclusiveHandles
      <4>2. valid[s] /\ s \in Requests
        BY <4>1 DEF IInv, ExclusiveHandles, AllHolds, Held
      <4> QED
        BY <1>t, <1>3, <4>1, <4>2
           DEF GiveBack, Release, Remove, RemoveRefused, poolVars, Held, PoolTypeOK
    <3>2. ASSUME NEW d \in Callers, NEW e \in Callers, d # e
          PROVE  holds'[d] \intersect holds'[e] = {}
      BY <1>t, <1>3, <3>2 DEF GiveBack, IInv, ExclusiveHandles
    <3> QED
      BY <3>1, <3>2 DEF ExclusiveHandles, AllHolds
  <2> QED
    BY <2>1, <2>2, <2>3 DEF IInv
<1>4. CASE UNCHANGED vars
  <2>1. PoolTypeOK' /\ FreeListSound'
    BY <1>t, <1>4, PoolUnchanged DEF vars
  <2> QED
    BY <1>4, <2>1 DEF IInv, TypeOK, vars, poolVars, ExclusiveHandles, AllHolds, Held
<1> QED
  BY <1>1, <1>2, <1>3, <1>4 DEF Next

\* The inductive invariant holds in every reachable state.
THEOREM PoolInvariant == Spec => []IInv
BY IInvInit, IInvStep, PTL DEF Spec

\* The pool's variables keep their types; in particular curr_count never leaves
\* 0 .. MaxRequests, so remove_request never drives it below zero.
THEOREM TypesAreKept == Spec => []TypeOK
<1>1. IInv => TypeOK
  BY DEF IInv
<1> QED
  BY <1>1, PoolInvariant, PTL

\* The free list of init_request_indexed_array stays a simple path through
\* exactly the handles that are not reserved.
THEOREM FreeListStaysSound == Spec => []FreeListSound
<1>1. IInv => FreeListSound
  BY DEF IInv
<1> QED
  BY <1>1, PoolInvariant, PTL

\* No two callers ever have the same handle, and what a caller has is reserved.
THEOREM HandlesAreExclusive == Spec => []ExclusiveHandles
<1>1. IInv => ExclusiveHandles
  BY DEF IInv
<1> QED
  BY <1>1, PoolInvariant, PTL

\* MCAPI_ERR_REQUEST_LIMIT means that all MaxRequests handles are reserved.
THEOREM LimitMeansAllReserved == Spec => []LimitOnlyWhenAllReserved
<1>1. IInv => LimitOnlyWhenAllReserved
  BY EmptyListMeansAllHeld DEF IInv, TypeOK, LimitOnlyWhenAllReserved
<1> QED
  BY <1>1, PoolInvariant, PTL

-----------------------------------------------------------------------------
\* Every call of the free-list code is a step of the abstract pool.
THEOREM ListImplementsPool == Spec => ImplementsHandlePool
<1>1. Init => Pool!Init
  BY DEF Init, PoolInit, Pool!Init, AllHolds, Held
<1>2. IInv /\ [Next]_vars => [Pool!Next]_(Pool!vars)
  <2> SUFFICES ASSUME IInv, [Next]_vars
               PROVE  [Pool!Next]_(Pool!vars)
    OBVIOUS
  <2>t. PoolTypeOK /\ FreeListSound /\ holds \in [Callers -> SUBSET Requests]
    BY DEF IInv, TypeOK
  <2>e. /\ AllHolds \subseteq Held
        /\ \A c, d \in Callers : c # d => holds[c] \intersect holds[d] = {}
    BY DEF IInv, ExclusiveHandles
  <2>u. Pool!Taken = Held
    BY <2>e DEF Pool!Taken, AllHolds
  <2>1. ASSUME NEW c \in Callers, NEW r \in Requests, Obtain(c, r)
        PROVE  Pool!Take(c, r)
    <3>1. r \notin Held /\ Held' = Held \union {r}
      BY <2>t, <2>1, HeadIsFree DEF Obtain, Reserve, Held, PoolTypeOK
    <3>2. AllHolds' = AllHolds \union {r}
      BY <2>t, <2>1 DEF Obtain, AllHolds
    <3> QED
      BY <2>1, <2>e, <2>u, <3>1, <3>2 DEF Pool!Take, Obtain
  <2>2. ASSUME NEW c \in Callers, NEW r \in Requests, GiveBack(c, r), Remove(r)
        PROVE  Pool!Give(c, r)
    <3>1. Held' = Held \ {r} /\ r \in Held
      BY <2>t, <2>2 DEF Remove, Held, PoolTypeOK
    <3>2. AllHolds' = AllHolds \ {r}
      BY <2>t, <2>2, <2>e DEF GiveBack, AllHolds
    <3>3. Held # Requests
      <4>1. empty_head_index # None
        BY <2>2, <2>t, EmptyListMeansAllHeld DEF Remove, PoolTypeOK
      <4> QED
        BY <4>1, <2>t, HeadIsFree DEF Held
    <3>4. r \in AllHolds
      BY <2>2 DEF GiveBack, AllHolds
    <3>5. Held' \ AllHolds' = Held \ AllHolds
      BY <3>1, <3>2, <3>4
    <3> QED
      BY <2>2, <2>u, <3>3, <3>5 DEF Pool!Give, GiveBack
  <2>3. ASSUME NEW c \in Callers, NEW r \in Requests, GiveBack(c, r), RemoveRefused(r)
        PROVE  Pool!Lose(c, r)
    <3>1. Held' = Held /\ r \in Held
      BY <2>3 DEF RemoveRefused, Held, poolVars
    <3>2. AllHolds' = AllHolds \ {r}
      BY <2>t, <2>3, <2>e DEF GiveBack, AllHolds
    <3>3. Held = Requests
      BY <2>3, <2>t, EmptyListMeansAllHeld, MaxRequestsAssumption DEF RemoveRefused, PoolTypeOK
    <3>4. r \in AllHolds
      BY <2>3 DEF GiveBack, AllHolds
    <3> QED
      BY <2>3, <2>u, <2>e, <3>1, <3>2, <3>3, <3>4 DEF Pool!Lose, GiveBack
  <2>4. CASE ObtainFails \/ UNCHANGED vars
    BY <2>4 DEF ObtainFails, ReserveFails, vars, poolVars, Pool!vars, Held, AllHolds
  <2> QED
    BY <2>1, <2>2, <2>3, <2>4 DEF Next, Pool!Next, GiveBack, Release
<1> QED
  BY <1>1, <1>2, PoolInvariant, PTL DEF Spec, ImplementsHandlePool, Pool!Spec

\* Once every handle has been reserved at the same time no release succeeds any
\* more: remove_request refuses whenever curr_count = max_count.
THEOREM FullPoolStaysFull == Spec => ExhaustionIsPermanent
<1>1. IInv /\ [Next]_vars => (curr_count = MaxRequests => UNCHANGED <<curr_count, valid>>)
  <2> SUFFICES ASSUME IInv, [Next]_vars, curr_count = MaxRequests
               PROVE  UNCHANGED <<curr_count, valid>>
    OBVIOUS
  <2>1. empty_head_index = None
    BY EmptyListMeansAllHeld DEF IInv, TypeOK
  <2> QED
    BY <2>1, MaxRequestsAssumption
       DEF Next, vars, poolVars, Obtain, Reserve, ObtainFails, ReserveFails,
           GiveBack, Release, Remove, RemoveRefused
<1> QED
  BY <1>1, PoolInvariant, PTL DEF Spec, ExhaustionIsPermanent
=============================================================================
