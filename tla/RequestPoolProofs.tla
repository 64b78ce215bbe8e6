-------------------------- MODULE RequestPoolProofs -------------------------
(***************************************************************************)
(* What reserve_request and remove_request preserve, for every number of   *)
(* handles and whoever calls them: the lemmas that the proofs about the    *)
(* modules over the pool rest on.                                          *)
(***************************************************************************)
EXTENDS RequestPool, FiniteSetTheorems, TLAPS

-----------------------------------------------------------------------------
\* An empty free list means that every handle is reserved, and so does a full
\* count; the converse holds too.
LEMMA EmptyListMeansAllHeld ==
  ASSUME PoolTypeOK, FreeListSound
  PROVE  /\ empty_head_index = None <=> curr_count = MaxRequests
         /\ curr_count = MaxRequests => Held = Requests
<1> USE MaxRequestsAssumption
<1>1. PICK path \in [0 .. FreeCount -> Requests \union {None}] :
        /\ FreePath(path, FreeCount)
        /\ \A r \in Requests : ~ valid[r] <=> \E i \in 1 .. FreeCount : path[i] = r
  BY DEF FreeListSound
<1>2. FreeCount \in Nat /\ curr_count \in 0 .. MaxRequests
  BY DEF PoolTypeOK, FreeCount
<1>3. FreeCount = 0 <=> curr_count = MaxRequests
  BY <1>2 DEF FreeCount
<1>4. FreeCount = 0 => empty_head_index = None
  BY <1>1 DEF FreePath
<1>5. FreeCount # 0 => empty_head_index \in Requests
  BY <1>1, <1>2 DEF FreePath
<1>6. None \notin Requests
  BY DEF None, Requests
<1>7. FreeCount = 0 => Held = Requests
  BY <1>1 DEF Held
<1> QED
  BY <1>3, <1>4, <1>5, <1>6, <1>7

\* The head of the free list is never reserved, so reserve_request hands out a
\* handle that nobody holds.
LEMMA HeadIsFree ==
  ASSUME PoolTypeOK, FreeListSound, empty_head_index # None
  PROVE  empty_head_index \in Requests /\ ~ valid[empty_head_index]
<1> USE MaxRequestsAssumption
<1>1. PICK path \in [0 .. FreeCount -> Requests \union {None}] :
        /\ FreePath(path, FreeCount)
        /\ \A r \in Requests : ~ valid[r] <=> \E i \in 1 .. FreeCount : path[i] = r
  BY DEF FreeListSound
<1>2. FreeCount \in Nat
  BY DEF PoolTypeOK, FreeCount
<1>3. FreeCount # 0
  BY <1>1 DEF FreePath
<1> QED
  BY <1>1, <1>2, <1>3 DEF FreePath

-----------------------------------------------------------------------------
LEMMA PoolInitSound ==
  ASSUME PoolInit
  PROVE  PoolTypeOK /\ FreeListSound
<1> USE MaxRequestsAssumption
<1>1. PoolTypeOK
  BY DEF PoolInit, PoolTypeOK, InitialNext, Requests, None
<1>2. FreeListSound
  <2> DEFINE path == [i \in 0 .. MaxRequests |-> IF i = 0 THEN None ELSE MaxRequests - i]
  <2>1. FreeCount = MaxRequests
    BY DEF PoolInit, FreeCount
  <2>2. path \in [0 .. MaxRequests -> Requests \union {None}]
    BY DEF Requests
  <2>3. FreePath(path, MaxRequests)
    <3>1. path[0] = None /\ empty_head_index = path[MaxRequests]
      BY DEF PoolInit
    <3>2. ASSUME NEW i \in 1 .. MaxRequests
          PROVE  path[i] \in Requests /\ next_index[path[i]] = path[i - 1]
      BY DEF PoolInit, InitialNext, Requests
    <3>3. ASSUME NEW i \in 1 .. MaxRequests, NEW j \in 1 .. MaxRequests, path[i] = path[j]
          PROVE  i = j
      BY <3>3
    <3> QED
      BY <3>1, <3>2, <3>3 DEF FreePath
  <2>4. ASSUME NEW r \in Requests
        PROVE  ~ valid[r] <=> \E i \in 1 .. MaxRequests : path[i] = r
    <3>1. MaxRequests - r \in 1 .. MaxRequests /\ path[MaxRequests - r] = r
      BY DEF Requests
    <3> QED
      BY <3>1 DEF PoolInit
  <2> QED
    BY <2>1, <2>2, <2>3, <2>4 DEF FreeListSound
<1> QED
  BY <1>1, <1>2

\* Popping the head leaves the path without its last element.
LEMMA ReserveKeepsListSound ==
  ASSUME PoolTypeOK, FreeListSound, NEW r \in Requests, Reserve(r)
  PROVE  PoolTypeOK' /\ FreeListSound'
<1> USE MaxRequestsAssumption
<1>1. PICK path \in [0 .. FreeCount -> Requests \union {None}] :
        /\ FreePath(path, FreeCount)
        /\ \A s \in Requests : ~ valid[s] <=> \E i \in 1 .. FreeCount : path[i] = s
  BY DEF FreeListSound
<1>k. PICK k \in Nat : k = FreeCount
  BY DEF PoolTypeOK, FreeCount
<1>2. k \in Nat \ {0} /\ k <= MaxRequests /\ FreeCount' = k - 1
  <2>1. k <= MaxRequests /\ FreeCount' = k - 1
    BY <1>k DEF PoolTypeOK, FreeCount, Reserve
  <2>2. k # 0
    BY <1>1, <1>k DEF Reserve, FreePath
  <2> QED
    BY <2>1, <2>2
<1>3. r = path[k] /\ next_index[r] = path[k - 1]
  BY <1>1, <1>k, <1>2 DEF FreePath, Reserve
<1>4. PoolTypeOK'
  BY <1>k, <1>2 DEF PoolTypeOK, Reserve, FreeCount
<1>5. FreeListSound'
  <2> DEFINE shorter == [i \in 0 .. k - 1 |-> path[i]]
  <2>1. shorter \in [0 .. k - 1 -> Requests \union {None}]
    BY <1>k, <1>2
  <2>2. FreePath(shorter, k - 1)'
    <3>1. empty_head_index' = shorter[k - 1] /\ shorter[0] = None
      BY <1>1, <1>k, <1>2, <1>3 DEF Reserve, FreePath
    <3>2. \A i \in 1 .. k - 1 : shorter[i] \in Requests /\ next_index'[shorter[i]] = shorter[i - 1]
      BY <1>1, <1>k, <1>2 DEF Reserve, FreePath
    <3>3. \A i, j \in 1 .. k - 1 : shorter[i] = shorter[j] => i = j
      BY <1>1, <1>k, <1>2 DEF FreePath
    <3> QED
      BY <3>1, <3>2, <3>3 DEF FreePath
  <2>3. ASSUME NEW s \in Requests
        PROVE  ~ valid'[s] <=> \E i \in 1 .. k - 1 : shorter[i] = s
    <3>1. CASE s = r
      <4>1. valid'[s]
        BY <3>1 DEF Reserve, PoolTypeOK
      <4>2. \A i \in 1 .. k - 1 : shorter[i] # s
        BY <1>1, <1>k, <1>2, <1>3, <3>1 DEF FreePath
      <4> QED
        BY <4>1, <4>2, Zenon
    <3>2. CASE s # r
      <4>1. valid'[s] <=> valid[s]
        BY <3>2 DEF Reserve, PoolTypeOK
      <4>2. (\E i \in 1 .. k : path[i] = s) <=> \E i \in 1 .. k - 1 : shorter[i] = s
        <5>1. ASSUME NEW i \in 1 .. k, path[i] = s
              PROVE  i \in 1 .. k - 1 /\ shorter[i] = s
          BY <5>1, <1>2, <1>3, <3>2
        <5>2. ASSUME NEW i \in 1 .. k - 1, shorter[i] = s
              PROVE  i \in 1 .. k /\ path[i] = s
          BY <5>2, <1>2
        <5> QED
          BY <5>1, <5>2
      <4>3. ~ valid[s] <=> \E i \in 1 .. k : path[i] = s
        BY <1>1, <1>k
      <4> QED
        BY <4>1, <4>2, <4>3, Zenon
    <3> QED
      BY <3>1, <3>2
  <2> QED
    BY <2>1, <2>2, <2>3, <1>2 DEF FreeListSound
<1> QED
  BY <1>4, <1>5

\* Fewer than MaxRequests distinct handles fit on a path that misses one.
LEMMA ReservedHandleIsCounted ==
  ASSUME PoolTypeOK, FreeListSound, NEW r \in Requests, valid[r]
  PROVE  curr_count > 0
<1> USE MaxRequestsAssumption
<1> SUFFICES ASSUME curr_count = 0
             PROVE  FALSE
  BY DEF PoolTypeOK
<1>1. FreeCount = MaxRequests
  BY DEF FreeCount
<1>2. PICK path \in [0 .. MaxRequests -> Requests \union {None}] :
        /\ FreePath(path, MaxRequests)
        /\ \A s \in Requests : ~ valid[s] <=> \E i \in 1 .. MaxRequests : path[i] = s
  BY <1>1 DEF FreeListSound
<1> DEFINE others == Requests \ {r}
           f == [i \in 1 .. MaxRequests |-> path[i]]
<1>3. f \in [1 .. MaxRequests -> others]
  <2> SUFFICES ASSUME NEW i \in 1 .. MaxRequests
               PROVE  path[i] \in Requests /\ path[i] # r
    OBVIOUS
  <2> QED
    BY <1>2 DEF FreePath
<1>4. IsFiniteSet(Requests) /\ Cardinality(Requests) = MaxRequests
  <2>1. 0 \in Int /\ MaxRequests - 1 \in Int
    OBVIOUS
  <2>2. /\ IsFiniteSet(0 .. MaxRequests - 1)
        /\ Cardinality(0 .. MaxRequests - 1) =
             IF 0 > MaxRequests - 1 THEN 0 ELSE (MaxRequests - 1) - 0 + 1
    BY <2>1, FS_Interval, Zenon
  <2> QED
    BY <2>2 DEF Requests
<1>5. IsFiniteSet(others) /\ Cardinality(others) = MaxRequests - 1
  BY <1>4, FS_RemoveElement
<1>6. IsFiniteSet(1 .. MaxRequests) /\ Cardinality(1 .. MaxRequests) = MaxRequests
  BY FS_Interval
<1>7. Cardinality(others) < Cardinality(1 .. MaxRequests)
  BY <1>5, <1>6
<1> HIDE DEF f, others
<1>8. \E x, y \in 1 .. MaxRequests : x # y /\ f[x] = f[y]
  BY <1>3, <1>5, <1>6, <1>7, FS_PigeonHole
<1> USE DEF f
<1> QED
  BY <1>2, <1>8 DEF FreePath

\* Pushing r puts it behind the last element of the path.
LEMMA RemoveKeepsListSound ==
  ASSUME PoolTypeOK, FreeListSound, NEW r \in Requests, Remove(r)
  PROVE  PoolTypeOK' /\ FreeListSound'
<1> USE MaxRequestsAssumption
<1>1. PICK path \in [0 .. FreeCount -> Requests \union {None}] :
        /\ FreePath(path, FreeCount)
        /\ \A s \in Requests : ~ valid[s] <=> \E i \in 1 .. FreeCount : path[i] = s
  BY DEF FreeListSound
<1>k. PICK k \in Nat : k = FreeCount
  BY DEF PoolTypeOK, FreeCount
<1>2. curr_count \in 1 .. MaxRequests /\ FreeCount' = k + 1
  <2>1. curr_count \in 0 .. MaxRequests /\ FreeCount' = k + 1
    BY <1>k DEF PoolTypeOK, FreeCount, Remove
  <2>2. curr_count > 0
    BY ReservedHandleIsCounted DEF Remove
  <2> QED
    BY <2>1, <2>2
<1>3. PoolTypeOK'
  BY <1>2 DEF PoolTypeOK, Remove
<1>4. \A i \in 1 .. k : path[i] \in Requests /\ path[i] # r
  BY <1>1, <1>k DEF Remove, FreePath
<1>5. FreeListSound'
  <2> DEFINE longer == [i \in 0 .. k + 1 |-> IF i = k + 1 THEN r ELSE path[i]]
  <2>1. longer \in [0 .. k + 1 -> Requests \union {None}]
    BY <1>k
  <2>2. FreePath(longer, k + 1)'
    <3>1. empty_head_index' = longer[k + 1] /\ longer[0] = None
      BY <1>1, <1>k DEF Remove, FreePath
    <3>2. ASSUME NEW i \in 1 .. k + 1
          PROVE  longer[i] \in Requests /\ next_index'[longer[i]] = longer[i - 1]
      <4>1. CASE i = k + 1
        BY <4>1, <1>1, <1>k DEF Remove, FreePath, PoolTypeOK
      <4>2. CASE i # k + 1
        <5>1. i \in 1 .. k /\ longer[i] = path[i] /\ longer[i - 1] = path[i - 1]
          BY <4>2
        <5>2. next_index[path[i]] = path[i - 1] /\ path[i] \in Requests /\ path[i] # r
          BY <5>1, <1>1, <1>k, <1>4 DEF FreePath
        <5> QED
          BY <5>1, <5>2 DEF Remove, PoolTypeOK
      <4> QED
        BY <4>1, <4>2
    <3>3. ASSUME NEW i \in 1 .. k + 1, NEW j \in 1 .. k + 1, longer[i] = longer[j]
          PROVE  i = j
      BY <3>3, <1>1, <1>k, <1>4 DEF FreePath
    <3> QED
      BY <3>1, <3>2, <3>3 DEF FreePath
  <2>3. ASSUME NEW s \in Requests
        PROVE  ~ valid'[s] <=> \E i \in 1 .. k + 1 : longer[i] = s
    <3>1. CASE s = r
      <4>1. ~ valid'[s]
        BY <3>1 DEF Remove, PoolTypeOK
      <4>2. k + 1 \in 1 .. k + 1 /\ longer[k + 1] = s
        BY <3>1
      <4> QED
        BY <4>1, <4>2, Zenon
    <3>2. CASE s # r
      <4>1. valid'[s] <=> valid[s]
        BY <3>2 DEF Remove, PoolTypeOK
      <4>2. (\E i \in 1 .. k : path[i] = s) <=> \E i \in 1 .. k + 1 : longer[i] = s
        <5>1. ASSUME NEW i \in 1 .. k, path[i] = s
              PROVE  i \in 1 .. k + 1 /\ longer[i] = s
          BY <5>1
        <5>2. ASSUME NEW i \in 1 .. k + 1, longer[i] = s
              PROVE  i \in 1 .. k /\ path[i] = s
          BY <5>2, <3>2
        <5> QED
          BY <5>1, <5>2
      <4>3. ~ valid[s] <=> \E i \in 1 .. k : path[i] = s
        BY <1>1, <1>k
      <4> QED
        BY <4>1, <4>2, <4>3, Zenon
    <3> QED
      BY <3>1, <3>2
  <2> QED
    BY <2>1, <2>2, <2>3, <1>2 DEF FreeListSound
<1> QED
  BY <1>3, <1>5

-----------------------------------------------------------------------------
LEMMA PoolUnchanged ==
  ASSUME PoolTypeOK, FreeListSound, UNCHANGED poolVars
  PROVE  PoolTypeOK' /\ FreeListSound'
BY DEF PoolTypeOK, FreeListSound, FreePath, FreeCount, poolVars
=============================================================================
