----------------------------- MODULE RequestPool ----------------------------
(***************************************************************************)
(* The pool of request handles in the shared database (mcapi_trans_stub.c: *)
(* remove_request, reserve_request, init_request_indexed_array).  The free *)
(* handles form a linked list through request_reserves_header.array; the   *)
(* handle of a non-blocking operation is an index into requests[], and     *)
(* requests[r].valid says whether r is reserved.  prev_index and           *)
(* full_head_index are written once and never read, so they have no        *)
(* variable here.                                                          *)
(***************************************************************************)
EXTENDS Integers

CONSTANT MaxRequests    \* MCAPI_MAX_REQUESTS, 64 in the build

ASSUME MaxRequestsAssumption == MaxRequests \in Nat \ {0}

Requests == 0 .. MaxRequests - 1

None == -1              \* the end of the free list

VARIABLES
  next_index,           \* request_reserves_header.array[r].next_index
  empty_head_index,     \* the first free handle, or None
  curr_count,           \* how many handles are reserved
  valid                 \* requests[r].valid

poolVars == <<next_index, empty_head_index, curr_count, valid>>

-----------------------------------------------------------------------------
\* Mutant: the last entry is not ended with -1.
InitialNextUnended == [r \in Requests |-> r + 1]

\* The list that init_request_indexed_array links: 0, 1, ..., MaxRequests - 1.
InitialNext == [r \in Requests |-> IF r = MaxRequests - 1 THEN None ELSE r + 1]

\* A zeroed database (no request is valid) after init_request_indexed_array.
PoolInit ==
  /\ next_index = InitialNext
  /\ empty_head_index = 0
  /\ curr_count = 0
  /\ valid = [r \in Requests |-> FALSE]

\* Mutant: the head is not advanced.
ReserveKeepsHead(r) ==
  /\ empty_head_index # None
  /\ r = empty_head_index
  /\ valid' = [valid EXCEPT ![r] = TRUE]
  /\ curr_count' = curr_count + 1
  /\ UNCHANGED <<next_index, empty_head_index>>

\* mcapi_trans_reserve_request hands out the head of the free list.
Reserve(r) ==
  /\ empty_head_index # None
  /\ r = empty_head_index
  /\ valid' = [valid EXCEPT ![r] = TRUE]
  /\ empty_head_index' = next_index[r]
  /\ curr_count' = curr_count + 1
  /\ UNCHANGED next_index

\* The list is empty: the caller reports MCAPI_ERR_REQUEST_LIMIT.
ReserveFails ==
  /\ empty_head_index = None
  /\ UNCHANGED poolVars

\* Mutant: the handle is not linked to the rest of the list.
RemoveUnlinked(r) ==
  /\ valid[r]
  /\ curr_count < MaxRequests
  /\ valid' = [valid EXCEPT ![r] = FALSE]
  /\ empty_head_index' = r
  /\ curr_count' = curr_count - 1
  /\ UNCHANGED next_index

\* Mutant: the handle is not counted back.
RemoveUncounted(r) ==
  /\ valid[r]
  /\ curr_count < MaxRequests
  /\ valid' = [valid EXCEPT ![r] = FALSE]
  /\ next_index' = [next_index EXCEPT ![r] = empty_head_index]
  /\ empty_head_index' = r
  /\ UNCHANGED curr_count

\* Mutant: no assertion that the handle is reserved, and no limit.
RemoveUnchecked(r) ==
  /\ valid' = [valid EXCEPT ![r] = FALSE]
  /\ next_index' = [next_index EXCEPT ![r] = empty_head_index]
  /\ empty_head_index' = r
  /\ curr_count' = curr_count - 1

\* mcapi_trans_remove_request links the handle in front of the free list.
Remove(r) ==
  /\ valid[r]
  /\ curr_count < MaxRequests
  /\ valid' = [valid EXCEPT ![r] = FALSE]
  /\ next_index' = [next_index EXCEPT ![r] = empty_head_index]
  /\ empty_head_index' = r
  /\ curr_count' = curr_count - 1

\* With curr_count = max_count the same call does nothing and returns FALSE,
\* which no caller looks at.
RemoveRefused(r) ==
  /\ valid[r]
  /\ ~ (curr_count < MaxRequests)
  /\ UNCHANGED poolVars

Release(r) == Remove(r) \/ RemoveRefused(r)

-----------------------------------------------------------------------------
Held == {r \in Requests : valid[r]}

PoolTypeOK ==
  /\ next_index \in [Requests -> Requests \union {None}]
  /\ empty_head_index \in Requests \union {None}
  /\ curr_count \in 0 .. MaxRequests
  /\ valid \in [Requests -> BOOLEAN]

\* path lists k distinct handles from the end of the free list (path[1]) to its
\* head (path[k]); path[0] stands for the end marker.
FreePath(path, k) ==
  /\ path[0] = None
  /\ empty_head_index = path[k]
  /\ \A i \in 1 .. k : path[i] \in Requests /\ next_index[path[i]] = path[i - 1]
  /\ \A i, j \in 1 .. k : path[i] = path[j] => i = j

FreeCount == MaxRequests - curr_count

\* The free list reaches each handle that is not reserved exactly once and
\* nothing else, and curr_count is the number of handles it does not reach
\* (the list that reserve_request and remove_request edit).
FreeListSound ==
  \E path \in [0 .. FreeCount -> Requests \union {None}] :
    /\ FreePath(path, FreeCount)
    /\ \A r \in Requests : ~ valid[r] <=> \E i \in 1 .. FreeCount : path[i] = r

\* MCAPI_ERR_REQUEST_LIMIT is reported, and a release is refused, only while
\* every handle is reserved (stub lines 401 and 418).
LimitOnlyWhenAllReserved ==
  /\ empty_head_index = None => Held = Requests
  /\ curr_count = MaxRequests => Held = Requests
=============================================================================
