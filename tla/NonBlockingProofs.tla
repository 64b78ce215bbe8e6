-------------------------- MODULE NonBlockingProofs -------------------------
(***************************************************************************)
(* Proofs about NonBlocking, for every number of handles, operations,      *)
(* ports and messages, with driver faults, timeouts and deletions.         *)
(*                                                                         *)
(* The types and the free list survive every client, also one that waits   *)
(* again after MCAPI_TIMEOUT or passes the request variable of a local     *)
(* mcapi_endpoint_get_i to mcapi_wait (PoolInv).  For a client that does   *)
(* neither, OwnRecord is inductive with them (IInv): a handle that is      *)
(* reserved was at the head of the free list, which no open operation      *)
(* names.                                                                  *)
(***************************************************************************)
EXTENDS NonBlocking, RequestPoolProofs

\* What a call waits for in the driver has been looked up in the pool: whatever the
\* client passed to mcapi_wait, it was a handle.
WaitersHaveHandles ==
  \A o \in Ops : phase[o] = "waiting" => request[o] \in Requests

PoolInv ==
  /\ TypeOK
  /\ FreeListSound
  /\ WaitersHaveHandles

IInv ==
  /\ TypeOK
  /\ FreeListSound
  /\ OwnRecord

-----------------------------------------------------------------------------
LEMMA RecordTypes ==
  ASSUME NEW completed \in BOOLEAN, NEW type \in Types,
         NEW o \in Ops \union {NoOp}, NEW p \in Ports \union {NoPort}
  PROVE  Record(completed, type, o, p) \in Records
BY DEF Record, Records

LEMMA TransferTypes ==
  ASSUME TypeOK, NEW a \in Records, NEW rec \in Records, Transfer(a, rec)
  PROVE  /\ inbox' \in [Ports -> Seq(Msgs)] /\ \A p \in Ports : Len(inbox'[p]) <= MaxInbox
         /\ mem' \in [Ops -> Msgs \union {Nothing, Filled}]
<1>1. CASE a.type = "RECV"
  <2>1. a.port \in Ports /\ inbox[a.port] \in Seq(Msgs) /\ inbox[a.port] # <<>>
    BY <1>1, ClientAssumption DEF TypeOK, Transfer, DriverReady, Records
  <2>2. /\ Head(inbox[a.port]) \in Msgs /\ Tail(inbox[a.port]) \in Seq(Msgs)
        /\ Len(Tail(inbox[a.port])) = Len(inbox[a.port]) - 1
    BY <2>1
  <2> QED
    BY <1>1, <2>1, <2>2, ClientAssumption DEF TypeOK, Transfer
<1>2. CASE a.type # "RECV"
  BY <1>2 DEF TypeOK, Transfer
<1> QED
  BY <1>1, <1>2

-----------------------------------------------------------------------------
\* How a step may change the pool: not at all, by a reservation, or by the
\* release of a handle that was looked up.
LEMMA PoolStep ==
  ASSUME PoolInv, [Next]_vars
  PROVE  PoolTypeOK' /\ FreeListSound'
<1>t. PoolTypeOK /\ FreeListSound /\ WaitersHaveHandles
  BY DEF PoolInv, TypeOK
<1>1. ASSUME UNCHANGED poolVars
      PROVE  PoolTypeOK' /\ FreeListSound'
  BY <1>t, <1>1, PoolUnchanged
<1>2. ASSUME NEW r \in Requests, Reserve(r)
      PROVE  PoolTypeOK' /\ FreeListSound'
  BY <1>t, <1>2, ReserveKeepsListSound
<1>3. ASSUME NEW r \in Requests, Release(r)
      PROVE  PoolTypeOK' /\ FreeListSound'
  BY <1>t, <1>3, RemoveKeepsListSound, PoolUnchanged DEF Release, RemoveRefused
<1>4. ASSUME NEW o \in Ops, Begin(o)
      PROVE  PoolTypeOK' /\ FreeListSound'
  <2>1. \/ UNCHANGED poolVars
        \/ \E r \in Requests : Reserve(r)
    BY <1>4 DEF Begin, RequestLimit, ReserveFails, EndpointInvalid, MsgSendI, MsgRecvI,
                EndpointGetI, EndpointGetILocal, CallBlocks, EndpointGetLocal
  <2> QED
    BY <2>1, <1>1, <1>2
<1>5. ASSUME NEW o \in Ops, Wait(o) \/ Unblock(o)
      PROVE  PoolTypeOK' /\ FreeListSound'
  <2>1. \/ UNCHANGED poolVars
        \/ request[o] \in Requests /\ Release(request[o])
    BY <1>t, <1>5 DEF Wait, WaitRejected, WaitCompleted, WaitBlocks, ValidHandle, Unblock,
              WaitSucceeds, WaitFails, CallSucceeds, CallFails, WaitersHaveHandles
  <2> QED
    BY <2>1, <1>1, <1>3
<1>6. CASE UNCHANGED vars
  BY <1>6, <1>1 DEF vars
<1>7. CASE Driver
  BY <1>7, <1>1 DEF Driver, Arrive, Ack, RemoteChanges
<1>8. ASSUME NEW o \in Ops, Test(o) \/ Consume(o)
      PROVE  PoolTypeOK' /\ FreeListSound'
  BY <1>8, <1>1 DEF Test, TestCompleted, TestCompletes, TestFails, Consume, vars
<1>9. ASSUME NEW p \in Ports, EndpointDelete(p) \/ EndpointCreate(p)
      PROVE  PoolTypeOK' /\ FreeListSound'
  BY <1>9, <1>1 DEF EndpointDelete, EndpointCreate
<1> QED
  BY <1>4, <1>5, <1>6, <1>7, <1>8, <1>9 DEF Next

-----------------------------------------------------------------------------
\* A step of operation o, or of nobody, that keeps what the other operations and
\* their records are, preserves OwnRecord if it preserves it for o.
LEMMA OwnRecordFrame ==
  ASSUME OwnRecord, NEW o,
         \A q \in Ops \ {o} : /\ phase'[q] = phase[q] /\ kind'[q] = kind[q]
                              /\ request'[q] = request[q] /\ args'[q] = args[q],
         \A q \in Open \ {o} : /\ valid'[request[q]]
                               /\ requests'[request[q]] = requests[request[q]],
         o \in Open' => HasRecord(o)'
  PROVE  OwnRecord'
<1> SUFFICES ASSUME NEW q \in Open'
             PROVE  HasRecord(q)'
  BY DEF OwnRecord
<1>1. CASE q = o
  BY <1>1
<1>2. CASE q # o
  <2>1. q \in Open /\ HasRecord(q)
    BY <1>2 DEF OwnRecord, Open
  <2> QED
    BY <1>2, <2>1 DEF HasRecord, ValidHandle, Open
<1> QED
  BY <1>1, <1>2

\* The handle at the head of the free list is no open operation's.
LEMMA ReservedHandleIsNew ==
  ASSUME IInv, NEW r \in Requests, Reserve(r)
  PROVE  /\ \A q \in Open : request[q] # r /\ valid'[request[q]]
         /\ valid'[r]
<1>1. PoolTypeOK /\ FreeListSound /\ OwnRecord
  BY DEF IInv, TypeOK
<1>2. ~ valid[r]
  BY <1>1, HeadIsFree DEF Reserve
<1>3. valid' = [valid EXCEPT ![r] = TRUE] /\ valid \in [Requests -> BOOLEAN]
  BY <1>1 DEF Reserve, PoolTypeOK
<1>4. ASSUME NEW q \in Open
      PROVE  request[q] # r /\ valid'[request[q]]
  <2>1. request[q] \in Requests /\ valid[request[q]]
    BY <1>1 DEF OwnRecord, HasRecord, ValidHandle
  <2> QED
    BY <1>2, <1>3, <2>1
<1> QED
  BY <1>3, <1>4

\* The release of o's handle leaves the handles of the other operations reserved.
LEMMA ReleaseKeepsOthers ==
  ASSUME IInv, NEW o \in Open, Release(request[o])
  PROVE  \A q \in Open \ {o} : valid'[request[q]]
<1> SUFFICES ASSUME NEW q \in Open, q # o
             PROVE  valid'[request[q]]
  OBVIOUS
<1>1. PoolTypeOK /\ OwnRecord
  BY DEF IInv, TypeOK
<1>2. /\ HasRecord(o) /\ HasRecord(q)
  BY <1>1 DEF OwnRecord
<1>3. request[q] # request[o] /\ request[q] \in Requests /\ valid[request[q]]
  BY <1>2 DEF HasRecord, ValidHandle
<1> QED
  BY <1>1, <1>3 DEF Release, Remove, RemoveRefused, PoolTypeOK, poolVars

\* Non-blocking calls: the record that o gets is its own.
LEMMA BeginOwnRecord ==
  ASSUME IInv, ~ LocalGets, NEW o \in Ops, Begin(o)
  PROVE  OwnRecord'
<1>t. OwnRecord /\ PoolTypeOK /\ requests \in [Requests -> Records] /\ DOMAIN phase = Ops
      /\ DOMAIN kind = Ops /\ DOMAIN request = Ops /\ DOMAIN args = Ops
  BY DEF IInv, TypeOK
<1>i. phase[o] = "idle" => o \notin Open
  BY DEF Open
<1>1. CASE RequestLimit(o)
  BY <1>1, <1>t DEF RequestLimit, ReserveFails, poolVars, clientVars, OwnRecord, Open,
                    HasRecord, ValidHandle
<1>2. ASSUME NEW r \in Requests, NEW p \in Ports, EndpointInvalid(o, r, p)
      PROVE  OwnRecord'
  <2>1. \A q \in Open : valid'[request[q]]
    BY <1>2, ReservedHandleIsNew DEF EndpointInvalid
  <2> QED
    BY <1>2, <2>1, <1>t DEF EndpointInvalid, clientVars, OwnRecord, Open, HasRecord, ValidHandle
<1>3. ASSUME NEW r \in Requests, Reserve(r), phase[o] = "idle",
             NEW c \in BOOLEAN, NEW k \in Kinds, NEW b \in Ops \union {NoOp},
             NEW p \in Ports \union {NoPort}, SetUp(r, c, k, b, p),
             UNCHANGED args,
             \/ UNCHANGED <<phase, kind, request>>
             \/ /\ b = o
                /\ Become(o, IF c THEN "completed" ELSE "pending", k, r)
      PROVE  OwnRecord'
  <2>1. /\ \A q \in Open : request[q] # r /\ valid'[request[q]]
        /\ valid'[r]
    BY <1>3, ReservedHandleIsNew
  <2>2. \A q \in Open : requests'[request[q]] = requests[request[q]]
    BY <1>3, <1>t, <2>1 DEF SetUp, OwnRecord, HasRecord, ValidHandle
  <2>3. requests'[r] = Record(c, k, b, p)
    BY <1>3, <1>t DEF SetUp
  <2>4. o \in Open' => HasRecord(o)'
    <3>1. CASE UNCHANGED <<phase, kind, request>>
      BY <3>1, <1>i, <1>3 DEF Open
    <3>2. CASE b = o /\ Become(o, IF c THEN "completed" ELSE "pending", k, r)
      BY <3>2, <1>3, <2>1, <2>3, <1>t DEF Become, HasRecord, ValidHandle, Record
    <3> QED
      BY <3>1, <3>2, <1>3
  <2>5. \A q \in Ops \ {o} : /\ phase'[q] = phase[q] /\ kind'[q] = kind[q]
                             /\ request'[q] = request[q] /\ args'[q] = args[q]
    BY <1>3, <1>t DEF Become
  <2> QED
    BY <2>1, <2>2, <2>4, <2>5, <1>t, OwnRecordFrame
<1>4. ASSUME NEW r \in Requests, NEW p \in Ports, MsgSendI(o, r, p)
      PROVE  OwnRecord'
  <2>1. /\ phase[o] = "idle" /\ Reserve(r) /\ UNCHANGED args
        /\ "SEND" \in Kinds
    BY <1>4 DEF MsgSendI, Kinds
  <2>2. CASE SetUp(r, TRUE, "SEND", o, p) /\ Become(o, "completed", "SEND", r)
    BY <2>1, <2>2, <1>3
  <2>3. CASE SetUp(r, FALSE, "SEND", o, p) /\ Become(o, "pending", "SEND", r)
    BY <2>1, <2>3, <1>3
  <2>4. CASE SetUp(r, FALSE, "SEND", NoOp, p) /\ UNCHANGED <<phase, kind, request>>
    BY <2>1, <2>4, <1>3
  <2> QED
    BY <2>2, <2>3, <2>4, <1>4 DEF MsgSendI
<1>5. ASSUME NEW r \in Requests, Reserve(r), phase[o] = "idle", UNCHANGED args,
             NEW k \in Kinds, NEW p \in Ports \union {NoPort}, Ask(o, r, Record(FALSE, k, o, p))
      PROVE  OwnRecord'
  <2>1. Record(FALSE, k, o, p).type = k /\ Record(FALSE, k, o, p).port = p
    BY DEF Record
  <2>2. CASE SetUp(r, TRUE, k, o, p) /\ Become(o, "completed", k, r)
    BY <1>5, <2>2, <1>3
  <2>3. CASE SetUp(r, FALSE, k, o, p) /\ Become(o, "pending", k, r)
    BY <1>5, <2>3, <1>3
  <2>4. CASE SetUp(r, FALSE, k, o, p) /\ UNCHANGED <<phase, kind, request>>
    BY <1>5, <2>4, <1>3
  <2> QED
    BY <2>1, <2>2, <2>3, <2>4, <1>5 DEF Ask
<1>6. ASSUME NEW r \in Requests, NEW p \in Ports, MsgRecvI(o, r, p)
      PROVE  OwnRecord'
  BY <1>6, <1>5 DEF MsgRecvI, Kinds
<1>7. ASSUME NEW r \in Requests, EndpointGetI(o, r)
      PROVE  OwnRecord'
  BY <1>7, <1>5 DEF EndpointGetI, Kinds
<1>8. ASSUME NEW r \in Requests, EndpointGetILocal(o, r)
      PROVE  OwnRecord'
  BY <1>8 DEF EndpointGetILocal
<1>9. CASE \/ \E k \in Kinds, p \in Ports \union {NoPort} : CallBlocks(o, k, p)
           \/ EndpointGetLocal(o)
  <2>1. /\ UNCHANGED poolVars /\ UNCHANGED requests /\ o \notin Open'
        /\ \A q \in Ops \ {o} : /\ phase'[q] = phase[q] /\ kind'[q] = kind[q]
                                /\ request'[q] = request[q] /\ args'[q] = args[q]
    BY <1>9, <1>t DEF CallBlocks, EndpointGetLocal, Become, Open
  <2>2. \A q \in Open : valid'[request[q]]
    BY <1>t, <2>1 DEF OwnRecord, HasRecord, ValidHandle, poolVars
  <2> QED
    BY <1>t, <2>1, <2>2, OwnRecordFrame
<1> QED
  BY <1>1, <1>2, <1>4, <1>6, <1>7, <1>8, <1>9 DEF Begin

\* mcapi_test writes the record of o, which is no other operation's.
LEMMA TestOwnRecord ==
  ASSUME IInv, NEW o \in Ops, Test(o)
  PROVE  OwnRecord'
<1>t. OwnRecord /\ PoolTypeOK /\ requests \in [Requests -> Records] /\ DOMAIN phase = Ops
      /\ DOMAIN kind = Ops /\ DOMAIN request = Ops
  BY DEF IInv, TypeOK
<1>v. \A q \in Open : HasRecord(q) /\ request[q] \in Requests /\ valid[request[q]]
  BY <1>t DEF OwnRecord, HasRecord, ValidHandle
<1>1. CASE TestCompleted(o)
  <2>1. /\ UNCHANGED poolVars /\ UNCHANGED requests
        /\ \A q \in Ops \ {o} : /\ phase'[q] = phase[q] /\ kind'[q] = kind[q]
                                /\ request'[q] = request[q] /\ args'[q] = args[q]
        /\ phase'[o] = "completed" /\ kind'[o] = kind[o] /\ request'[o] = request[o]
    BY <1>1, <1>t DEF TestCompleted, Become
  <2>2. o \in Open /\ requests[request[o]].completed
    BY <1>1 DEF TestCompleted, Waitable, Open
  <2>3. HasRecord(o)'
    <3>1. requests[request[o]] \in Records
      BY <2>2, <1>v, <1>t
    <3> QED
      BY <2>1, <2>2, <3>1, <1>v DEF HasRecord, ValidHandle, poolVars, Records
  <2> QED
    BY <1>t, <1>v, <2>1, <2>3, OwnRecordFrame DEF poolVars
<1>2. CASE TestCompletes(o)
  <2>1. /\ UNCHANGED poolVars
        /\ requests' = [requests EXCEPT ![request[o]].completed = TRUE]
        /\ \A q \in Ops \ {o} : /\ phase'[q] = phase[q] /\ kind'[q] = kind[q]
                                /\ request'[q] = request[q] /\ args'[q] = args[q]
        /\ phase'[o] = "completed" /\ kind'[o] = kind[o] /\ request'[o] = request[o]
    BY <1>2, <1>t DEF TestCompletes, Become
  <2>2. o \in Open
    BY <1>2 DEF TestCompletes, Waitable, Open
  <2>3. requests[request[o]] \in Records
    BY <2>2, <1>v, <1>t
  <2>4. /\ requests'[request[o]].completed = TRUE
        /\ requests'[request[o]].op = requests[request[o]].op
        /\ requests'[request[o]].type = requests[request[o]].type
    BY <2>1, <2>2, <2>3, <1>v, <1>t DEF Records
  <2>5. HasRecord(o)'
    BY <2>1, <2>2, <2>4, <1>v DEF HasRecord, ValidHandle, poolVars
  <2>6. \A q \in Open \ {o} : requests'[request[q]] = requests[request[q]]
    BY <2>1, <2>2, <1>v, <1>t DEF HasRecord
  <2> QED
    BY <1>t, <1>v, <2>1, <2>5, <2>6, OwnRecordFrame DEF poolVars
<1>3. CASE TestFails(o)
  BY <1>3, <1>t DEF TestFails, vars, poolVars, clientVars, OwnRecord, Open, HasRecord, ValidHandle
<1> QED
  BY <1>1, <1>2, <1>3 DEF Test

\* mcapi_wait and the end of a blocked call: o may lose its handle, which is no
\* other operation's.
LEMMA WaitOwnRecord ==
  ASSUME IInv, ~ RetryAfterTimeout, NEW o \in Ops, Wait(o) \/ Unblock(o) \/ Consume(o)
  PROVE  OwnRecord'
<1>t. OwnRecord /\ PoolTypeOK /\ requests \in [Requests -> Records] /\ DOMAIN phase = Ops
      /\ DOMAIN kind = Ops /\ DOMAIN request = Ops /\ DOMAIN args = Ops
  BY DEF IInv, TypeOK
<1>v. \A q \in Open : HasRecord(q) /\ valid[request[q]]
  BY <1>t DEF OwnRecord, HasRecord, ValidHandle
<1>1. CASE WaitBlocks(o)
  <2>1. /\ UNCHANGED poolVars /\ UNCHANGED requests
        /\ \A q \in Ops \ {o} : /\ phase'[q] = phase[q] /\ kind'[q] = kind[q]
                                /\ request'[q] = request[q] /\ args'[q] = args[q]
        /\ phase'[o] = "waiting" /\ kind'[o] = kind[o] /\ request'[o] = request[o]
        /\ args'[o] = requests[request[o]]
    BY <1>1, <1>t DEF WaitBlocks, Become
  <2>2. o \in Open /\ ~ requests[request[o]].completed
    BY <1>1 DEF WaitBlocks, Waitable, Open
  <2>3. HasRecord(o)'
    <3>1. requests[request[o]] \in Records
      BY <2>2, <1>v, <1>t DEF HasRecord, ValidHandle
    <3> QED
      BY <2>1, <2>2, <3>1, <1>v DEF HasRecord, ValidHandle, poolVars, Records
  <2> QED
    BY <1>t, <1>v, <2>1, <2>3, OwnRecordFrame DEF poolVars
<1>2. CASE ~ WaitBlocks(o)
  <2>1. /\ UNCHANGED requests /\ o \notin Open'
        /\ \A q \in Ops \ {o} : /\ phase'[q] = phase[q] /\ kind'[q] = kind[q]
                                /\ request'[q] = request[q] /\ args'[q] = args[q]
    BY <1>2, <1>t DEF Wait, WaitRejected, WaitCompleted, Unblock, WaitSucceeds, WaitFails,
                      CallSucceeds, CallFails, Consume, GiveUp, Done, Returned, Become, Open
  <2>2. \/ UNCHANGED poolVars
        \/ o \in Open /\ Release(request[o])
    BY <1>2 DEF Wait, WaitRejected, WaitCompleted, Unblock, WaitSucceeds, WaitFails,
                CallSucceeds, CallFails, Consume, Waitable, Open
  <2>3. \A q \in Open \ {o} : valid'[request[q]]
    BY <2>2, <1>v, ReleaseKeepsOthers DEF poolVars
  <2> QED
    BY <1>t, <2>1, <2>3, OwnRecordFrame
<1> QED
  BY <1>1, <1>2

\* The driver, endpoints and stuttering do not touch requests or the client's view.
LEMMA OtherOwnRecord ==
  ASSUME IInv,
         \/ Driver \/ UNCHANGED vars
         \/ \E p \in Ports : EndpointDelete(p) \/ EndpointCreate(p)
  PROVE  OwnRecord'
<1>1. UNCHANGED <<poolVars, requests, clientVars>>
  BY DEF Driver, Arrive, Ack, RemoteChanges, vars, EndpointDelete, EndpointCreate
<1> QED
  BY <1>1 DEF IInv, OwnRecord, Open, HasRecord, ValidHandle, poolVars, clientVars

-----------------------------------------------------------------------------
LEMMA BecomeTypes ==
  ASSUME TypeOK, NEW o \in Ops, NEW k \in Types, NEW r \in Requests \union {None},
         NEW p \in {"idle", "pending", "completed", "waiting", "blocked", "done"},
         Become(o, p, k, r)
  PROVE  /\ phase' \in [Ops -> {"idle", "pending", "completed", "waiting", "blocked", "done"}]
         /\ kind' \in [Ops -> Types]
         /\ request' \in [Ops -> Requests \union {None}]
BY DEF TypeOK, Become

LEMMA SetUpTypes ==
  ASSUME TypeOK, NEW r \in Requests, NEW c \in BOOLEAN, NEW k \in Types,
         NEW o \in Ops \union {NoOp}, NEW p \in Ports \union {NoPort}, SetUp(r, c, k, o, p)
  PROVE  requests' \in [Requests -> Records]
<1>1. Record(c, k, o, p) \in Records
  BY RecordTypes
<1> QED
  BY <1>1 DEF TypeOK, SetUp

LEMMA TypeStep ==
  ASSUME PoolInv, [Next]_vars
  PROVE  TypeOK'
<1>p. PoolTypeOK'
  BY PoolStep
<1>t. TypeOK
  BY DEF PoolInv
<1>k. Kinds \subseteq Types /\ "OTHER" \in Types /\ None \in Requests \union {None}
  BY DEF Kinds, Types
<1>1. CASE UNCHANGED vars
  BY <1>1, <1>p, <1>t DEF vars, driverVars, clientVars, TypeOK
<1>2. CASE Driver
  <2>1. ASSUME NEW p \in Ports, NEW m \in Msgs, Arrive(p, m)
        PROVE  TypeOK'
    <3>1. /\ inbox[p] \in Seq(Msgs) /\ Len(inbox[p]) < MaxInbox /\ MaxInbox \in Nat
          /\ inbox' = [inbox EXCEPT ![p] = Append(inbox[p], m)]
      BY <2>1, <1>t, ClientAssumption DEF Arrive, TypeOK
    <3>2. Append(inbox[p], m) \in Seq(Msgs) /\ Len(Append(inbox[p], m)) <= MaxInbox
      BY <3>1
    <3>3. inbox' \in [Ports -> Seq(Msgs)] /\ \A q \in Ports : Len(inbox'[q]) <= MaxInbox
      BY <3>1, <3>2, <1>t DEF TypeOK
    <3> QED
      BY <2>1, <3>3, <1>p, <1>t DEF Arrive, TypeOK, clientVars
  <2> QED
    BY <1>2, <2>1, <1>p, <1>t DEF Driver, Ack, RemoteChanges, TypeOK, clientVars
<1>3. ASSUME NEW p \in Ports, EndpointDelete(p) \/ EndpointCreate(p)
      PROVE  TypeOK'
  <2>1. CASE EndpointDelete(p)
    <3>1. <<>> \in Seq(Msgs) /\ Len(<<>>) <= MaxInbox
      BY ClientAssumption
    <3> QED
      BY <2>1, <3>1, <1>p, <1>t DEF EndpointDelete, TypeOK, clientVars
  <2>2. CASE EndpointCreate(p)
    BY <2>2, <1>p, <1>t DEF EndpointCreate, TypeOK, clientVars, driverVars
  <2> QED
    BY <1>3, <2>1, <2>2
<1>4. ASSUME NEW o \in Ops, Begin(o)
      PROVE  TypeOK'
  <2>1. CASE RequestLimit(o)
    BY <2>1, <1>p, <1>t DEF RequestLimit, TypeOK, driverVars, clientVars
  <2>2. ASSUME NEW r \in Requests, NEW p \in Ports, EndpointInvalid(o, r, p)
        PROVE  TypeOK'
    BY <2>2, <1>p, <1>t DEF EndpointInvalid, TypeOK, driverVars, clientVars
  <2>3. ASSUME NEW r \in Requests, NEW p \in Ports, MsgSendI(o, r, p)
        PROVE  TypeOK'
    <3>1. requests' \in [Requests -> Records]
      BY <2>3, <1>t, <1>k, SetUpTypes DEF MsgSendI, Kinds
    <3>2. /\ phase' \in [Ops -> {"idle", "pending", "completed", "waiting", "blocked", "done"}]
          /\ kind' \in [Ops -> Types]
          /\ request' \in [Ops -> Requests \union {None}]
      BY <2>3, <1>t, <1>k, BecomeTypes DEF MsgSendI, Kinds, TypeOK
    <3>3. sent' \in [Ops -> {"no", "inflight", "acked"}]
      BY <2>3, <1>t DEF MsgSendI, TypeOK
    <3> QED
      BY <2>3, <3>1, <3>2, <3>3, <1>p, <1>t DEF MsgSendI, TypeOK
  <2>4. ASSUME NEW r \in Requests, NEW k \in Kinds, NEW p \in Ports \union {NoPort},
               Ask(o, r, Record(FALSE, k, o, p)),
               UNCHANGED <<ports, sent, remoteUp, args>>
        PROVE  TypeOK'
    <3> DEFINE rec == Record(FALSE, k, o, p)
    <3>1. rec \in Records /\ rec.type = k /\ rec.port = p /\ k \in Types
      BY <1>k, RecordTypes DEF Record
    <3> HIDE DEF rec
    <3>2. requests' \in [Requests -> Records]
      BY <2>4, <3>1, <1>t, SetUpTypes DEF Ask, rec
    <3>3. /\ phase' \in [Ops -> {"idle", "pending", "completed", "waiting", "blocked", "done"}]
          /\ kind' \in [Ops -> Types]
          /\ request' \in [Ops -> Requests \union {None}]
      BY <2>4, <3>1, <1>t, BecomeTypes DEF Ask, TypeOK, rec
    <3>4. /\ inbox' \in [Ports -> Seq(Msgs)] /\ \A q \in Ports : Len(inbox'[q]) <= MaxInbox
          /\ mem' \in [Ops -> Msgs \union {Nothing, Filled}]
      <4>1. CASE Transfer(rec, rec)
        BY <4>1, <3>1, <1>t, TransferTypes
      <4>2. CASE UNCHANGED <<inbox, mem>>
        BY <4>2, <1>t DEF TypeOK
      <4> QED
        BY <4>1, <4>2, <2>4 DEF Ask, rec
    <3> QED
      BY <2>4, <3>2, <3>3, <3>4, <1>p, <1>t DEF TypeOK
  <2>5. ASSUME NEW r \in Requests, NEW p \in Ports, MsgRecvI(o, r, p)
        PROVE  TypeOK'
    BY <2>5, <2>4 DEF MsgRecvI, Kinds
  <2>6. ASSUME NEW r \in Requests, EndpointGetI(o, r)
        PROVE  TypeOK'
    BY <2>6, <2>4 DEF EndpointGetI, Kinds
  <2>7. ASSUME NEW r \in Requests, EndpointGetILocal(o, r)
        PROVE  TypeOK'
    BY <2>7, <1>p, <1>t DEF EndpointGetILocal, Become, Types, TypeOK, driverVars
  <2>8. ASSUME NEW k \in Kinds, NEW p \in Ports \union {NoPort}, CallBlocks(o, k, p)
        PROVE  TypeOK'
    <3>1. Record(FALSE, k, o, p) \in Records /\ k \in Types
      BY <1>k, RecordTypes
    <3> QED
      BY <2>8, <3>1, <1>p, <1>t DEF CallBlocks, Become, TypeOK
  <2>9. CASE EndpointGetLocal(o)
    BY <2>9, <1>p, <1>t DEF EndpointGetLocal, Become, Types, TypeOK, driverVars
  <2> QED
    BY <1>4, <2>1, <2>2, <2>3, <2>5, <2>6, <2>7, <2>8, <2>9 DEF Begin
<1>5. ASSUME NEW o \in Ops, Test(o)
      PROVE  TypeOK'
  <2>1. CASE TestCompleted(o)
    BY <2>1, <1>p, <1>t DEF TestCompleted, Become, TypeOK, driverVars
  <2>2. CASE TestCompletes(o)
    <3>1. request[o] \in Requests /\ requests[request[o]] \in Records
      BY <2>2, <1>t DEF TestCompletes, ValidHandle, TypeOK
    <3>2. /\ inbox' \in [Ports -> Seq(Msgs)] /\ \A q \in Ports : Len(inbox'[q]) <= MaxInbox
          /\ mem' \in [Ops -> Msgs \union {Nothing, Filled}]
      BY <2>2, <3>1, <1>t, TransferTypes DEF TestCompletes
    <3>3. requests' \in [Requests -> Records]
      BY <2>2, <3>1, <1>t DEF TestCompletes, TypeOK, Records
    <3> QED
      BY <2>2, <3>2, <3>3, <1>p, <1>t DEF TestCompletes, Become, TypeOK
  <2>3. CASE TestFails(o)
    BY <2>3, <1>1 DEF TestFails
  <2> QED
    BY <1>5, <2>1, <2>2, <2>3 DEF Test
<1>6. ASSUME NEW o \in Ops, Wait(o)
      PROVE  TypeOK'
  <2>1. CASE WaitRejected(o) \/ WaitCompleted(o)
    BY <2>1, <1>p, <1>t, <1>k
       DEF WaitRejected, WaitCompleted, GiveUp, Done, Become, TypeOK, driverVars
  <2>2. CASE WaitBlocks(o)
    BY <2>2, <1>p, <1>t DEF WaitBlocks, ValidHandle, Become, TypeOK, driverVars
  <2> QED
    BY <1>6, <2>1, <2>2 DEF Wait
<1>7. ASSUME NEW o \in Ops, Unblock(o)
      PROVE  TypeOK'
  <2>1. /\ ZeroRecord \in Records
        /\ args[o] \in Records
    BY <1>k, <1>t, RecordTypes DEF ZeroRecord, TypeOK
  <2>2. CASE WaitSucceeds(o) \/ CallSucceeds(o)
    <3>1. /\ inbox' \in [Ports -> Seq(Msgs)] /\ \A q \in Ports : Len(inbox'[q]) <= MaxInbox
          /\ mem' \in [Ops -> Msgs \union {Nothing, Filled}]
      <4>1. phase[o] = "waiting" => requests[request[o]] \in Records
        BY <1>t DEF PoolInv, WaitersHaveHandles, TypeOK
      <4> QED
        BY <2>1, <2>2, <4>1, <1>t, TransferTypes DEF WaitSucceeds, CallSucceeds
    <3>2. args' \in [Ops -> Records]
      BY <2>1, <2>2, <1>t DEF WaitSucceeds, CallSucceeds, Returned, TypeOK
    <3>3. Done(o) /\ UNCHANGED <<requests, ports, sent, remoteUp>>
      BY <2>2 DEF WaitSucceeds, CallSucceeds
    <3>4. /\ phase' \in [Ops -> {"idle", "pending", "completed", "waiting", "blocked", "done"}]
          /\ kind' \in [Ops -> Types]
          /\ request' \in [Ops -> Requests \union {None}]
      BY <3>3, <1>t, <1>k DEF Done, Become, TypeOK
    <3> QED
      BY <3>1, <3>2, <3>3, <3>4, <1>p, <1>t DEF TypeOK
  <2>3. CASE WaitFails(o) \/ CallFails(o)
    <3>1. args' \in [Ops -> Records]
      BY <2>1, <2>3, <1>t DEF WaitFails, CallFails, Returned, TypeOK
    <3>2. /\ UNCHANGED <<requests, ports, inbox, remoteUp, mem>>
          /\ \/ GiveUp(o)
             \/ Become(o, "pending", kind[o], request[o]) /\ UNCHANGED sent
      BY <2>3 DEF WaitFails, CallFails
    <3>3. /\ phase' \in [Ops -> {"idle", "pending", "completed", "waiting", "blocked", "done"}]
          /\ kind' \in [Ops -> Types]
          /\ request' \in [Ops -> Requests \union {None}]
      <4>1. CASE GiveUp(o)
        BY <4>1, <1>t, <1>k, BecomeTypes DEF GiveUp, TypeOK
      <4>2. CASE Become(o, "pending", kind[o], request[o])
        <5>1. kind[o] \in Types /\ request[o] \in Requests \union {None}
          BY <1>t DEF TypeOK
        <5> QED
          BY <4>2, <5>1, <1>t, BecomeTypes DEF TypeOK
      <4> QED
        BY <3>2, <4>1, <4>2
    <3>4. sent' \in [Ops -> {"no", "inflight", "acked"}]
      BY <3>2, <1>t DEF GiveUp, TypeOK
    <3> QED
      BY <3>1, <3>2, <3>3, <3>4, <1>p, <1>t DEF TypeOK
  <2> QED
    BY <1>7, <2>2, <2>3 DEF Unblock
<1>8. ASSUME NEW o \in Ops, Consume(o)
      PROVE  TypeOK'
  BY <1>8, <1>p, <1>t, <1>k DEF Consume, GiveUp, Become, TypeOK
<1> QED
  BY <1>1, <1>2, <1>3, <1>4, <1>5, <1>6, <1>7, <1>8 DEF Next

\* Only mcapi_wait makes an operation wait, with a handle that it has checked; the
\* request variable of a waiting operation is not written.
LEMMA WaitersStep ==
  ASSUME PoolInv, [Next]_vars
  PROVE  WaitersHaveHandles'
<1>t. TypeOK /\ WaitersHaveHandles
  BY DEF PoolInv
<1>d. DOMAIN phase = Ops /\ DOMAIN request = Ops
  BY <1>t DEF TypeOK
<1> SUFFICES ASSUME NEW q \in Ops, phase'[q] = "waiting"
             PROVE  request'[q] \in Requests
  BY DEF WaitersHaveHandles
<1>1. CASE phase'[q] = phase[q] /\ request'[q] = request[q]
  BY <1>1, <1>t DEF WaitersHaveHandles
<1>2. ASSUME NEW o \in Ops, Begin(o) \/ Test(o) \/ Unblock(o) \/ Consume(o)
      PROVE  phase'[q] = phase[q] /\ request'[q] = request[q]
  <2>1. CASE Begin(o)
    BY <2>1, <1>d
       DEF Begin, RequestLimit, EndpointInvalid, MsgSendI, MsgRecvI, EndpointGetI, Ask,
           EndpointGetILocal, CallBlocks, EndpointGetLocal, Become, clientVars
  <2>2. CASE Test(o)
    BY <2>2, <1>d DEF Test, TestCompleted, TestCompletes, TestFails, Become, vars, clientVars
  <2>3. CASE Unblock(o) \/ Consume(o)
    BY <2>3, <1>d
       DEF Unblock, WaitSucceeds, WaitFails, CallSucceeds, CallFails, Consume, GiveUp, Done, Become
  <2> QED
    BY <1>2, <2>1, <2>2, <2>3
<1>3. ASSUME NEW o \in Ops, Wait(o)
      PROVE  request'[q] \in Requests
  <2>1. CASE WaitBlocks(o)
    BY <2>1, <1>d, <1>t DEF WaitBlocks, ValidHandle, Become, WaitersHaveHandles
  <2>2. CASE WaitRejected(o) \/ WaitCompleted(o)
    <3>1. phase'[q] = phase[q] /\ request'[q] = request[q]
      BY <2>2, <1>d DEF WaitRejected, WaitCompleted, GiveUp, Done, Become
    <3> QED
      BY <3>1, <1>1
  <2> QED
    BY <1>3, <2>1, <2>2 DEF Wait
<1>4. CASE Driver \/ UNCHANGED vars \/ \E p \in Ports : EndpointDelete(p) \/ EndpointCreate(p)
  BY <1>4, <1>1 DEF Driver, Arrive, Ack, RemoteChanges, EndpointDelete, EndpointCreate,
                    vars, clientVars
<1> QED
  BY <1>1, <1>2, <1>3, <1>4 DEF Next

-----------------------------------------------------------------------------
LEMMA IInvInit ==
  ASSUME Init
  PROVE  IInv /\ PoolInv
<1>1. PoolTypeOK /\ FreeListSound
  BY PoolInitSound DEF Init
<1>2. TypeOK
  <2>1. ZeroRecord \in Records
    BY RecordTypes DEF ZeroRecord, Types
  <2>2. <<>> \in Seq(Msgs) /\ Len(<<>>) <= MaxInbox
    BY ClientAssumption
  <2> QED
    BY <1>1, <2>1, <2>2 DEF Init, TypeOK, Types
<1>3. OwnRecord /\ WaitersHaveHandles
  BY DEF Init, OwnRecord, Open, WaitersHaveHandles
<1> QED
  BY <1>1, <1>2, <1>3 DEF IInv, PoolInv

\* PoolInv is inductive for every client.
LEMMA PoolInvStep ==
  ASSUME PoolInv, [Next]_vars
  PROVE  PoolInv'
BY PoolStep, TypeStep, WaitersStep DEF PoolInv

LEMMA IInvStep ==
  ASSUME ~ LocalGets, ~ RetryAfterTimeout, IInv, [Next]_vars
  PROVE  IInv'
<1>1. OwnRecord'
  BY BeginOwnRecord, TestOwnRecord, WaitOwnRecord, OtherOwnRecord DEF Next
<1>2. PoolInv
  BY DEF IInv, PoolInv, WaitersHaveHandles, OwnRecord, Open, HasRecord, ValidHandle
<1> QED
  BY <1>1, <1>2, PoolInvStep DEF IInv, PoolInv

\* The invariant that needs no assumption about the client.
LEMMA MessagesPoolInvariant == Spec => []PoolInv
BY IInvInit, PoolInvStep, PTL DEF Spec

\* The variables of the message interface keep their types, whatever the client
\* does with its request variables.
THEOREM MessageTypes == Spec => []TypeOK
<1>1. PoolInv => TypeOK
  BY DEF PoolInv
<1> QED
  BY <1>1, MessagesPoolInvariant, PTL

\* No client damages the free list: a wait that is retried after MCAPI_TIMEOUT, or
\* given a request variable that no call has set, may release the request of another
\* operation, but mcapi_trans_remove_request asserts that it is reserved.
THEOREM MisuseKeepsFreeList == Spec => []FreeListSound
<1>1. PoolInv => FreeListSound
  BY DEF PoolInv
<1> QED
  BY <1>1, MessagesPoolInvariant, PTL

\* The inductive invariant holds in every reachable state.
THEOREM MessagesInvariant ==
  ASSUME ~ LocalGets, ~ RetryAfterTimeout
  PROVE  Spec => []IInv
BY IInvInit, IInvStep, PTL DEF Spec

\* Every thread tests and waits for the record of its own operation, and the
\* assertions of mcapi_trans_test_i, mcapi_trans_wait and mcapi_trans_remove_request
\* hold.
THEOREM OperationsOwnTheirRecords ==
  ASSUME ~ LocalGets, ~ RetryAfterTimeout
  PROVE  Spec => []OwnRecord
<1>1. IInv => OwnRecord
  BY DEF IInv
<1> QED
  BY <1>1, MessagesInvariant, PTL
=============================================================================
