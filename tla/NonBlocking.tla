----------------------------- MODULE NonBlocking ----------------------------
(***************************************************************************)
(* Messages and non-blocking operations of one initialised process:        *)
(* mcapi_msg_send_i, mcapi_msg_recv_i, mcapi_endpoint_get_i and their      *)
(* blocking forms, mcapi_test and mcapi_wait (mcapi.c, with the transport  *)
(* in mcapi_trans_stub.c), over the request pool.                          *)
(*                                                                         *)
(* The client is a set of operation slots.  A slot is what a thread of the *)
(* application keeps for one operation: a buffer and a request variable.   *)
(* Calls do not overlap inside the library, except that a call blocked in  *)
(* the driver lets every other call run: a blocking call is one step into  *)
(* the driver and one step out of it.                                      *)
(*                                                                         *)
(* The driver /dev/icc is external.  It keeps an inbox per local endpoint, *)
(* says when an outgoing packet was consumed, knows whether the remote     *)
(* endpoint exists, and may time a blocking call out.                      *)
(***************************************************************************)
EXTENDS RequestPool, Sequences

CONSTANTS
  Ops,                \* operation slots of the client
  TimedOps,           \* those whose calls are given a finite timeout
  Ports,              \* ports of the local node
  Msgs,               \* messages that remote nodes send
  MaxInbox,           \* bound on an inbox
  Faults,             \* whether the driver may fail a call
  Deletes,            \* whether the application deletes and creates endpoints
  RetryAfterTimeout,  \* whether the client waits again after MCAPI_TIMEOUT
  LocalGets,          \* whether the client calls mcapi_endpoint_get_i for a local port
  Nothing, Filled, NoOp, NoPort

ASSUME ClientAssumption ==
  /\ MaxInbox \in Nat
  /\ {Faults, Deletes, RetryAfterTimeout, LocalGets} \subseteq BOOLEAN
  /\ TimedOps \subseteq Ops
  /\ NoOp \notin Ops /\ NoPort \notin Ports
  /\ Nothing \notin Msgs /\ Filled \notin Msgs /\ Nothing # Filled

\* mcapi_request_type; OTHER is what a zeroed record holds.
Types == {"OTHER", "SEND", "RECV", "GET_ENDPT"}

Kinds == {"SEND", "RECV", "GET_ENDPT"}

VARIABLES
  requests,   \* requests[r]: completed, type, op and port
  ports,      \* the ports that mcapi_trans_get_port_index finds
  inbox,      \* driver: messages that wait at a local port
  sent,       \* driver: what became of the packet of a slot
  remoteUp,   \* driver: whether the remote endpoint exists
  phase,      \* client: where the operation of a slot stands
  kind,       \* client: what the operation is, OTHER for none
  request,    \* client: the slot's request variable, None before it is set
  mem,        \* client: the slot's buffer
  args        \* what a call that is blocked in the driver passed to it

driverVars == <<inbox, sent, remoteUp>>
clientVars == <<phase, kind, request, mem, args>>
vars == <<poolVars, requests, ports, driverVars, clientVars>>

-----------------------------------------------------------------------------
\* A request record.  op stands for the buffer (RECV), the endpoint pointer
\* (GET_ENDPT) or the payload of the packet (SEND) that the record names.
Record(completed, type, o, p) ==
  [completed |-> completed, type |-> type, op |-> o, port |-> p]

ZeroRecord == Record(FALSE, "OTHER", NoOp, NoPort)

Records == [completed : BOOLEAN, type : Types, op : Ops \union {NoOp},
            port : Ports \union {NoPort}]

Init ==
  /\ PoolInit
  /\ requests = [r \in Requests |-> ZeroRecord]
  /\ ports = Ports
  /\ inbox = [p \in Ports |-> <<>>]
  /\ sent = [o \in Ops |-> "no"]
  /\ remoteUp = FALSE
  /\ phase = [o \in Ops |-> "idle"]
  /\ kind = [o \in Ops |-> "OTHER"]
  /\ request = [o \in Ops |-> None]
  /\ mem = [o \in Ops |-> Nothing]
  /\ args = [o \in Ops |-> ZeroRecord]

\* mcapi_trans_valid_request_handle
ValidHandle(r) == r \in Requests /\ valid[r]

\* The client has a request that it may pass to mcapi_test and mcapi_wait.
Waitable(o) == phase[o] \in {"pending", "completed"}

\* The port of a request is looked up again whenever it is tested or waited for;
\* GET_ENDPT has no local port.
PortFound(rec) == rec.type = "GET_ENDPT" \/ rec.port \in ports

-----------------------------------------------------------------------------
(* The driver                                                              *)

\* CMD_SM_WAIT, CMD_SM_RECV and CMD_SM_QUERY_REMOTE_EP can succeed.
DriverReady(rec) ==
  \/ rec.type = "RECV" /\ rec.port \in ports /\ inbox[rec.port] # <<>>
  \/ rec.type = "SEND" /\ rec.op \in Ops /\ sent[rec.op] = "acked"
  \/ rec.type = "GET_ENDPT" /\ remoteUp

\* A call with arguments a succeeds: the driver moves a message to the buffer that
\* a named.  On return the library stores the endpoint handle where the record rec
\* points to.
Transfer(a, rec) ==
  /\ DriverReady(a)
  /\ inbox' = IF a.type = "RECV" THEN [inbox EXCEPT ![a.port] = Tail(@)] ELSE inbox
  /\ mem' = [o \in Ops |->
       IF rec.type = "GET_ENDPT" /\ rec.op = o THEN Filled
       ELSE IF a.type = "RECV" /\ a.op = o THEN Head(inbox[a.port])
       ELSE mem[o]]

InUse(m) ==
  \/ \E p \in Ports : \E i \in DOMAIN inbox[p] : inbox[p][i] = m
  \/ \E o \in Ops : mem[o] = m

Arrive(p, m) ==
  /\ p \in ports
  /\ Len(inbox[p]) < MaxInbox
  /\ ~ InUse(m)
  /\ inbox' = [inbox EXCEPT ![p] = Append(@, m)]
  /\ UNCHANGED <<poolVars, requests, ports, sent, remoteUp, clientVars>>

Ack(o) ==
  /\ sent[o] = "inflight"
  /\ sent' = [sent EXCEPT ![o] = "acked"]
  /\ UNCHANGED <<poolVars, requests, ports, inbox, remoteUp, clientVars>>

RemoteChanges ==
  /\ remoteUp' = ~ remoteUp
  /\ UNCHANGED <<poolVars, requests, ports, inbox, sent, clientVars>>

-----------------------------------------------------------------------------
(* Starting an operation                                                   *)

\* The client's view of operation o becomes p; it keeps handle r for it.
Become(o, p, k, r) ==
  /\ phase' = [phase EXCEPT ![o] = p]
  /\ kind' = [kind EXCEPT ![o] = k]
  /\ request' = [request EXCEPT ![o] = r]

\* The client is through with the operation and its request variable.
GiveUp(o) ==
  /\ Become(o, "idle", "OTHER", None)
  /\ sent' = [sent EXCEPT ![o] = "no"]

\* The client has its result and no more use for the request variable.
Done(o) == Become(o, "done", kind[o], None)

\* Mutant: the payload that identifies a sent packet is not recorded.
SetUpNoPayload(r, completed, k, o, p) ==
  requests' = [requests EXCEPT
    ![r] = Record(completed, k, IF k = "SEND" THEN NoOp ELSE o, p)]

\* Mutant: a record keeps the buffer of the operation that had it before.
SetUpStaleBuffer(r, completed, k, o, p) ==
  requests' = [requests EXCEPT
    ![r] = Record(completed, k, IF @.op = NoOp THEN o ELSE @.op, p)]

\* setup_request_internal, with the assignment of completed before it.
SetUp(r, completed, k, o, p) ==
  requests' = [requests EXCEPT ![r] = Record(completed, k, o, p)]

\* Every non-blocking call reserves first, and gives up when it cannot.
RequestLimit(o) ==
  /\ phase[o] = "idle"
  /\ ReserveFails
  /\ UNCHANGED <<requests, ports, driverVars, clientVars>>

\* mcapi_trans_msg_send_i and msg_recv_i return MCAPI_ERR_ENDP_INVALID: the handle
\* stays reserved, its record as it was.  After an error the client has no use for
\* the request variable that the call wrote.
EndpointInvalid(o, r, p) ==
  /\ phase[o] = "idle"
  /\ p \notin ports
  /\ Reserve(r)
  /\ UNCHANGED <<requests, ports, driverVars, clientVars>>

MsgSendI(o, r, p) ==
  /\ phase[o] = "idle"
  /\ p \in ports
  /\ Reserve(r)
  /\ \/ /\ SetUp(r, TRUE, "SEND", o, p)                     \* MCAPI_SUCCESS
        /\ sent' = [sent EXCEPT ![o] = "acked"]
        /\ Become(o, "completed", "SEND", r)
     \/ /\ SetUp(r, FALSE, "SEND", o, p)                    \* MCAPI_PENDING
        /\ sent' = [sent EXCEPT ![o] = "inflight"]
        /\ Become(o, "pending", "SEND", r)
     \/ /\ Faults                                           \* MCAPI_ERR_TRANSMISSION
        /\ SetUp(r, FALSE, "SEND", NoOp, p)
        /\ UNCHANGED <<sent, phase, kind, request>>
  /\ UNCHANGED <<ports, inbox, remoteUp, mem, args>>

\* Mutant: the driver's refusal is recorded as a completed request.
AskMarksCompleted(o, r, rec) ==
  \/ /\ Transfer(rec, rec)
     /\ SetUp(r, TRUE, rec.type, o, rec.port)
     /\ Become(o, "completed", rec.type, r)
  \/ /\ ~ DriverReady(rec)
     /\ SetUp(r, TRUE, rec.type, o, rec.port)
     /\ Become(o, "pending", rec.type, r)
     /\ UNCHANGED <<inbox, mem>>

\* What msg_recv_i and endpoint_get_i do with the answer of the driver to rec.
Ask(o, r, rec) ==
  \/ /\ Transfer(rec, rec)                                  \* MCAPI_SUCCESS
     /\ SetUp(r, TRUE, rec.type, o, rec.port)
     /\ Become(o, "completed", rec.type, r)
  \/ /\ ~ DriverReady(rec)                                  \* MCAPI_PENDING
     /\ SetUp(r, FALSE, rec.type, o, rec.port)
     /\ Become(o, "pending", rec.type, r)
     /\ UNCHANGED <<inbox, mem>>
  \/ /\ Faults                                              \* MCAPI_ERR_TRANSMISSION
     /\ SetUp(r, FALSE, rec.type, o, rec.port)
     /\ UNCHANGED <<inbox, mem, phase, kind, request>>

MsgRecvI(o, r, p) ==
  /\ phase[o] = "idle"
  /\ p \in ports
  /\ Reserve(r)
  /\ Ask(o, r, Record(FALSE, "RECV", o, p))
  /\ UNCHANGED <<ports, sent, remoteUp, args>>

\* mcapi_trans_endpoint_get_i for a port that is not local.
EndpointGetI(o, r) ==
  /\ phase[o] = "idle"
  /\ Reserve(r)
  /\ Ask(o, r, Record(FALSE, "GET_ENDPT", o, NoPort))
  /\ UNCHANGED <<ports, sent, remoteUp, args>>

\* For a local port it answers MCAPI_SUCCESS without reserving a request and
\* without assigning the caller's request variable: garbage is whatever the
\* variable held, which may never have been set.
EndpointGetILocal(o, garbage) ==
  /\ LocalGets
  /\ phase[o] = "idle"
  /\ ports # {}
  /\ mem' = [mem EXCEPT ![o] = Filled]
  /\ Become(o, "completed", "GET_ENDPT", garbage)
  /\ UNCHANGED <<poolVars, requests, ports, driverVars, args>>

-----------------------------------------------------------------------------
(* mcapi_test                                                              *)

\* Mutant: testing a complete request releases it.
TestReleases(o) ==
  /\ Waitable(o)
  /\ ValidHandle(request[o])
  /\ requests[request[o]].completed
  /\ Release(request[o])
  /\ Become(o, "completed", kind[o], request[o])
  /\ UNCHANGED <<requests, ports, driverVars, mem, args>>

\* The request is complete already, and stays reserved.
TestCompleted(o) ==
  /\ Waitable(o)
  /\ ValidHandle(request[o])
  /\ requests[request[o]].completed
  /\ Become(o, "completed", kind[o], request[o])
  /\ UNCHANGED <<poolVars, requests, ports, driverVars, mem, args>>

\* Mutant: the driver is asked although the request is complete.
TestAsksAgain(o) ==
  LET rec == requests[request[o]] IN
  /\ Waitable(o)
  /\ ValidHandle(request[o])
  /\ PortFound(rec)
  /\ Transfer(rec, rec)
  /\ requests' = [requests EXCEPT ![request[o]].completed = TRUE]
  /\ Become(o, "completed", kind[o], request[o])
  /\ UNCHANGED <<poolVars, ports, sent, remoteUp, args>>

\* The driver completes it now.
TestCompletes(o) ==
  LET rec == requests[request[o]] IN
  /\ Waitable(o)
  /\ ValidHandle(request[o])
  /\ ~ rec.completed
  /\ PortFound(rec)
  /\ Transfer(rec, rec)
  /\ requests' = [requests EXCEPT ![request[o]].completed = TRUE]
  /\ Become(o, "completed", kind[o], request[o])
  /\ UNCHANGED <<poolVars, ports, sent, remoteUp, args>>

\* MCAPI_PENDING, MCAPI_ERR_GENERAL, MCAPI_ERR_NODE_NOTINIT (the port is gone)
\* or MCAPI_ERR_REQUEST_INVALID: nothing changes.
TestFails(o) ==
  /\ Waitable(o)
  /\ \/ ~ ValidHandle(request[o])
     \/ /\ ~ requests[request[o]].completed
        /\ \/ ~ PortFound(requests[request[o]])
           \/ ~ DriverReady(requests[request[o]])
           \/ Faults
  /\ UNCHANGED vars

-----------------------------------------------------------------------------
(* mcapi_wait                                                              *)

\* MCAPI_ERR_REQUEST_INVALID or MCAPI_ERR_NODE_NOTINIT: nothing is released.  A
\* client that was told MCAPI_SUCCESS before has its result all the same.
WaitRejected(o) ==
  /\ Waitable(o)
  /\ \/ ~ ValidHandle(request[o])
     \/ ~ PortFound(requests[request[o]])
  /\ IF phase[o] = "completed" THEN Done(o) /\ UNCHANGED sent ELSE GiveUp(o)
  /\ UNCHANGED <<poolVars, requests, ports, inbox, remoteUp, mem, args>>

\* The request had completed: it is released at once.
WaitCompleted(o) ==
  LET r == request[o] IN
  /\ Waitable(o)
  /\ ValidHandle(r)
  /\ PortFound(requests[r])
  /\ requests[r].completed
  /\ Release(r)
  /\ Done(o)
  /\ UNCHANGED <<requests, ports, driverVars, mem, args>>

\* The call goes into the driver with what the record says now.
WaitBlocks(o) ==
  LET r == request[o] IN
  /\ Waitable(o)
  /\ ValidHandle(r)
  /\ PortFound(requests[r])
  /\ ~ requests[r].completed
  /\ args' = [args EXCEPT ![o] = requests[r]]
  /\ Become(o, "waiting", kind[o], r)
  /\ UNCHANGED <<poolVars, requests, ports, driverVars, mem>>

Wait(o) == WaitRejected(o) \/ WaitCompleted(o) \/ WaitBlocks(o)

Returned(o) == args' = [args EXCEPT ![o] = ZeroRecord]

\* CMD_SM_WAIT returns 0.  The record is read again, and not written: where the
\* code means to set completed it compares.
WaitSucceeds(o) ==
  /\ phase[o] = "waiting"
  /\ Transfer(args[o], requests[request[o]])
  /\ Release(request[o])
  /\ Returned(o)
  /\ Done(o)
  /\ UNCHANGED <<requests, ports, sent, remoteUp>>

\* Mutant: a wait that fails leaves the request reserved.
WaitFailsKeeping(o) ==
  /\ phase[o] = "waiting"
  /\ o \in TimedOps \/ Faults \/ ~ PortFound(args[o])
  /\ Returned(o)
  /\ GiveUp(o)
  /\ UNCHANGED <<poolVars, requests, ports, inbox, remoteUp, mem>>

\* CMD_SM_WAIT fails, with ETIMEDOUT or another error: the request is released in
\* both cases.  A client that goes by the documentation waits again after
\* MCAPI_TIMEOUT.
WaitFails(o) ==
  /\ phase[o] = "waiting"
  /\ Release(request[o])
  /\ Returned(o)
  /\ \/ /\ o \in TimedOps /\ ~ RetryAfterTimeout
        /\ GiveUp(o)
     \/ /\ o \in TimedOps /\ RetryAfterTimeout
        /\ Become(o, "pending", kind[o], request[o])
        /\ UNCHANGED sent
     \/ /\ Faults \/ ~ PortFound(args[o])
        /\ GiveUp(o)
  /\ UNCHANGED <<requests, ports, inbox, remoteUp, mem>>

-----------------------------------------------------------------------------
(* Blocking calls                                                          *)

\* mcapi_msg_send, mcapi_msg_recv and mcapi_endpoint_get (of a port that is not
\* local) go into the driver without a request.
CallBlocks(o, k, p) ==
  /\ phase[o] = "idle"
  /\ k = "GET_ENDPT" <=> p = NoPort
  /\ PortFound(Record(FALSE, k, o, p))
  /\ args' = [args EXCEPT ![o] = Record(FALSE, k, o, p)]
  /\ sent' = [sent EXCEPT ![o] = IF k = "SEND" THEN "inflight" ELSE "no"]
  /\ Become(o, "blocked", k, None)
  /\ UNCHANGED <<poolVars, requests, ports, inbox, remoteUp, mem>>

\* mcapi_endpoint_get of a local port.
EndpointGetLocal(o) ==
  /\ phase[o] = "idle"
  /\ ports # {}
  /\ mem' = [mem EXCEPT ![o] = Filled]
  /\ Become(o, "done", "GET_ENDPT", None)
  /\ UNCHANGED <<poolVars, requests, ports, driverVars, args>>

CallSucceeds(o) ==
  /\ phase[o] = "blocked"
  /\ Transfer(args[o], args[o])
  /\ Returned(o)
  /\ Done(o)
  /\ UNCHANGED <<poolVars, requests, ports, sent, remoteUp>>

\* MCAPI_TIMEOUT or MCAPI_ERR_GENERAL.
CallFails(o) ==
  /\ phase[o] = "blocked"
  /\ o \in TimedOps \/ Faults \/ ~ PortFound(args[o])
  /\ Returned(o)
  /\ GiveUp(o)
  /\ UNCHANGED <<poolVars, requests, ports, inbox, remoteUp, mem>>

-----------------------------------------------------------------------------
(* The rest of the application                                             *)

\* The application has used the result and may use the buffer again.
Consume(o) ==
  /\ phase[o] = "done"
  /\ GiveUp(o)
  /\ mem' = [mem EXCEPT ![o] = Nothing]
  /\ UNCHANGED <<poolVars, requests, ports, inbox, remoteUp, args>>

\* mcapi_trans_endpoint_delete: the session goes, and its messages with it.
EndpointDelete(p) ==
  /\ Deletes
  /\ p \in ports
  /\ ports' = ports \ {p}
  /\ inbox' = [inbox EXCEPT ![p] = <<>>]
  /\ UNCHANGED <<poolVars, requests, sent, remoteUp, clientVars>>

\* mcapi_trans_endpoint_create, for a port that is not there yet.
EndpointCreate(p) ==
  /\ Deletes
  /\ p \notin ports
  /\ ports' = ports \union {p}
  /\ UNCHANGED <<poolVars, requests, driverVars, clientVars>>

-----------------------------------------------------------------------------
Driver ==
  \/ \E p \in Ports, m \in Msgs : Arrive(p, m)
  \/ \E o \in Ops : Ack(o)
  \/ RemoteChanges

Begin(o) ==
  \/ RequestLimit(o)
  \/ \E r \in Requests, p \in Ports :
       EndpointInvalid(o, r, p) \/ MsgSendI(o, r, p) \/ MsgRecvI(o, r, p)
  \/ \E r \in Requests : EndpointGetI(o, r) \/ EndpointGetILocal(o, r)
  \/ \E k \in Kinds, p \in Ports \union {NoPort} : CallBlocks(o, k, p)
  \/ EndpointGetLocal(o)

Test(o) == TestCompleted(o) \/ TestCompletes(o) \/ TestFails(o)

Unblock(o) ==
  WaitSucceeds(o) \/ WaitFails(o) \/ CallSucceeds(o) \/ CallFails(o)

Next ==
  \/ Driver
  \/ \E o \in Ops :
       Begin(o) \/ Test(o) \/ Wait(o) \/ Unblock(o) \/ Consume(o)
  \/ \E p \in Ports : EndpointDelete(p) \/ EndpointCreate(p)

Spec == Init /\ [][Next]_vars

\* The driver consumes a packet eventually and wakes a call that can succeed; a
\* thread that has a request waits for it, however long it goes on testing.
FairSpec ==
  /\ Spec
  /\ \A o \in Ops : WF_vars(Ack(o)) /\ WF_vars(Wait(o)) /\ WF_vars(Unblock(o))

-----------------------------------------------------------------------------
\* The operations whose request the client has not waited for.
Open == {o \in Ops : phase[o] \in {"pending", "completed", "waiting"}}

\* Every variable of the library, the driver and the client keeps its type.
TypeOK ==
  /\ PoolTypeOK
  /\ requests \in [Requests -> Records]
  /\ ports \subseteq Ports
  /\ inbox \in [Ports -> Seq(Msgs)] /\ \A p \in Ports : Len(inbox[p]) <= MaxInbox
  /\ sent \in [Ops -> {"no", "inflight", "acked"}]
  /\ remoteUp \in BOOLEAN
  /\ phase \in [Ops -> {"idle", "pending", "completed", "waiting", "blocked", "done"}]
  /\ kind \in [Ops -> Types]
  /\ request \in [Ops -> Requests \union {None}]
  /\ mem \in [Ops -> Msgs \union {Nothing, Filled}]
  /\ args \in [Ops -> Records]

\* The request variable of o names the record that was set up for o.
HasRecord(o) ==
  /\ ValidHandle(request[o])
  /\ requests[request[o]].op = o
  /\ requests[request[o]].type = kind[o]
  /\ requests[request[o]].completed = (phase[o] = "completed")
  /\ phase[o] = "waiting" => args[o] = requests[request[o]]

\* A request variable that the client still has to wait for names a reserved
\* record, the one that was set up for this operation, however often the handle
\* was released and reserved in between: mcapi_trans_wait's and
\* mcapi_trans_remove_request's assertions hold, and no two waits share a record.
OwnRecord == \A o \in Open : HasRecord(o)

\* An operation that was reported complete is: a receive has its message, an
\* endpoint query its endpoint, and a sent packet was consumed by the driver.
SuccessMeansDone ==
  \A o \in Ops : phase[o] \in {"completed", "done"} =>
    CASE kind[o] = "RECV" -> mem[o] \in Msgs
      [] kind[o] = "GET_ENDPT" -> mem[o] = Filled
      [] kind[o] = "SEND" -> sent[o] = "acked"

\* Without errors, deletions and a pool used to the last handle, the reserved
\* handles are those of operations that are not over yet.
NoLeak == Held = {request[o] : o \in Open}

\* The interface implements its promise: a message that arrived is in its inbox, in
\* order, or in one buffer, and a buffer changes only in the step that reports
\* its operation complete or when the client empties it.
Promise == INSTANCE Operations WITH
  state <- [o \in Ops |->
    CASE phase[o] = "idle" -> "idle"
      [] phase[o] \in {"pending", "waiting", "blocked"} -> "active"
      [] phase[o] \in {"completed", "done"} -> "finished"]

ImplementsOperations == Promise!Spec

\* A send that was accepted ends, and its request is waited for, whatever becomes of
\* the operations that time out beside it (mcapi_trans_wait finds the packet again by
\* the payload in the request).
SendsFinish ==
  \A o \in Ops \ TimedOps : kind[o] = "SEND" /\ phase[o] \in {"pending", "completed", "blocked"}
                   ~> phase[o] = "done"

\* "the request is not cleared in the case of a timeout and can be waited upon
\* multiple times" (mcapi.c:2726): while an operation is pending its request
\* variable names a reserved record.
RequestSurvivesTimeout ==
  \A o \in Ops : phase[o] = "pending" => ValidHandle(request[o])

\* After any non-blocking call that did not fail "use the mcapi_test(),
\* mcapi_wait() ... functions to query the status of ... the operation"
\* (mcapi.c:499): a thread in mcapi_wait waits for its own operation.
WaitsForOwnOperation ==
  \A o \in Ops : phase[o] = "waiting" => args[o].op = o
=============================================================================
