------------------------------- MODULE Threads ------------------------------
(***************************************************************************)
(* The receive calls of several threads of one process and the steps that  *)
(* they take on shared state, as tests/arm_sharc_msg_test.c runs them:     *)
(* every thread has an endpoint of its own, while the main thread deletes  *)
(* and creates endpoints and other processes initialise.  No call takes    *)
(* the semaphore after mcapi_initialize.                                   *)
(*                                                                         *)
(* Shared are the list of free requests, the database's endpoints and the  *)
(* O_NONBLOCK flag of the descriptor of /dev/icc.  A step ends where       *)
(* another thread can see or change what it did; curr_count, whose updates *)
(* get lost as well, may have any value and has no variable.               *)
(*                                                                         *)
(* The model ends where two edits of the list have collided (torn) or the  *)
(* list was linked anew under its users (relinked): what the threads share *)
(* after that is no longer theirs.  Until then a request record is its     *)
(* thread's alone.                                                         *)
(***************************************************************************)
EXTENDS Integers

CONSTANTS
  MaxRequests,    \* MCAPI_MAX_REQUESTS, 64 in the build
  Threads,        \* each named like the port of its endpoint
  MaxEndpoints,   \* MCAPI_MAX_ENDPOINTS, 32 in the build
  Nobody          \* not a thread: an endpoint entry that is not valid

ASSUME ThreadsAssumption ==
  MaxRequests \in Nat \ {0} /\ MaxEndpoints \in Nat \ {0} /\ Nobody \notin Threads

Indices == 0 .. MaxEndpoints - 1

VARIABLES
  next_index, empty_head_index, valid,   \* as in RequestPool
  pc,           \* the next step of a thread; "idle" outside the library
  call,         \* the call that it is in
  request,      \* its request variable, None without a request
  completed,    \* requests[request[t]].completed
  tmp,          \* what the thread has loaded and not used yet
  nonblock,     \* O_NONBLOCK of the descriptor
  endpoints,    \* endpoints[i], and session i of the driver: whose they are
  waiting,      \* driver: whether a message waits at session i
  joining,      \* the link that an initialising process stores next; None if there is none
  torn,         \* history: edits of the free list have collided
  relinked,     \* history: the list was linked while it was in use
  overridden,   \* history: for whom another thread changed the flag before the ioctl
  moved         \* history: whose endpoint was deleted after its lookup

INSTANCE RequestPool WITH curr_count <- 0

listVars == <<next_index, empty_head_index, valid>>
listUse == <<joining, torn, relinked>>
threadVars == <<pc, call, request, completed, tmp>>
driverVars == <<nonblock, endpoints, waiting, overridden, moved>>
vars == <<listVars, threadVars, driverVars, listUse>>

Init ==
  /\ PoolInit
  /\ pc = [t \in Threads |-> "idle"]
  /\ call = [t \in Threads |-> "none"]
  /\ request = [t \in Threads |-> None]
  /\ completed = [t \in Threads |-> FALSE]
  /\ tmp = [t \in Threads |-> None]
  /\ nonblock = FALSE
  /\ endpoints = [i \in Indices |-> Nobody]
  /\ waiting = [i \in Indices |-> FALSE]
  /\ joining = None /\ torn = FALSE /\ relinked = FALSE
  /\ overridden = {} /\ moved = {}

\* Thread t goes on to step q with v in its local variable.
Goes(t, q, v) ==
  /\ pc' = [pc EXCEPT ![t] = q]
  /\ tmp' = [tmp EXCEPT ![t] = v]

\* Thread t returns from its call and has no request.
Leaves(t) ==
  /\ Goes(t, "idle", None)
  /\ call' = [call EXCEPT ![t] = "none"]
  /\ request' = [request EXCEPT ![t] = None]
  /\ completed' = [completed EXCEPT ![t] = FALSE]

Others(t) == Threads \ {t}

-----------------------------------------------------------------------------
(* mcapi_trans_reserve_request                                             *)

ReserveEmpty(t) ==
  /\ pc[t] = "reserve"
  /\ empty_head_index = None
  /\ Leaves(t)
  /\ UNCHANGED <<listVars, driverVars, listUse>>

\* The head and, as long as no edits have collided, what follows it.  While a process
\* links the list, the thread becomes a user of it.
LoadHead(t) ==
  /\ pc[t] = "reserve"
  /\ empty_head_index # None
  /\ request' = [request EXCEPT ![t] = empty_head_index]
  /\ valid' = [valid EXCEPT ![empty_head_index] = TRUE]
  /\ Goes(t, "advance", next_index[empty_head_index])
  /\ relinked' = (joining # None)
  /\ UNCHANGED <<next_index, empty_head_index, call, completed, driverVars, joining, torn>>

\* Between the load of the head and the store of the next one.
Reserving(t) == pc[t] = "advance"

\* The handle points to a head that was loaded, and is not the head yet.
Pushing(t) == pc[t] = "push"

\* Mutant: the head stays.
StoreHeadLoaded(t) ==
  /\ pc[t] = "advance"
  /\ torn' = \E u \in Others(t) : Reserving(u) \/ Pushing(u)
  /\ Goes(t, "lookup", None)
  /\ UNCHANGED <<listVars, call, request, completed, driverVars, joining, relinked>>

StoreHead(t) ==
  /\ pc[t] = "advance"
  /\ empty_head_index' = tmp[t]
  /\ torn' = \E u \in Others(t) : Reserving(u) \/ Pushing(u)
  /\ Goes(t, "lookup", None)
  /\ UNCHANGED <<next_index, valid, call, request, completed, driverVars, joining, relinked>>

-----------------------------------------------------------------------------
(* mcapi_trans_remove_request                                              *)

\* curr_count is, or seems to be, max_count.
ReleaseRefused(t) ==
  /\ pc[t] = "release"
  /\ Leaves(t)
  /\ UNCHANGED <<listVars, driverVars, listUse>>

Link(t) ==
  /\ pc[t] = "release"
  /\ valid' = [valid EXCEPT ![request[t]] = FALSE]
  /\ next_index' = [next_index EXCEPT ![request[t]] = empty_head_index]
  /\ Goes(t, "push", None)
  /\ UNCHANGED <<empty_head_index, call, request, completed, driverVars, listUse>>

Push(t) ==
  /\ pc[t] = "push"
  /\ empty_head_index' = request[t]
  /\ torn' = \E u \in Others(t) : Reserving(u)
  /\ Leaves(t)
  /\ UNCHANGED <<next_index, valid, driverVars, joining, relinked>>

-----------------------------------------------------------------------------
(* The calls                                                               *)

Calls(t, c, q) ==
  /\ pc[t] = "idle"
  /\ call' = [call EXCEPT ![t] = c]
  /\ Goes(t, q, None)
  /\ UNCHANGED <<listVars, request, completed, driverVars, listUse>>

MsgRecvI(t) == request[t] = None /\ Calls(t, "msg_recv_i", "reserve")

MsgRecv(t) == request[t] = None /\ Calls(t, "msg_recv", "lookup")

Wait(t) ==
  /\ request[t] # None /\ valid[request[t]]
  /\ Calls(t, "wait", "lookup")

NonBlocking(t) == call[t] = "msg_recv_i"

\* Mutant: the flag is only ever cleared.
SetFlagsBlocking(t) ==
  /\ nonblock' = FALSE
  /\ overridden' = overridden \union
       {u \in Others(t) : pc[u] = "ioctl" /\ NonBlocking(u) # NonBlocking(t)}

\* fcntl(fd, F_SETFL, flags), on the descriptor that all threads use.
SetFlags(t) ==
  /\ nonblock' = NonBlocking(t)
  /\ overridden' = overridden \union
       {u \in Others(t) : pc[u] = "ioctl" /\ NonBlocking(u) # NonBlocking(t)}

\* Mutant: the ports are not compared.
FoundAny(t, i) == endpoints[i] # Nobody

\* mcapi_trans_get_port_index
Found(t, i) == endpoints[i] = t

\* The index is looked up and the flag set for the call to the driver.
Prepare(t) ==
  /\ pc[t] = "lookup"
  /\ ~ completed[t]
  /\ \E i \in Indices : Found(t, i) /\ Goes(t, "ioctl", i)
  /\ SetFlags(t)
  /\ UNCHANGED <<listVars, call, request, completed, endpoints, waiting, moved, listUse>>

\* mcapi_wait for a request that is complete.
WaitCompleted(t) ==
  /\ pc[t] = "lookup"
  /\ completed[t]
  /\ \E i \in Indices : Found(t, i)
  /\ Goes(t, "release", None)
  /\ UNCHANGED <<listVars, call, request, completed, driverVars, listUse>>

\* MCAPI_ERR_ENDP_INVALID or MCAPI_ERR_NODE_NOTINIT: a request stays reserved.
LookupFails(t) ==
  /\ pc[t] = "lookup"
  /\ \A i \in Indices : ~ Found(t, i)
  /\ Leaves(t)
  /\ UNCHANGED <<listVars, driverVars, listUse>>

\* The driver returns with res, "message", "again" or "error".  msg_recv_i sets the
\* request up in any case, and after an error the client forgets it; mcapi_wait
\* releases it whatever the driver said.
Returns(t, res) ==
  /\ \/ /\ call[t] = "wait"
        /\ Goes(t, "release", None)
        /\ UNCHANGED <<call, request, completed>>
     \/ /\ NonBlocking(t) /\ res # "error"
        /\ Goes(t, "idle", None)
        /\ call' = [call EXCEPT ![t] = "none"]
        /\ completed' = [completed EXCEPT ![t] = res = "message"]
        /\ UNCHANGED request
     \/ /\ call[t] = "msg_recv" \/ (NonBlocking(t) /\ res = "error")
        /\ Leaves(t)
  /\ valid' = IF NonBlocking(t) THEN [valid EXCEPT ![request[t]] = TRUE] ELSE valid
  /\ overridden' = overridden \ {t}
  /\ moved' = moved \ {t}
  /\ UNCHANGED <<next_index, empty_head_index, nonblock, endpoints, listUse>>

Takes(t) ==
  /\ pc[t] \in {"ioctl", "asleep"}
  /\ waiting[tmp[t]]
  /\ waiting' = [waiting EXCEPT ![tmp[t]] = FALSE]
  /\ Returns(t, "message")

\* There is no such session (any more), or a wait with a timeout has run out.
Fails(t) ==
  /\ \/ pc[t] \in {"ioctl", "asleep"} /\ endpoints[tmp[t]] = Nobody
     \/ pc[t] = "asleep" /\ call[t] = "wait"
  /\ Returns(t, "error")
  /\ UNCHANGED waiting

NothingThere(t) ==
  pc[t] = "ioctl" /\ endpoints[tmp[t]] # Nobody /\ ~ waiting[tmp[t]]

TriesAgain(t) ==
  /\ nonblock
  /\ NothingThere(t)
  /\ Returns(t, "again")
  /\ UNCHANGED waiting

Sleeps(t) ==
  /\ ~ nonblock
  /\ NothingThere(t)
  /\ Goes(t, "asleep", tmp[t])
  /\ UNCHANGED <<listVars, call, request, completed, driverVars, listUse>>

-----------------------------------------------------------------------------
(* Around the threads                                                      *)

Arrive(i) ==
  /\ endpoints[i] # Nobody
  /\ waiting' = [waiting EXCEPT ![i] = TRUE]
  /\ UNCHANGED <<listVars, threadVars, nonblock, endpoints, overridden, moved, listUse>>

\* The driver has given the new endpoint its lowest free session.
EndpointCreate(t, i) ==
  /\ endpoints[i] = Nobody
  /\ \A j \in Indices : endpoints[j] # t /\ (j < i => endpoints[j] # Nobody)
  /\ endpoints' = [endpoints EXCEPT ![i] = t]
  /\ UNCHANGED <<listVars, threadVars, nonblock, waiting, overridden, moved, listUse>>

EndpointDelete(i) ==
  /\ endpoints[i] # Nobody
  /\ endpoints' = [endpoints EXCEPT ![i] = Nobody]
  /\ waiting' = [waiting EXCEPT ![i] = FALSE]
  /\ moved' = moved \union {t \in Threads : pc[t] \in {"ioctl", "asleep"} /\ tmp[t] = i}
  /\ UNCHANGED <<listVars, threadVars, nonblock, overridden, listUse>>

InUse == \E t \in Threads : request[t] # None

\* Another process calls mcapi_initialize, which links the list after it has raised
\* the semaphore: first the head, then a link in every step.  requests[].valid is not
\* cleared.
JoinsBegin ==
  /\ joining = None
  /\ empty_head_index' = 0
  /\ joining' = 0
  /\ relinked' = InUse
  /\ UNCHANGED <<next_index, valid, threadVars, driverVars, torn>>

\* The link of the last request is stored as if it had a next one and then again.
JoinsLink ==
  /\ joining # None
  /\ next_index' = [next_index EXCEPT ![joining] = InitialNext[joining]]
  /\ joining' = InitialNext[joining]
  /\ relinked' = InUse
  /\ UNCHANGED <<empty_head_index, valid, threadVars, driverVars, torn>>

Intact == ~ torn /\ ~ relinked

Steps(t) ==
  \/ ReserveEmpty(t) \/ LoadHead(t) \/ StoreHead(t)
  \/ ReleaseRefused(t) \/ Link(t) \/ Push(t)
  \/ Prepare(t) \/ WaitCompleted(t) \/ LookupFails(t)
  \/ Takes(t) \/ Fails(t) \/ TriesAgain(t) \/ Sleeps(t)

Next ==
  /\ Intact
  /\ \/ \E t \in Threads : Steps(t) \/ MsgRecvI(t) \/ MsgRecv(t) \/ Wait(t)
     \/ \E i \in Indices :
          Arrive(i) \/ EndpointDelete(i) \/ \E t \in Threads : EndpointCreate(t, i)
     \/ JoinsBegin \/ JoinsLink

Spec == Init /\ [][Next]_vars

\* A thread that is not asleep in the driver goes on.
FairSpec == Spec /\ \A t \in Threads : WF_vars(Intact /\ Steps(t))

-----------------------------------------------------------------------------
\* The handle that t was given and has not begun to give back.
Holds(t) == request[t] # None /\ pc[t] \notin {"advance", "push"}

\* Shared and local variables keep their types.
TypeOK ==
  /\ next_index \in [Requests -> Requests \union {None}]
  /\ {empty_head_index, joining} \subseteq Requests \union {None}
  /\ valid \in [Requests -> BOOLEAN] /\ completed \in [Threads -> BOOLEAN]
  /\ request \in [Threads -> Requests \union {None}]
  /\ endpoints \in [Indices -> Threads \union {Nobody}]
  /\ waiting \in [Indices -> BOOLEAN]
  /\ {nonblock, torn, relinked} \subseteq BOOLEAN
  /\ {overridden, moved} \subseteq SUBSET Threads

\* Threads share a request only after a collision on the list: a store of the head by
\* reserve_request while another thread is between its load and its store of the
\* head or about to push, or a push while another one reserves; or after an
\* initialise while requests were in use.  Releases that overlap only each other
\* never make two threads share one, and the assertion of remove_request holds.
HandlesStayApart ==
  Intact =>
    \A t \in Threads : Holds(t) =>
      /\ valid[request[t]]
      /\ \A u \in Others(t) : Holds(u) => request[u] # request[t]

\* A blocking call ends with EAGAIN, which it reports as MCAPI_ERR_GENERAL, and a
\* non-blocking one sleeps, only if another thread set the flag between their fcntl
\* and their ioctl (sm_recv_packet, sm_wait_nonblocking).
ModesKept ==
  [][\A t \in Threads \ overridden :
       /\ Sleeps(t) => ~ NonBlocking(t)
       /\ TriesAgain(t) => NonBlocking(t)]_vars

\* A thread gets a message of another endpoint only if its own was deleted after the
\* lookup, and the other one was given its session (mcapi_trans_msg_recv).
OwnMessages ==
  [][\A t \in Threads \ moved : Takes(t) => endpoints[tmp[t]] = t]_vars

\* mcapi_msg_recv_i returns, unless another thread cleared the flag before its ioctl.
NonBlockingReturns ==
  \A t \in Threads :
    NonBlocking(t) ~> ~ NonBlocking(t) \/ t \in overridden \/ ~ Intact

\* mcapi_msg_recv "is a blocking function, and returns once a message is available"
\* (mcapi.c:887): the driver does not send it back with EAGAIN.
BlockingCallsBlock ==
  \A t \in Threads : call[t] = "msg_recv" /\ NothingThere(t) => ~ nonblock
=============================================================================
