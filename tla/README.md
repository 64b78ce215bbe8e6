# The MCAPI message library in TLA+

This directory is a verification development of the MCAPI library in this repository: the
public calls of `mcapi.c`, the transport behind them in `mcapi_trans_stub.c` and the driver
calls of `trans_impl/tran_impl_dev.c`. Below, "stub" is `mcapi_trans_stub.c` and "dev" is
`trans_impl/tran_impl_dev.c`; numbers are lines.

## 1. The system

A process that uses the library is one *node*. It attaches a System V shared segment that
holds the *database* (`mcapi_database`, include/transport_sm.h 166-172) and opens `/dev/icc`,
a kernel driver that moves packets between the ARM core and the SHARC cores.

| Part | State | Operations | Talks to |
|---|---|---|---|
| Request pool (stub 396-443, 498-523) | free list `request_reserves_header`, `requests[].valid` | reserve, remove, init, decode | called by every non-blocking call and by wait |
| Messages and non-blocking operations (stub 946-1019, 1145-1324, 1835-1987; mcapi.c 506-997, 2684-2769) | `requests[]` | `mcapi_msg_send(_i)`, `mcapi_msg_recv(_i)`, `mcapi_endpoint_get(_i)`, `mcapi_test`, `mcapi_wait`, `mcapi_msg_available` | pool, endpoint lookup, driver |
| Endpoint database (stub 266-287, 896-942, 1027-1043) | `endpoints[]`, `num_endpoints` | create, delete, `get_port_index` | driver sessions |
| Driver calls (dev) | one file descriptor with its O_NONBLOCK flag | create, shut down, send, receive, wait, query | kernel (external) |
| Shared database life cycle (stub 90-209, 824-891) | semaphore, segment, `c_db`, `sem_id` | initialize, finalize, attach, free | other processes |
| Node registry (stub 292-394, 722-741) | `domains[].nodes[]` | `add_node`, `initialized` | life cycle |
| Channels (stub 635-672, 1330-1831; dev 168-275, 360-398; mcapi.c 1054-2648) | `open`, `connected`, `recv_endpt` of an endpoint; `buffers[]` | connect, open, close, send, receive, release; unreachable in this version, because the public calls return `MCAPI_ERR_GENERAL` first | pool (a packet buffer has the index of a request), endpoint lookup, driver |
| Handles (stub 458-496) | - | encode and decode domain, node and port in 32 bits | every call that takes an endpoint |
| `mcapi_wait_any`, `mcapi_cancel` | - | stubs that do nothing | - |

What makes it hard:

- *Handles are reused.* A request is an index into `requests[]`; released, it is the next one
  handed out. Everything that goes wrong with a stale index goes wrong silently.
- *Calls block in the driver* with what they read from the database before, and write and
  release the record after, while other threads go on (tests/arm_sharc_msg_demo.c runs a
  sender and a receiver thread per pair of endpoints).
- *No call takes the semaphore* but `mcapi_initialize`: threads and processes edit the free list
  together, and share the O_NONBLOCK flag of one descriptor, set in one system call and used in
  the next.
- *The driver is asked several times about the same operation*: when it starts, in every test
  and in the wait. Exactly one answer may move a message.
- *Errors are dropped*: the result of a release, of `CMD_SM_CREATE`, of `add_node`; a
  comparison stands where `completed` should be assigned (stub 1960, 1969, 1973, 1978).
- *Limits*: 64 requests, 32 endpoints per node, 2 nodes.
- *Processes* share the database and may die anywhere in it.

What makes each part correct: the pool never gives one handle to two callers, never loses one
and reports a limit only at the limit; an operation is tested and waited for through its own
record, is reported complete only when it is, gives its request back, and delivers each
message once and in order; a call blocks if it says so and gets the messages of its own endpoint;
a live endpoint is always found by its handle, and belongs to one session; processes share one
database and are in it once; a packet stays intact until it is released, and goes to the peer
that the driver connected.
`PROJECT.json` lists the hazards line by line with the properties that cover them.

## 2. Modules

| Module | Models |
|---|---|
| `RequestPool` | the free list and its three functions, as a component |
| `PoolCallers` | the pool with callers that reserve and release |
| `HandlePool` | abstract: what the pool does for its callers, without a list |
| `NonBlocking` | messages and non-blocking operations over `RequestPool` |
| `Operations` | abstract: what the message interface promises, without requests |
| `Threads` | receive calls of threads that overlap inside the library, step by step |
| `Endpoints` | the endpoint database with the driver's sessions and the handles |
| `EndpointSet` | abstract: what creates and deletes do for the calls that look ports up |
| `Database` | several processes that initialise, finalise and die |
| `NodeTable` | abstract: what the shared database is to its processes, without kernel objects |
| `Channels` | packet and scalar channels over `RequestPool` |
| `MCNonBlocking`, `MCChannels` | symmetry for TLC |
| `RequestPoolProofs`, `PoolProofs`, `NonBlockingProofs`, `OperationsProofs`, `ThreadsProofs`, `EndpointsProofs`, `DatabaseProofs`, `ChannelsProofs` | theorems |

`NonBlocking`, `PoolCallers` and `Channels` extend `RequestPool`, so that the same definitions of
reserve and remove are checked and proved about in all of them; `Threads` takes the list from it
and cuts reserve and remove into their steps.

**RequestPool.** `next_index`, `empty_head_index`, `curr_count` and `valid` are the fields of
the same names. `Reserve(r)` is `mcapi_trans_reserve_request` returning `r`. `Release(r)` is
`mcapi_trans_remove_request(r)`, in the two forms its `if` gives it: `Remove` and
`RemoveRefused`. The assertion at stub 400 is the guard `valid[r]`: where a caller could break
it, the property `OwnRecord` says that it does not. `prev_index` and `full_head_index` are
never read and have no variable.

**NonBlocking.** An *operation slot* is what an application thread keeps for one operation: a
buffer (`mem`), a request variable (`request`), and how far it is (`phase`): `idle`, `pending`
(`MCAPI_PENDING` was returned), `completed` (`MCAPI_SUCCESS` was returned, not yet waited
for), `waiting` (inside `mcapi_wait`, in the driver), `blocked` (inside a blocking call, in the
driver), `done` (result available, request released). `requests[r]` keeps the fields of
`mcapi_request_data` that decide something: `completed`, `type`, the local port (`handle`)
and `op`, which stands for what ties the record to an operation (the buffer of a receive, the
endpoint pointer of a query, the payload that identifies a sent packet).

| Action | Code |
|---|---|
| `RequestLimit`, `EndpointInvalid` | the early returns of the three `_i` calls |
| `MsgSendI`, `MsgRecvI`, `EndpointGetI` | the `_i` calls with the driver's three answers: 0, `EAGAIN`, another error |
| `EndpointGetILocal` | stub 954-960: success without a request |
| `TestCompleted`, `TestCompletes`, `TestFails` | the branches of `mcapi_trans_test_i` |
| `WaitRejected`, `WaitCompleted`, `WaitBlocks` | `mcapi_trans_wait` up to the driver call |
| `WaitSucceeds`, `WaitFails` | `mcapi_trans_wait` from the driver's answer on |
| `CallBlocks`, `CallSucceeds`, `CallFails`, `EndpointGetLocal` | the blocking calls |
| `EndpointDelete`, `EndpointCreate` | ports come and go, as far as lookups see it |
| `Arrive`, `Ack`, `RemoteChanges` | the driver (external) |
| `Consume` | the application reuses the buffer |

A call is one step unless it blocks, and then a step into the driver and one out. Two threads
that overlap inside the library, on the free list say, are the subject of `Threads`.
`args[o]` is what a blocked call passed to the driver; on return the code reads the record
again (stub 1964-1967), and so does `WaitSucceeds`.

The client follows tests/arm_sharc_msg_demo.c: one thread per slot, test at will, wait once to
release; after an error it has no more use for the request variable. Constants add behaviour:
`TimedOps` (the slots that wait with a finite timeout), `Faults` (driver errors), `Deletes` (endpoints deleted and
created while operations run), `RetryAfterTimeout` (waits again after `MCAPI_TIMEOUT`, as
mcapi.c 2725 allows) and `LocalGets` (`mcapi_endpoint_get_i` for a local port, after which the
request variable holds garbage). The last two are uses that the documentation invites and the
code does not support.

**Threads.** Every thread has an endpoint of its own, as in tests/arm_sharc_msg_test.c, and calls
`mcapi_msg_recv`, `mcapi_msg_recv_i` and `mcapi_wait`, while endpoints are deleted and created and
other processes initialise. A step ends where another thread can see or change what it did:

| Action | Code |
|---|---|
| `ReserveEmpty`, `LoadHead`, `StoreHead` | `reserve_request`: the test of the head, its load with what follows it, the store of the new head |
| `ReleaseRefused`, `Link`, `Push` | `remove_request`: the guard, the link to the head, the store of the head |
| `Prepare`, `LookupFails` | `get_port_index`, and `fcntl(F_SETFL)` before the ioctl |
| `Takes`, `Fails`, `TriesAgain`, `Sleeps` | the ioctl: a message, an error or timeout, `EAGAIN`, and sleep, the latter two by the descriptor's flag |
| `WaitCompleted` | `mcapi_wait` on a request that is complete |
| `JoinsBegin`, `JoinsLink` | another process initialises and links the list anew: the store of the head, then a step for every link (stub 432-441) |

`curr_count`, whose increments get lost as well, has no variable: the guard at stub 401 may go
either way. The history variables name what has gone wrong: `torn` (two edits of the list have
collided), `relinked` (the list was linked under its users, or a thread reserved while it was being linked), `overridden` (for whom another thread
set the flag between the two system calls), `moved` (whose endpoint was deleted between lookup and
driver call). The model ends once the list is torn or relinked; `HandlesStayApart` says that the
end does not come otherwise, so the model shows *which* interleavings the missing lock costs.
The flag the code writes is 1 or O_NONBLOCK + 1 whatever the descriptor had, because
`flags = fcntl(...) > 0` (dev 149) stores the comparison; the flag needs no more than its one bit.

**Endpoints.** `endpoints[i]` is the port of entry `i`, and the index is the driver's session.
The driver is external: it hands out the lowest free session, refuses a port that has one and
refuses when none is left. `num_endpoints` starts at 1 (stub 387), which fits a driver that
keeps session 0 for itself; `FirstSession` chooses between that and a driver that does not.
`num_endpoints` is a `uint16_t` that every create increments and nothing decrements (stub 921):
`CountSpan` is 65536 in the build, and `Wrapped` says that it has been counted up to 0. Once it
exceeds the array the scan goes on behind `endpoints[]`, over other nodes, buffers and requests, until
it finds its port. An index that it finds there is none that a caller takes for an endpoint; when it
finds nothing and `num_endpoints` counts more entries than are mapped (`MappedEntries`, 207 in the
build), the process reads behind the segment and dies (`LookupOverruns`). `NonBlocking`, `Threads` and
`Channels` look endpoints up as before the wrap. A client names an endpoint by the
handle that `Encode` makes of node and port; a delete decodes it and looks the port up.

**Database.** `pc[p]` is where process `p` is between two system calls or accesses to the
database. `shmid`, `db` and `entry` are `shmid`, `c_db` and the `n` of `add_node`; `nodes` and
`num_nodes` are the node table of a segment; `semaphore`, `key` and `attached` belong to the
kernel.

| Action | Code |
|---|---|
| `Initialize`, `InitializeAgain` | `mcapi_initialize` up to the semaphore: with `c_db` NULL, and by a process that has a `c_db`, one of the `Repeaters` without a finalize or any after one. `mcapi_trans_initialized` never stops it: a match breaks out of the loop into `return MCAPI_FALSE` (stub 734, 740), a mismatch returns at once (736). A process that finalize has detached reads memory that is not mapped, and dies |
| `CreateSemaphore`, `SetSemaphore`, `FindSemaphore` | `semget` that creates (stub 100), `SETVAL` (112), `semget` after `EEXIST` (103) |
| `Lock`, `Unlock` | stub 843 and 859 |
| `GetSegment`, `Attach`, `AttachFails`, `Stat` | `shmget` (165), `shmat` (145), the count and the zeroing (149-158) |
| `Link` | the request list is relinked; with `c_db` NULL the process cannot get past it |
| `ChooseEntry`, `AddNodeFails`, `Register` | `add_node`: the search, a FALSE that nobody looks at, the writes |
| `Finalize`, `Detach`, `Recount`, `Remove` | `shmget` (885), `shmdt` (185), the count (191), `IPC_RMID` (200) |
| `Die` | the process exits, is killed or reads memory that is not mapped |

`errno` is not cleared before stub 165, so that a segment just created may be looked up a second
time; the second lookup has the effect of the first, and `GetSegment` is one step. Two variables
are history only: `lost` (a process died that had to raise the semaphore) and `overlapped` (a
finalize removed a segment that a process was using or about to attach). `deaths` counts towards
the bound. The run does not check for deadlock: the system stops when all have finalised, and when
a process died with the semaphore.

**Channels.** The channel functions of `mcapi.c` return before they do anything; `Supported` says
whether they do. The run and the proofs take the code behind (`Supported = TRUE`; the theorems hold
for both), since the transport is compiled and what is behind the return is what a later version
would switch on. `exists`, `open`, `connected` and `recv_endpt` are an endpoint's fields; `link` and
`inbox` are the driver's session; `holds` and `ops` are the buffers and requests the client has.

| Action | Code |
|---|---|
| `PktchanConnectI`, `SclchanConnectI` | the parameter checks, which ask the driver about endpoints not marked connected (`channel_connected`, stub 635, `Learned`) and whose result is overwritten; then `connect_channel_internal` (dev 360) |
| `...OpenI`, `...CloseI` | the open mark; a close keeps the connection |
| `EndpointCreate`, `EndpointDelete` | mcapi.c 428 and 620: a create does not touch `connected` and `recv_endpt`, a delete is refused for an open channel only |
| `PktchanSend`, `PktchanSendI` | the packet goes to the recorded peer; the latter sets up a request it was never given |
| `PktchanRecv`, `PktchanRecvI`, `PktchanRecvFails` | a handle is reserved for a buffer; after a failure nobody has it |
| `PktchanRelease`, `PktchanReleaseAborts` | `pktchan_free`, which computes the handle from the address (`HandleOf`); an assertion when that is not reserved |
| `SclchanSend...`, `SclchanRecv...` | four sizes. `sm_send_scalar` sends a packet type, a constant of the driver's header, for the size (`ReadyType`, dev 182-195), and `mcapi_trans_sclchan_recv` switches on that type by 1, 2, 4 and 8 (stub 1813-1825). Whether they ever agree depends on the header, which is not here; a receive takes the scalar from the queue either way, and the value is not modelled |
| `PeerConnects`, `PeerDisconnects`, `PeerSends` | the driver and the other end (external) |
| `Obtain`, `GiveBack` | message operations, which use the same handles |

`stale` (the peer of a connected endpoint has gone), `robbed` and `overwritten` (buffers that
another release freed, buffers handed out twice) and `tainted` (a request that nobody reserved was
set up) are history. The model ends with `tainted`: nothing can be said of the records after it.

## 3. What is checked

| Run | Question | Bounds |
|---|---|---|
| `pool` | Is the free list sound, exclusive, an implementation of `HandlePool`; is exhaustion permanent? | 4 handles, 2 callers: empty, full and every order in between |
| `messages` | Does nothing leak, is each message delivered once and in order, and does every accepted send end? | 2 slots, one of which waits with timeouts, 3 requests (one more than can be open, so that a leak is a leak and not a full pool), 2 messages |
| `messages_faults` | Do operations own their records, is completion true, and is each message delivered once and in order, under driver errors and endpoint deletion? | 2 requests: errors leak requests until the pool is full; both slots with timeouts |
| `messages_misuse` | Does misuse corrupt the free list? No, although it releases requests of others. | all flags, 2 requests, 1 message |
| `timeout_keeps_request` | Is a request kept after a timeout, as documented? No. | 3 requests |
| `local_get_wait` | Does a thread always wait for its own operation? Not after a local `endpoint_get_i`. | 3 requests |
| `threads` | When do threads come to share a request, block against their mode or take another's message; does a non-blocking call return? | 2 threads, 2 requests (the list runs empty), 2 entries (an entry is used again by the other thread) |
| `threads_blocking` | Does a blocking receive block until there is a message? No. | the same |
| `endpoints` | Are live endpoints found, by scan and by handle, do database and driver agree, what does a refusal damage, and are creates and deletes edits of a set of ports? | 4 ports (one of more than 16 bits, two that differ in the upper byte only), 4 sessions, 9 creates: `num_endpoints` passes the array (4), the end of the memory (`MappedEntries` = 6) and its 3 bits (`CountSpan` = 8), with entries reused before and after |
| `database` | Does the lock exclude, is there one database, zeroed under nobody, is each node in it once and left out only of a full table, is the whole one table that only its members edit, does initialize end, and does a lost lock stay lost? | 3 processes, as many as one needs to find its segment removed under it and initialise again (one removes it, one has entry 0), one of which initialises again without a finalize (`Repeaters`), and one death or exit (`MaxDeaths`), at any step and with a restart after; 3 segments, which is enough for `GetSegment` always to find one; 2 entries |
| `database_entry` | Is a process that got `MCAPI_SUCCESS` in the database? No. | 2 processes, no deaths |
| `channels` | Do packets, the free list, the recorded peers and the entries survive every order of calls? | 2 ports, 3 requests (a buffer before and after the one released), one item in the queues (`MaxQueued`) |

The properties, beyond the type invariants:

- `FreeListSound`: there is one simple path from the head that visits exactly the handles that
  are not reserved. `LimitOnlyWhenAllReserved`, `ExclusiveHandles`, `ImplementsHandlePool` say
  what callers rely on. `ExhaustionIsPermanent` is what the guard at stub 401 does: once
  `curr_count` has reached `max_count` no release works any more.
- `OwnRecord`: a request variable that is still to be waited for names a reserved record that
  was set up for this operation, and `completed` says what the client was told. The assertions
  in test, wait and remove hold for it.
- `SuccessMeansDone`: an operation reported complete has its message, its endpoint, or its
  packet consumed.
- `NoLeak`: exactly the requests of operations not yet over are reserved. It needs the absence
  of `Faults` and `Deletes`: on an error, and on `MCAPI_ERR_ENDP_INVALID`, the code keeps the
  request reserved, and a client that got an error has no reason to wait.
- `ImplementsOperations`: refinement of `Operations`, where messages are in an inbox, in order,
  or in one buffer, and a buffer changes only in the step that reports its operation finished.
- `HandlesStayApart`: two threads share a request only after a store of the head by
  `reserve_request` while another thread is between its own load and store or about to push, after
  a push while another one reserves, or after an initialise under users. Overlapping releases alone
  may lose handles and never share one.
- `ModesKept`, `NonBlockingReturns`: a call blocks or is sent back against its mode only when the
  flag was set between its two system calls, and `mcapi_msg_recv_i` returns but for that.
  `OwnMessages`: a thread takes another endpoint's message only if its own endpoint was deleted
  after the lookup and the entry used again.
- `LiveEndpointsFound`: whatever was deleted and created again, the scan up to `num_endpoints` finds
  every endpoint, until the create that wraps `num_endpoints`, after which it finds none.
  `HandlesFindTheirEndpoint`: until then a handle finds its endpoint and no other unless the port
  has more than 16 bits. `EndpointsMatchSessions`, `AbortNeedsRefusal`: these hold after the wrap too.
  `RefusalHitsEntryZero`: what a dropped refusal (dev 42) breaks is entry 0.
  `ImplementsEndpointSet`: refinement of `EndpointSet`. Until the driver refuses a session, a create
  adds a port that was not there, a delete removes one port and no other, and the room for endpoints
  does not shrink however often they come and go; the driver refuses only a port that exists or an
  endpoint more than it has sessions for.
- `MutualExclusion`, although the semaphore is created with 0, set in a second step and found by
  others in between, and although processes die with it. `ZeroedOnlyAlone`: the count that tells
  the first to attach is changed by finalizes and crashes without the lock, and still a database
  in use is never zeroed. `OneDatabase`: processes that use the library share one segment and
  have it mapped; the removal at stub 200 without the lock is the one exception, and `overlapped`
  names it. `RegisteredOnce`: entries outlive their processes, and initialize can be called again,
  and still no node is in the table twice. `LostLockIsForGood`: a process that dies with the semaphore
  takes it along, and none of the unlocks of the others hands it to anybody, so that no process goes
  on with a database that the dead one was zeroing. `LeftOutOnlyWhenFull`: a process that is told
  MCAPI_SUCCESS without an entry found `num_nodes` at its limit, or entries were overwritten, which
  leaves `num_nodes` above the entries in use. `ImplementsTable`: refinement of `NodeTable`, which has no
  kernel objects and no counts. Who comes first finds an empty table, also when those before
  it died and left theirs behind; who comes later finds it as it is; and an entry is written only by a
  member that has none, with its own number (over another's, when both chose the entry:
  `database_entry`). A process with a database is a member from the count of the users on.
- `PacketsIntact`, `PoolSurvives`: a buffer is its client's until the client releases it, or until
  `pktchan_free` releases it for another (the address is rounded down before the base is
  subtracted, and `buffers[]` is not aligned); such releases never damage the list, because
  `remove_request` asserts. `PeerKnown`: three ways of learning the peer agree with the driver.
  `NoGhostChannel`: a port created again starts without a channel.

Two slots suffice for every interaction of operations through the pool, an inbox or a port: the
code touches one request and one endpoint per call, and a third slot adds nothing that two in
turn do not. A collision of two threads needs two; what a third adds is covered by the proofs, which
are for any number. Slots, messages and ports of channels are interchangeable (symmetry), except
where liveness is checked, and in the violation runs, whose traces are to be read.

**Fairness.** `NonBlocking`'s `FairSpec` assumes that the driver consumes packets (`Ack`), that it
wakes a call that can succeed or fail (`Unblock`), and that a thread with a request goes on to
`mcapi_wait` however long it tests (`Wait`), which is what the demo's threads do. Nothing is assumed
of messages arriving or of remote endpoints appearing, so nothing is promised for receives.

In `Threads`, a thread that can take a step inside the library takes one (`WF` of its `Steps`: it
waits for nothing but the driver). A sleeping `mcapi_msg_recv` is woken by a message only, and no
message need arrive.

In `Database`, a process inside `mcapi_initialize` goes on (`WF` of `Step`: no call in it but
the semaphore blocks), one that has no database dies of using it, and a process that waits for
the semaphore gets it if it is raised again and again (`SF` of `Lock`: the kernel wakes waiters
in the order they came). Nothing obliges a process to finalise, and any may die at any step;
`InitializeEnds` therefore makes an exception of a process that died with the lock, after which
the code does wait forever (no SEM_UNDO, stub 122).

The runs that do not check for deadlock are those whose system may stop: an assertion ends the
process (`endpoints`, `channels`), the model ends with a collision (`threads`), and all have finalised
or wait for a lost semaphore (`database`).

**Disagreements with the documentation.** The four violation runs are findings in `PROJECT.json`: a
timeout clears the request (stub 1961 against mcapi.c 2725); a local `endpoint_get_i` leaves the
request unset (stub 954 against mcapi.c 499); a blocking receive does not block when another thread
sets the flag (dev 156 against mcapi.c 887); `add_node` holds no lock where it says "lock the
database" (stub 302), so that two processes take the same entry. Others came up in modelling, and
are in the properties as the exceptions they make:

- a wait at the limit releases nothing (stub 401; `ExhaustionIsPermanent`), although
  tests/arm_sharc_msg_demo.c 187 says "use mcapi_wait to release request";
- a port can be created twice (stub 1023 and dev 42; `RefusalHitsEntryZero`), although mcapi.c 415
  has MCAPI_ERR_ENDP_EXISTS for it;
- after 65535 creates on one node, a live endpoint is not found, and its delete reports
  MCAPI_ERR_ENDP_INVALID, which by mcapi.c 609 means "Argument is not a valid endpoint descriptor.";
  before that, and after some 200 creates, the lookup of a port that has no endpoint may read behind
  the shared memory instead of reporting that (`LiveEndpointsFound`, `LookupOverruns`);
- the handle of a port of more than 16 bits does not find its endpoint, which can then not be
  deleted (`HandlesFindTheirEndpoint`);
- a connected endpoint can be deleted (`NoGhostChannel`), although mcapi.c 613 says "A channel is
  connected, deletion is not allowed".

## 4. What is proved

TLAPS proves, for every value of the constants under the named assumptions in the modules:

- `PoolProofs`. The invariant is types, `FreeListSound`, disjoint holders that hold reserved
  handles, and no more. `FreeListSound` is stated with a path as a witness, so that induction
  over the list is not needed: a reserve drops the path's last node, a remove appends one
  (`RequestPoolProofs`). From it follow `TypesAreKept` (`curr_count` stays in range, which
  needs the path to see that a reserved handle makes it positive), `FreeListStaysSound`,
  `HandlesAreExclusive`, `LimitMeansAllReserved`, the refinement `ListImplementsPool` and
  `FullPoolStaysFull`.
- `NonBlockingProofs`. For clients without the two misuses (`~ RetryAfterTimeout`,
  `~ LocalGets`), with any timeouts, errors and deletions: types, `FreeListSound` and
  `OwnRecord` are inductive together (`MessagesInvariant`). The core is that a handle just reserved is not in any
  request variable still in use (`ReservedHandleIsNew`), and that two open operations have
  different handles because their records name different operations (`ReleaseKeepsOthers`).
  With a misuse `OwnRecord` is false, which the violation runs show. For every client, with the
  misuses too, a smaller invariant (`PoolInv`) holds: types, `FreeListSound`, and that what a
  call in the driver waits for was looked up in the pool. It needs nothing of who owns which
  record, because the assertion of `remove_request` lets only reserved handles through, and gives
  `MessageTypes` and `MisuseKeepsFreeList` without an assumption on the client.
- `OperationsProofs`, on top of it and for the same clients. `AllSane` says of every operation that
  it has its result once it is reported finished, that its buffer is empty until then, and that a
  blocked call passed its own record to the driver; this gives `SuccessIsTrue`, and with
  `OwnRecord` every step of the interface is a step of `Operations` or stutters
  (`InterfaceImplementsOperations`). `NothingLeaks` needs more requests than operations: then no
  release is refused (a pigeonhole over the open operations), and without errors and deletions
  every way out of an operation is a release.
- `ThreadsProofs`. Overlapping releases leave handles that point into the list and that nothing
  points to, so there is no path to state; the invariant has instead a set of free handles, closed
  under `next_index` and containing the head, with a rank that falls along it. A reserve throws
  out of the set what ranks above the new head, and with it what overlapping releases have lost.
  What a thread has loaded is still the head and its successor as long as nothing collided
  (`Knows`). While a process links the list nobody has a request, and the links stored are those of a
  new list (`Relinking`), which is a `FreeSet` once the last is stored (`Relinked`). Hence
  `RequestsStayApart`. A second invariant (`CallInv`) ties flag, looked-up session
  and calls together, for `ModesAreKept`, `MessagesAreOwn` and `ThreadTypes`.
- `EndpointsProofs`. `LiveEndpointsFound` is not inductive: nothing in it stops the driver from
  answering with a session above `num_endpoints`. The strengthening says that every session in
  use also lies below `num_endpoints`, so that the lowest free session is at most
  `num_endpoints`, which `mcapi_trans_endpoint_create` then increments, as long as it does not wrap. `HandlesFind` adds the
  arithmetic of the handle (`HandleParts`) and that the driver gives a port one session at most
  (`OneSession`), from which `DamageStaysAtEntryZero` follows too. `EntriesImplementSet`, the
  refinement of `EndpointSet`, needs to count: the entries in use are in bijection with the live
  ports and lie above the driver's own sessions (`LiveCount`), so that no free session means that
  the set is full, and the port of a delete was in one entry (`PortInOneEntry`).
- `DatabaseProofs`, for any number of processes, segments and entries and crashes anywhere. The
  semaphore's value and its *owners*, the process between lock and unlock and the one between
  `semget` and `SETVAL`, add up to at most one; counting the second is what makes
  `MutualExclusion` inductive (`LockExcludes`). A process that uses the library is attached to
  what its `c_db` points to, so that the count in `Stat` is above one for a segment in use
  (`NoZeroingUnderUse`). Until a segment is removed under a user, whoever is attached or about to
  be has the segment that the key finds (`Shared`, for `DatabaseIsShared`). A process about to
  register is in no entry, and only it writes its number (`Unregistered`, for
  `NodesRegisterOnce`, which holds for a process that initialises again from any entry). A loss keeps
  the semaphore and its owners at nothing (`NobodyLocksAfterLoss`). `NobodyLeftOutOfRoom`
  needs that `num_nodes` is never below the number of entries in use (`CountsTaken`). The refinement of `NodeTable` (`ProcessesShareTable`) uses these
  and one more fact, that a process about to attach has no database (`Fresh`). Its hard step is
  `Stat`, where the count decides whether the process empties the table: the count is one exactly
  when there are no members (`StatJoins`).
- `ChannelsProofs`, for any number of ports and requests and for queues of any length. Requests and
  buffers (`PoolInv`) and entries with sessions (`EntryInv`) have an invariant each. `PeerKnown`
  is inductive once it also says that such an endpoint is connected in the driver, so that nobody
  else connects it.

Every safety property and every refinement of a passing run is a theorem. Only model-checked:
`SendsFinish`, `InitializeEnds` and `NonBlockingReturns`, because liveness under fairness is beyond
TLAPS.

## 5. Assumptions about what is not in the repository

The driver's source is not here. Assumed from the calls: an ioctl is atomic; `CMD_SM_RECV` and
`CMD_SM_WAIT` on a receive take the first message of the session's inbox, and with O_NONBLOCK fail
with EAGAIN when there is none; `CMD_SM_WAIT` on a send succeeds when the packet named by the payload
was consumed; a failed or timed out call moves nothing; shutting down a session discards its messages
and its connection; sessions are handed out from the lowest; a session is connected with one endpoint
at a time, from either side. An assertion that fails stops the process.

Of the Linux kernel: a segment is zero when it is created, is found by its key until IPC_RMID and
lives on while a process is attached; the number of a segment that is gone is not used again while
a process has it in a variable; a process that ends is detached, and its semaphore operations
stay. System calls fail only for the reasons the model has. Threads see each other's stores in the
order of the program, as on one core.

## 6. Not modelled, and the plan

Not modelled on purpose: `wait_any` and `cancel` (empty), attributes (single stores), parameter
checks and the statuses they set, sizes and truncation, debug output, channels with a peer on another
node (stub 665 records its port without its node) and a packet receive that reports success with no
request left (stub 1520). `mcapi_finalize` tests the result of `mcapi_trans_finalize` (mcapi.c 323),
which is a void function in the stub: the status it sets is undefined, and is not modelled.

Left in the plan:

1. The order of `add_node`'s writes, where an increment of `num_nodes` can be lost and the scans up
   to `num_nodes` miss a node (stub 373).
2. The NULL buffer and the old `errno` of the receive calls (stub 1247); the statuses of the
   parameter checks (mcapi.c 738).
3. Sends and endpoint queries in `Threads`, which today has the receive calls and the wait.
4. What follows a collision on the free list: which handles are lost and which are shared.
