----------------------------- MODULE Endpoints ------------------------------
(***************************************************************************)
(* The endpoints of the local node: mcapi_endpoint_create and              *)
(* mcapi_endpoint_delete with mcapi_trans_get_port_index, the lookup that  *)
(* every message operation starts with (mcapi_trans_stub.c).               *)
(*                                                                         *)
(* The index of an endpoint in the database is the index of its session    *)
(* in the driver.  The driver is external: it hands out the lowest free    *)
(* session, refuses a port that has one, and refuses when it has none      *)
(* left.  Sessions below FirstSession are its own; num_endpoints starts    *)
(* at 1 for such a session.  Every create counts it up, no delete counts   *)
(* it down, and it has 16 bits.                                            *)
(*                                                                         *)
(* A client names an endpoint by a handle, 8 bits of domain, 8 of node and *)
(* 16 of port, while a port is an unsigned int that nobody checks.         *)
(***************************************************************************)
EXTENDS Integers

CONSTANTS
  Ports,           \* values of mcapi_port_t that clients use
  LocalNode,       \* node number of the process
  MaxEndpoints,    \* MCAPI_MAX_ENDPOINTS, 32 in the build
  FirstSession,    \* 0, or 1 when the driver keeps session 0
  CountSpan,       \* values of num_endpoints, a uint16_t: 65536 in the build
  MappedEntries,   \* entries from endpoints[0] to the end of the shared memory, 207 in
                   \* the build: a read behind them need not be of mapped memory
  MaxCreates,      \* bound on the calls of mcapi_endpoint_create
  NoPort, Driver

ASSUME EndpointsAssumption ==
  /\ MaxEndpoints \in Nat \ {0} /\ FirstSession \in {0, 1} /\ MaxCreates \in Nat
  /\ CountSpan \in Nat /\ MappedEntries \in Nat
  /\ MaxEndpoints <= MappedEntries /\ MappedEntries < CountSpan
  /\ Ports \subseteq Nat /\ LocalNode \in Nat
  /\ NoPort \notin Nat /\ Driver \notin Nat \union {NoPort}

Indices == 0 .. MaxEndpoints - 1

VARIABLES
  endpoints,       \* endpoints[i]: its port_num, or NoPort while not valid
  num_endpoints,
  sessions,        \* driver: who has session i, NoPort for nobody
  refused,         \* the driver has refused a session
  aborted,         \* an assertion failed
  overran,         \* the process died of a read behind the shared memory
  creates          \* counts the calls that succeeded

vars == <<endpoints, num_endpoints, sessions, refused, aborted, overran, creates>>

Alive == ~ aborted /\ ~ overran

\* Mutant: num_endpoints starts at 0.
InitCountsNone ==
  /\ endpoints = [i \in Indices |-> NoPort]
  /\ num_endpoints = 0
  /\ sessions = [i \in Indices |-> IF i < FirstSession THEN Driver ELSE NoPort]
  /\ refused = FALSE
  /\ aborted = FALSE
  /\ overran = FALSE
  /\ creates = 0

\* What mcapi_trans_add_node leaves.
Init ==
  /\ endpoints = [i \in Indices |-> NoPort]
  /\ num_endpoints = 1
  /\ sessions = [i \in Indices |-> IF i < FirstSession THEN Driver ELSE NoPort]
  /\ refused = FALSE
  /\ aborted = FALSE
  /\ overran = FALSE
  /\ creates = 0

-----------------------------------------------------------------------------
(* Handles                                                                 *)

PortSpan == 65536     \* MCAPI_PORT_MASK + 1
NodeSpan == 256       \* MCAPI_NODE_MASK + 1

\* Mutant: the port gets the 8 bits of the node.
EncodeNarrow(n, p) == (n % NodeSpan) * PortSpan + (p % NodeSpan)

\* mcapi_trans_encode_handle_internal, with domain 0 as in every call.
Encode(n, p) == (n % NodeSpan) * PortSpan + (p % PortSpan)

\* mcapi_trans_decode_handle_internal
NodeOf(h) == (h \div PortSpan) % NodeSpan
PortOf(h) == h % PortSpan

MasterNode == 0       \* MASTER_NODE_NUM

-----------------------------------------------------------------------------
\* The entries of endpoints[] that mcapi_trans_get_port_index looks at.  When
\* num_endpoints is larger than the array it goes on behind it until it finds the port:
\* a match there, in the bytes of other nodes, buffers and requests, is an index that no
\* caller takes for an endpoint, and LookupOverruns is the end of the memory.
Scanned == {i \in Indices : i < num_endpoints}

First(i, S) == i \in S /\ \A j \in S : i <= j

PortIndex(p, i) == First(i, {j \in Scanned : endpoints[j] = p})

\* mcapi_trans_valid_endpoint and the lookup by node and port of a handle.
Finds(h, i) ==
  /\ NodeOf(h) = MasterNode /\ NodeOf(h) = LocalNode
  /\ PortIndex(PortOf(h), i)

\* The lookup of a port that has no endpoint reads as many entries as num_endpoints says.
LookupOverruns(p) ==
  /\ Alive
  /\ LocalNode = MasterNode
  /\ \A i \in Indices : ~ Finds(Encode(LocalNode, p), i)
  /\ num_endpoints > MappedEntries
  /\ overran' = TRUE
  /\ UNCHANGED <<endpoints, num_endpoints, sessions, refused, aborted, creates>>

FreeSessions == {i \in Indices : sessions[i] = NoPort}

Refuses(p) == FreeSessions = {} \/ \E i \in Indices : sessions[i] = p

\* sm_create_session ignores the result of the ioctl: after a refusal it returns
\* the 0 that it cleared the packet with.
SessionCreated(p, i) ==
  IF Refuses(p)
    THEN i = 0 /\ refused' = TRUE /\ UNCHANGED sessions
    ELSE /\ First(i, FreeSessions)
         /\ sessions' = [sessions EXCEPT ![i] = p]
         /\ UNCHANGED refused

\* num_endpoints++
CountUp(n) == IF n = CountSpan - 1 THEN 0 ELSE n + 1

\* mcapi_trans_endpoint_exists and mcapi_trans_num_endpoints answer FALSE and 0, so
\* that no call is refused before this.
Create(p, i) ==
  /\ Alive
  /\ creates < MaxCreates
  /\ SessionCreated(p, i)
  /\ endpoints[i] = NoPort
  /\ endpoints' = [endpoints EXCEPT ![i] = p]
  /\ num_endpoints' = CountUp(num_endpoints)
  /\ creates' = creates + 1
  /\ UNCHANGED <<aborted, overran>>

\* assert(endpoints[endpoint_index].valid == MCAPI_FALSE)
CreateAborts(p, i) ==
  /\ Alive
  /\ creates < MaxCreates
  /\ SessionCreated(p, i)
  /\ endpoints[i] # NoPort
  /\ aborted' = TRUE
  /\ UNCHANGED <<endpoints, num_endpoints, overran, creates>>

\* Mutant: num_endpoints follows the number of endpoints.
DeleteCounts(p, i) ==
  /\ Alive
  /\ Finds(Encode(LocalNode, p), i)
  /\ endpoints' = [endpoints EXCEPT ![i] = NoPort]
  /\ sessions' = [sessions EXCEPT ![i] = NoPort]
  /\ num_endpoints' = num_endpoints - 1
  /\ UNCHANGED <<refused, aborted, overran, creates>>

\* Mutant: the entry is not cleared.
DeleteKeepsEntry(p, i) ==
  /\ Alive
  /\ Finds(Encode(LocalNode, p), i)
  /\ sessions' = [sessions EXCEPT ![i] = NoPort]
  /\ UNCHANGED <<endpoints, num_endpoints, refused, aborted, overran, creates>>

\* Mutant: the session is not shut down.
DeleteKeepsSession(p, i) ==
  /\ Alive
  /\ Finds(Encode(LocalNode, p), i)
  /\ endpoints' = [endpoints EXCEPT ![i] = NoPort]
  /\ UNCHANGED <<num_endpoints, sessions, refused, aborted, overran, creates>>

\* mcapi_endpoint_delete with the handle that a create of port p returned.  A port
\* that is not found is reported as MCAPI_ERR_ENDP_INVALID.  num_endpoints stays.  The
\* driver shuts down session i, whoever has it.
Delete(p, i) ==
  /\ Alive
  /\ Finds(Encode(LocalNode, p), i)
  /\ endpoints' = [endpoints EXCEPT ![i] = NoPort]
  /\ sessions' = [sessions EXCEPT ![i] = NoPort]
  /\ UNCHANGED <<num_endpoints, refused, aborted, overran, creates>>

Next ==
  \/ \E p \in Ports, i \in Indices :
       Create(p, i) \/ CreateAborts(p, i) \/ Delete(p, i)
  \/ \E p \in Ports : LookupOverruns(p)

Spec == Init /\ [][Next]_vars

-----------------------------------------------------------------------------
\* num_endpoints has been counted up to 0.
Wrapped == creates >= CountSpan - 1

\* The database and the driver's table keep their types, and num_endpoints starts at 1
\* and counts the creates until it wraps.
TypeOK ==
  /\ endpoints \in [Indices -> Ports \union {NoPort}]
  /\ num_endpoints \in 0 .. CountSpan - 1
  /\ ~ Wrapped => num_endpoints = creates + 1
  /\ sessions \in [Indices -> Ports \union {NoPort, Driver}]
  /\ {refused, aborted, overran} \subseteq BOOLEAN
  /\ creates \in 0 .. MaxCreates

\* An endpoint that was created and not deleted is found by
\* mcapi_trans_get_port_index, whatever was deleted before it, until the 16 bits of
\* num_endpoints wrap.  (The create that wraps them leaves 0, and the scan finds none of
\* the endpoints of the node.)
LiveEndpointsFound ==
  ~ Wrapped => \A i \in Indices : endpoints[i] # NoPort => i \in Scanned

\* On node 0 and until num_endpoints wraps, the handle that mcapi_endpoint_create
\* returned finds the endpoint and no other, unless the port does not fit in 16 bits.
\* (The handle of a wider one finds another endpoint, or none, and the endpoint can
\* never be deleted.)
HandlesFindTheirEndpoint ==
  ~ refused /\ ~ Wrapped /\ LocalNode = MasterNode =>
    \A i, j \in Indices :
      endpoints[i] # NoPort /\ endpoints[i] < PortSpan =>
        (Finds(Encode(LocalNode, endpoints[i]), j) <=> j = i)

\* Until the driver refuses a session, the sessions of the driver that are not its
\* own are those of the endpoints: none is leaked, and none is shut down that
\* belongs to another port.
EndpointsMatchSessions ==
  ~ refused =>
    \A i \in Indices : sessions[i] =
      IF i < FirstSession THEN Driver ELSE endpoints[i]

\* Until the driver refuses a session no create runs into the assertion.
AbortNeedsRefusal == aborted => refused

\* What a refusal breaks is entry 0 alone: every other entry has its own session, and
\* of two endpoints with one port, which a create of a port that exists leaves instead
\* of MCAPI_ERR_ENDP_EXISTS (mcapi.c:415), one is in entry 0.
RefusalHitsEntryZero ==
  /\ \A i \in Indices \ {0} : sessions[i] = endpoints[i]
  /\ \A i, j \in Indices : endpoints[i] = endpoints[j] /\ endpoints[i] # NoPort => i = j \/ 0 \in {i, j}

\* The ports that have an endpoint.
LivePorts ==
  IF refused THEN {} ELSE {endpoints[i] : i \in Indices} \ {NoPort}

\* For the calls that look ports up, creates and deletes edit a set of ports: a delete
\* removes one port and no other, and the room for endpoints does not shrink however often
\* they are created and deleted.  The driver refuses only a port that exists or one
\* endpoint too many.
Directory == INSTANCE EndpointSet WITH
  Capacity <- MaxEndpoints - FirstSession, live <- LivePorts, broken <- refused

ImplementsEndpointSet == Directory!Spec
=============================================================================
