------------------------------ MODULE Channels ------------------------------
(***************************************************************************)
(* Packet and scalar channels of the local node: connect, open, close,     *)
(* send, receive, release (mcapi.c, mcapi_trans_stub.c and the channel     *)
(* part of tran_impl_dev.c), with the deletion of endpoints, over the      *)
(* request pool, whose handles are also the indices of the packet buffers. *)
(*                                                                         *)
(* In this version every public channel function returns MCAPI_ERR_GENERAL *)
(* ("pktchan is not supported now") and the rest of its body is kept for   *)
(* the day it is: Supported = FALSE is the library as it is, in which no   *)
(* channel call does anything, and Supported = TRUE the code behind those  *)
(* returns.  The transport is compiled either way.                         *)
(*                                                                         *)
(* An endpoint is named by its port; Endpoints models the lookup of its    *)
(* index.  Peers are endpoints of the local node: of a peer on another     *)
(* node channel_connected records the port without the node, which names   *)
(* an endpoint of this one.  Calls do not overlap.  channel_type is only   *)
(* written, and the parameters that the functions never look at have no    *)
(* place here.                                                             *)
(***************************************************************************)
EXTENDS RequestPool, Sequences, FiniteSetsExt

CONSTANTS
  Ports,        \* ports of the local node
  NoEp,         \* a zeroed recv_endpt; a session that is not connected
  MaxQueued,    \* bound on what waits in the driver's queues together
  Supported,    \* whether the public functions go on after their first lines
  Misaligned    \* c_db->buffers is no multiple of MCAPI_MAX_MSG_SIZE: TRUE in the build

ASSUME ChannelsAssumption ==
  /\ NoEp \notin Ports
  /\ MaxQueued \in Nat
  /\ {Supported, Misaligned} \subseteq BOOLEAN

\* What a queue holds.
Packet == "packet"

\* pkt.type of a scalar of so many bytes, from the driver's header.
ReadyType(size) ==
  CASE size = 1 -> "SM_SESSION_SCALAR_READY_8"
    [] size = 2 -> "SM_SESSION_SCALAR_READY_16"
    [] size = 4 -> "SM_SESSION_SCALAR_READY_32"
    [] size = 8 -> "SM_SESSION_SCALAR_READY_64"

ScalarTypes == {ReadyType(size) : size \in {1, 2, 4, 8}}

Items == ScalarTypes \union {Packet}

VARIABLES
  exists,       \* the ports that have an endpoint
  open,         \* endpoints[p].open
  connected,    \* endpoints[p].connected
  recv_endpt,   \* endpoints[p].recv_queue.recv_endpt
  link,         \* driver: the endpoint that session p is connected with
  inbox,        \* driver: what waits at session p
  holds,        \* client: the packet buffers that it has not released
  ops,          \* client: the requests of its message operations
  aborted,      \* an assertion failed
  stale,        \* history: connected ports whose peer has gone
  robbed,       \* history: handles released by the release of another buffer
  overwritten,  \* history: buffers handed out while the client had them
  tainted       \* history: a request that was not reserved has been set up

entryVars == <<exists, open, connected, recv_endpt, stale>>
driverVars == <<link, inbox>>
clientVars == <<holds, ops, robbed, overwritten, tainted>>
vars == <<poolVars, entryVars, driverVars, clientVars, aborted>>

Init ==
  /\ PoolInit
  /\ exists = {} /\ stale = {}
  /\ open = [p \in Ports |-> FALSE]
  /\ connected = [p \in Ports |-> FALSE]
  /\ recv_endpt = [p \in Ports |-> NoEp]
  /\ link = [p \in Ports |-> NoEp]
  /\ inbox = [p \in Ports |-> <<>>]
  /\ holds = {} /\ ops = {} /\ robbed = {} /\ overwritten = {}
  /\ tainted = FALSE /\ aborted = FALSE

-----------------------------------------------------------------------------
(* The driver and the other end                                            *)

\* Another endpoint connects itself to the session of p.
PeerConnects(p, e) ==
  /\ p \in exists /\ e # p
  /\ link[p] = NoEp
  /\ link' = [link EXCEPT ![p] = e]
  /\ UNCHANGED <<poolVars, entryVars, inbox, clientVars, aborted>>

\* The library is not told.
PeerDisconnects(p) ==
  /\ link[p] # NoEp
  /\ link' = [link EXCEPT ![p] = NoEp]
  /\ stale' = IF connected[p] THEN stale \union {p} ELSE stale
  /\ UNCHANGED <<poolVars, exists, open, connected, recv_endpt, inbox, clientVars, aborted>>

Waiting == MapThenSumSet(LAMBDA p : Len(inbox[p]), Ports)

\* Item x is queued at the session of e, when e is local and there is room.
Queued(e, x) ==
  IF e \in exists /\ Waiting < MaxQueued
    THEN inbox' = [inbox EXCEPT ![e] = Append(@, x)]
    ELSE UNCHANGED inbox

PeerSends(p, x) ==
  /\ Queued(p, x)
  /\ UNCHANGED <<poolVars, entryVars, link, clientVars, aborted>>

-----------------------------------------------------------------------------
(* Connections                                                             *)

\* mcapi_trans_channel_connected: for an endpoint that is not marked connected the
\* driver is asked, and its answer kept in the entry.  The call may fail.
Asks(p) == p \in exists /\ ~ connected[p] /\ link[p] # NoEp

\* The entries that mcapi_pktchan_connect_i(p, e) marks while it checks its
\* parameters: e is only looked at when p turns out not to be connected.
Learned(p, e) ==
  IF p \notin exists \/ connected[p] THEN {{}}
  ELSE {L \in SUBSET {p, e} :
          /\ \A q \in L : Asks(q)
          /\ p \in L => e \notin L}

\* Mutant: the entry is updated whatever the driver answers.
ConnectChannelUnchecked(p, e, L) ==
  \E accepted \in BOOLEAN :
    LET c == p \in exists /\ accepted
        m == p \in exists
    IN
    /\ link' = IF c THEN [link EXCEPT ![p] = e] ELSE link
    /\ connected' = [q \in Ports |-> connected[q] \/ q \in L \/ (m /\ q = p)]
    /\ recv_endpt' = [q \in Ports |->
         IF m /\ q = p THEN e ELSE IF q \in L THEN link[q] ELSE recv_endpt[q]]
    /\ stale' = IF c THEN stale \ {p} ELSE stale

\* mcapi_trans_connect_channel_internal, after L was learned.  It is called whatever
\* the checks have found, its caller overwrites their status with success, and it
\* reports neither a missing port nor a driver that refuses.
ConnectChannel(p, e, L) ==
  \E accepted \in BOOLEAN :
    LET c == p \in exists /\ accepted IN
    /\ link' = IF c THEN [link EXCEPT ![p] = e] ELSE link
    /\ connected' = [q \in Ports |-> connected[q] \/ q \in L \/ (c /\ q = p)]
    /\ recv_endpt' = [q \in Ports |->
         IF c /\ q = p THEN e ELSE IF q \in L THEN link[q] ELSE recv_endpt[q]]
    /\ stale' = IF c THEN stale \ {p} ELSE stale

PktchanConnectI(p, e) ==
  /\ Supported
  /\ \E L \in Learned(p, e) : ConnectChannel(p, e, L)
  /\ UNCHANGED <<poolVars, exists, open, inbox, clientVars, aborted>>

SclchanConnectI(p, e) ==
  /\ Supported
  /\ \E L \in Learned(p, e) : ConnectChannel(p, e, L)
  /\ UNCHANGED <<poolVars, exists, open, inbox, clientVars, aborted>>

\* The transport's open functions, for an endpoint that passed
\* mcapi_trans_valid_endpoint.  No request is set up, and nothing asks whether the
\* endpoint is connected or with what type.
Open(p) ==
  /\ p \in exists
  /\ open' = [open EXCEPT ![p] = TRUE]
  /\ UNCHANGED <<poolVars, exists, connected, recv_endpt, stale, driverVars, clientVars, aborted>>

PktchanRecvOpenI(p) == Supported /\ Open(p)
PktchanSendOpenI(p) == Supported /\ Open(p)
SclchanRecvOpenI(p) == Supported /\ Open(p)
SclchanSendOpenI(p) == Supported /\ Open(p)

\* The transport's close functions, after the isopen check: the mark goes, the
\* connection stays.
Close(p) ==
  /\ p \in exists
  /\ open[p]
  /\ open' = [open EXCEPT ![p] = FALSE]
  /\ UNCHANGED <<poolVars, exists, connected, recv_endpt, stale, driverVars, clientVars, aborted>>

PktchanRecvCloseI(p) == Supported /\ Close(p)
PktchanSendCloseI(p) == Supported /\ Close(p)
SclchanRecvCloseI(p) == Supported /\ Close(p)
SclchanSendCloseI(p) == Supported /\ Close(p)

\* mcapi_endpoint_create; connected and recv_endpt are not among what it sets.
EndpointCreate(p) ==
  /\ p \notin exists
  /\ exists' = exists \union {p}
  /\ open' = [open EXCEPT ![p] = FALSE]
  /\ UNCHANGED <<poolVars, connected, recv_endpt, stale, driverVars, clientVars, aborted>>

\* Mutant: the entry is marked free and not cleared.
EndpointDeleteKeeps(p) ==
  /\ p \in exists
  /\ ~ open[p]
  /\ exists' = exists \ {p}
  /\ link' = [link EXCEPT ![p] = NoEp]
  /\ inbox' = [inbox EXCEPT ![p] = <<>>]
  /\ UNCHANGED <<poolVars, open, connected, recv_endpt, stale, clientVars, aborted>>

\* mcapi_endpoint_delete: an endpoint that is open stays (MCAPI_ERR_CHAN_OPEN).
EndpointDelete(p) ==
  /\ p \in exists
  /\ ~ open[p]
  /\ exists' = exists \ {p}
  /\ connected' = [connected EXCEPT ![p] = FALSE]
  /\ recv_endpt' = [recv_endpt EXCEPT ![p] = NoEp]
  /\ stale' = stale \ {p}
  /\ link' = [link EXCEPT ![p] = NoEp]
  /\ inbox' = [inbox EXCEPT ![p] = <<>>]
  /\ UNCHANGED <<poolVars, open, clientVars, aborted>>

-----------------------------------------------------------------------------
(* Packets                                                                 *)

\* The driver takes the packet for the recorded peer, or refuses it.
Sent(p, x) ==
  /\ p \in exists
  /\ Queued(recv_endpt[p], x) \/ UNCHANGED inbox

PktchanSend(p) ==
  /\ Supported
  /\ Sent(p, Packet)
  /\ UNCHANGED <<poolVars, entryVars, link, clientVars, aborted>>

\* setup_request_internal on the caller's request variable, which neither
\* pktchan_send_i nor pktchan_recv_i has assigned: g is whatever it held, r the handle
\* that the call has reserved, if any.
SetUpUnassigned(g, r) ==
  /\ valid' = [h \in Requests |-> valid[h] \/ h \in {g, r}]
  /\ tainted' = (g # r)

PktchanSendI(p, g) ==
  /\ Supported
  /\ Sent(p, Packet)
  /\ SetUpUnassigned(g, None)
  /\ UNCHANGED <<next_index, empty_head_index, curr_count, entryVars, link,
                 holds, ops, robbed, overwritten, aborted>>

HasPacket(p) == inbox[p] # <<>> /\ Head(inbox[p]) = Packet

\* The client is given the packet in buffers[r].
Given(p, r) ==
  /\ HasPacket(p)
  /\ inbox' = [inbox EXCEPT ![p] = Tail(@)]
  /\ holds' = holds \union {r}
  /\ overwritten' = overwritten \union ({r} \intersect holds)

\* Mutant: the packet is put into the first free buffer, which stays free.
PktchanRecvUnreserved(p, r) ==
  /\ Supported
  /\ p \in exists
  /\ r = empty_head_index
  /\ Given(p, r)
  /\ UNCHANGED <<poolVars, entryVars, link, ops, robbed, tainted, aborted>>

\* The handle that is reserved stands for the buffer until it is released.
PktchanRecv(p, r) ==
  /\ Supported
  /\ p \in exists
  /\ Reserve(r)
  /\ Given(p, r)
  /\ UNCHANGED <<entryVars, link, ops, robbed, tainted, aborted>>

\* The driver fails, or has nothing for pktchan_recv_i: the handle stays reserved
\* and nobody knows it.
PktchanRecvFails(p, r) ==
  /\ Supported
  /\ p \in exists
  /\ Reserve(r)
  /\ UNCHANGED <<entryVars, driverVars, clientVars, aborted>>

\* r is reserved and then another request, g, is set up.
PktchanRecvI(p, r, g) ==
  /\ Supported
  /\ p \in exists
  /\ empty_head_index # None
  /\ r = empty_head_index
  /\ empty_head_index' = next_index[r]
  /\ curr_count' = curr_count + 1
  /\ SetUpUnassigned(g, r)
  /\ Given(p, r)
  /\ UNCHANGED <<next_index, entryVars, link, ops, robbed, aborted>>

\* The handle that mcapi_trans_pktchan_free computes for buffers[r].  The address is
\* rounded down to a multiple of the buffer size before the address of buffers[0]
\* is subtracted.
HandleOf(r) == IF Misaligned THEN r - 1 ELSE r

\* Mutant: a handle that is not reserved is released all the same.
PktchanReleaseUnchecked(r) ==
  /\ Supported
  /\ r \in holds
  /\ HandleOf(r) \in Requests
  /\ RemoveUnchecked(HandleOf(r))
  /\ holds' = holds \ {r}
  /\ robbed' = robbed \union ({HandleOf(r)} \ {r})
  /\ overwritten' = overwritten \ {r}
  /\ UNCHANGED <<entryVars, driverVars, ops, tainted, aborted>>

PktchanRelease(r) ==
  /\ Supported
  /\ r \in holds
  /\ HandleOf(r) \in Requests
  /\ Release(HandleOf(r))
  /\ holds' = holds \ {r}
  /\ robbed' = robbed \union ({HandleOf(r)} \ {r})
  /\ overwritten' = overwritten \ {r}
  /\ UNCHANGED <<entryVars, driverVars, ops, tainted, aborted>>

\* remove_request asserts that the handle is reserved; for buffers[0] the index wraps
\* to one far behind the array.
PktchanReleaseAborts(r) ==
  /\ Supported
  /\ r \in holds
  /\ HandleOf(r) \notin Held
  /\ aborted' = TRUE
  /\ UNCHANGED <<poolVars, entryVars, driverVars, clientVars>>

-----------------------------------------------------------------------------
(* Scalars                                                                 *)

\* mcapi_trans_sclchan_send reports success whatever the driver said.
SclchanSend(p, size) ==
  /\ Supported
  /\ Sent(p, ReadyType(size))
  /\ UNCHANGED <<poolVars, entryVars, link, clientVars, aborted>>

SclchanSendUint64(p) == SclchanSend(p, 8)
SclchanSendUint32(p) == SclchanSend(p, 4)
SclchanSendUint16(p) == SclchanSend(p, 2)
SclchanSendUint8(p) == SclchanSend(p, 1)

\* The receiver compares the type of the scalar with 1, 2, 4 and 8, as if it were the
\* size, and with the size expected, and reports MCAPI_ERR_SCL_SIZE when they differ.
\* Whatever it reports, the scalar is taken from the queue.
SclchanRecv(p, size) ==
  /\ Supported
  /\ p \in exists
  /\ inbox[p] # <<>> /\ Head(inbox[p]) \in ScalarTypes
  /\ inbox' = [inbox EXCEPT ![p] = Tail(@)]
  /\ UNCHANGED <<poolVars, entryVars, link, clientVars, aborted>>

SclchanRecvUint64(p) == SclchanRecv(p, 8)
SclchanRecvUint32(p) == SclchanRecv(p, 4)
SclchanRecvUint16(p) == SclchanRecv(p, 2)
SclchanRecvUint8(p) == SclchanRecv(p, 1)

-----------------------------------------------------------------------------
(* Message operations, which use the same handles                          *)

Obtain(r) ==
  /\ Reserve(r)
  /\ ops' = ops \union {r}
  /\ UNCHANGED <<entryVars, driverVars, holds, robbed, overwritten, tainted, aborted>>

\* mcapi_wait: a handle that is not valid is rejected with MCAPI_ERR_REQUEST_INVALID.
GiveBack(r) ==
  /\ r \in ops
  /\ IF valid[r] THEN Release(r) ELSE UNCHANGED poolVars
  /\ ops' = ops \ {r}
  /\ UNCHANGED <<entryVars, driverVars, holds, robbed, overwritten, tainted, aborted>>

-----------------------------------------------------------------------------
Driver(p) ==
  \/ \E e \in Ports : PeerConnects(p, e)
  \/ PeerDisconnects(p)
  \/ \E x \in Items : PeerSends(p, x)

Connection(p) ==
  \/ \E e \in Ports \ {p} : PktchanConnectI(p, e) \/ SclchanConnectI(p, e)
  \/ PktchanRecvOpenI(p) \/ PktchanSendOpenI(p)
  \/ SclchanRecvOpenI(p) \/ SclchanSendOpenI(p)
  \/ PktchanRecvCloseI(p) \/ PktchanSendCloseI(p)
  \/ SclchanRecvCloseI(p) \/ SclchanSendCloseI(p)
  \/ EndpointCreate(p) \/ EndpointDelete(p)

Packets(p) ==
  \/ PktchanSend(p)
  \/ \E r \in Requests : PktchanRecv(p, r) \/ PktchanRecvFails(p, r)
  \/ \E g \in Requests : PktchanSendI(p, g) \/ \E r \in Requests : PktchanRecvI(p, r, g)

Scalars(p) ==
  \/ SclchanSendUint64(p) \/ SclchanSendUint32(p)
  \/ SclchanSendUint16(p) \/ SclchanSendUint8(p)
  \/ SclchanRecvUint64(p) \/ SclchanRecvUint32(p)
  \/ SclchanRecvUint16(p) \/ SclchanRecvUint8(p)

\* The model ends with a failed assertion, and where a request was set up that nobody
\* reserved: nothing is said of what comes after.
Next ==
  /\ ~ aborted /\ ~ tainted
  /\ \/ \E p \in Ports : Driver(p) \/ Connection(p) \/ Packets(p) \/ Scalars(p)
     \/ \E r \in Requests :
          PktchanRelease(r) \/ PktchanReleaseAborts(r) \/ Obtain(r) \/ GiveBack(r)

Spec == Init /\ [][Next]_vars

-----------------------------------------------------------------------------
\* The entries, the driver's sessions and the client's buffers keep their types.
TypeOK ==
  /\ PoolTypeOK
  /\ exists \subseteq Ports /\ stale \subseteq Ports
  /\ open \in [Ports -> BOOLEAN] /\ connected \in [Ports -> BOOLEAN]
  /\ recv_endpt \in [Ports -> Ports \union {NoEp}]
  /\ link \in [Ports -> Ports \union {NoEp}]
  /\ inbox \in [Ports -> Seq(Items)]
  /\ {holds, ops, robbed, overwritten} \subseteq SUBSET Requests
  /\ {tainted, aborted} \subseteq BOOLEAN

\* A packet that the client was given stays as it is until the client releases it,
\* and no message operation gets its handle (mcapi_trans_pktchan_recv hands out
\* buffers[i] for a reserved i): the one exception is the release of the buffer
\* behind it, which in a build with unaligned buffers releases this one
\* (mcapi_trans_pktchan_free).
PacketsIntact ==
  ~ tainted => \A r \in Requests \ robbed :
    /\ r \in holds => valid[r] /\ r \notin ops /\ r \notin overwritten
    /\ r \in ops => valid[r]

\* Releasing the wrong buffers never damages the list of free handles: what
\* remove_request does not find reserved stops the process instead.
PoolSurvives == ~ tainted => FreeListSound

\* While its peer stays, an endpoint that is marked connected has the peer recorded
\* that the driver connected it with: by its own connect, by a connect that the driver
\* refused, or by a connection from outside that channel_connected found out about.
PeerKnown ==
  \A p \in Ports \ stale : connected[p] => recv_endpt[p] = link[p]

\* Nothing of a channel outlives its endpoint, so that a port that is created again
\* starts without one; and an endpoint is not deleted while its channel is open.
NoGhostChannel ==
  \A p \in Ports \ exists :
    ~ open[p] /\ ~ connected[p] /\ recv_endpt[p] = NoEp /\ inbox[p] = <<>>
=============================================================================
