--------------------------- MODULE ChannelsProofs ---------------------------
(***************************************************************************)
(* For every number of ports and of requests, and with queues of any       *)
(* length: the list of free requests survives the release of wrong         *)
(* buffers, a packet stays intact until it is released or robbed, an       *)
(* endpoint that is marked connected knows its peer, and no channel        *)
(* outlives its endpoint.                                                  *)
(*                                                                         *)
(* The requests and buffers (PoolInv) and the entries with their sessions  *)
(* (EntryInv) have an invariant each; no action needs the other one.       *)
(***************************************************************************)
EXTENDS Channels, RequestPoolProofs

PoolInv ==
  /\ PoolTypeOK
  /\ holds \subseteq Requests /\ ops \subseteq Requests
  /\ robbed \subseteq Requests /\ overwritten \subseteq Requests
  /\ tainted \in BOOLEAN /\ aborted \in BOOLEAN
  /\ PoolSurvives
  /\ PacketsIntact
  /\ overwritten \subseteq holds

\* PeerKnown, with what makes it inductive: such an endpoint is connected in the driver,
\* so that nobody else connects it.
Known ==
  \A p \in Ports \ stale :
    connected[p] => recv_endpt[p] = link[p] /\ link[p] # NoEp

EntryTypes ==
  /\ exists \subseteq Ports /\ stale \subseteq Ports
  /\ open \in [Ports -> BOOLEAN] /\ connected \in [Ports -> BOOLEAN]
  /\ recv_endpt \in [Ports -> Ports \union {NoEp}]
  /\ link \in [Ports -> Ports \union {NoEp}]
  /\ inbox \in [Ports -> Seq(Items)]

EntryInv == EntryTypes /\ Known /\ NoGhostChannel

-----------------------------------------------------------------------------
(* Requests and buffers                                                    *)

LEMMA PoolInvInit ==
  ASSUME Init
  PROVE  PoolInv
BY PoolInitSound DEF Init, PoolInv, PoolSurvives, PacketsIntact

LEMMA PoolFrame ==
  ASSUME PoolInv, UNCHANGED <<poolVars, clientVars>>, aborted' \in BOOLEAN
  PROVE  PoolInv'
<1>1. PoolTypeOK' /\ UNCHANGED <<valid, holds, ops, robbed, overwritten, tainted>>
  BY DEF PoolInv, PoolTypeOK, poolVars, clientVars
<1>2. PoolSurvives'
  BY <1>1, PoolUnchanged DEF PoolInv, PoolSurvives
<1> QED
  BY <1>1, <1>2 DEF PoolInv, PacketsIntact

\* A handle that is reserved is nobody's, or was robbed.
LEMMA ReserveKeeps ==
  ASSUME PoolInv, ~ tainted, NEW r \in Requests, Reserve(r),
         UNCHANGED <<robbed, tainted, aborted>>,
         \/ UNCHANGED <<holds, ops, overwritten>>
         \/ holds' = holds \union {r} /\ overwritten' = overwritten \union ({r} \intersect holds)
            /\ UNCHANGED ops
         \/ ops' = ops \union {r} /\ UNCHANGED <<holds, overwritten>>
  PROVE  PoolInv'
<1>1. PoolTypeOK' /\ FreeListSound'
  BY ReserveKeepsListSound DEF PoolInv, PoolSurvives
<1>2. ~ valid[r]
  BY HeadIsFree DEF PoolInv, PoolSurvives, Reserve
<1>3. r \notin robbed => r \notin holds /\ r \notin ops /\ r \notin overwritten
  BY <1>2 DEF PoolInv, PacketsIntact
<1>4. valid' = [valid EXCEPT ![r] = TRUE] /\ valid \in [Requests -> BOOLEAN]
  BY DEF Reserve, PoolInv, PoolTypeOK
<1>5. ASSUME NEW s \in Requests \ robbed
      PROVE  /\ s \in holds' => valid'[s] /\ s \notin ops' /\ s \notin overwritten'
             /\ s \in ops' => valid'[s]
  <2>1. /\ s \in holds => valid[s] /\ s \notin ops /\ s \notin overwritten
        /\ s \in ops => valid[s]
    BY DEF PoolInv, PacketsIntact
  <2>2. CASE s = r
    <3>1. valid'[s] /\ s \notin holds /\ s \notin ops /\ s \notin overwritten
      BY <1>3, <1>4, <2>2
    <3> QED
      BY <3>1
  <2>3. CASE s # r
    <3>1. /\ valid[s] => valid'[s]
          /\ s \in holds' => s \in holds
          /\ s \in ops' => s \in ops
          /\ s \in overwritten' => s \in overwritten
      BY <1>4, <2>3
    <3> QED
      BY <2>1, <3>1
  <2> QED
    BY <2>2, <2>3
<1>6. PacketsIntact'
  BY <1>5 DEF PacketsIntact
<1>7. /\ holds' \subseteq Requests /\ ops' \subseteq Requests
      /\ robbed' \subseteq Requests /\ overwritten' \subseteq holds'
  BY DEF PoolInv
<1> QED
  BY <1>1, <1>6, <1>7 DEF PoolInv, PoolSurvives

\* A request that nobody reserved is set up: only the types are left.
LEMMA TaintKeeps ==
  ASSUME PoolInv, ~ tainted, tainted' = TRUE, NEW g \in Requests, NEW r \in Requests \union {None},
         valid' = [h \in Requests |-> valid[h] \/ h \in {g, r}],
         \/ UNCHANGED <<next_index, empty_head_index, curr_count>>
         \/ /\ empty_head_index # None /\ r = empty_head_index
            /\ empty_head_index' = next_index[r] /\ curr_count' = curr_count + 1
            /\ UNCHANGED next_index,
         holds' \subseteq Requests, overwritten' \subseteq holds', UNCHANGED <<ops, robbed, aborted>>
  PROVE  PoolInv'
<1>1. empty_head_index # None => curr_count + 1 \in 0 .. MaxRequests
  BY EmptyListMeansAllHeld, MaxRequestsAssumption DEF PoolInv, PoolSurvives, PoolTypeOK
<1>2. valid' \in [Requests -> BOOLEAN]
  BY DEF PoolInv, PoolTypeOK
<1>3. PoolTypeOK'
  <2>1. CASE UNCHANGED <<next_index, empty_head_index, curr_count>>
    BY <1>2, <2>1 DEF PoolInv, PoolTypeOK
  <2>2. CASE /\ empty_head_index # None /\ r = empty_head_index
             /\ empty_head_index' = next_index[r] /\ curr_count' = curr_count + 1
             /\ UNCHANGED next_index
    BY <1>1, <1>2, <2>2 DEF PoolInv, PoolTypeOK
  <2> QED
    BY <2>1, <2>2
<1> QED
  BY <1>3 DEF PoolInv, PoolSurvives, PacketsIntact

LEMMA ReleaseKeepsList ==
  ASSUME PoolInv, ~ tainted, NEW h \in Requests, Release(h)
  PROVE  /\ PoolTypeOK' /\ FreeListSound'
         /\ \A s \in Requests \ {h} : valid'[s] = valid[s]
<1>1. PoolTypeOK' /\ FreeListSound'
  BY RemoveKeepsListSound, PoolUnchanged DEF PoolInv, PoolSurvives, Release, RemoveRefused
<1>2. ASSUME NEW s \in Requests, s # h
      PROVE  valid'[s] = valid[s]
  BY <1>2 DEF Release, Remove, RemoveRefused, poolVars, PoolInv, PoolTypeOK
<1> QED
  BY <1>1, <1>2

\* The wrong buffer is the one that becomes robbed.
LEMMA PktchanReleaseKeeps ==
  ASSUME PoolInv, ~ tainted, NEW r \in Requests, PktchanRelease(r)
  PROVE  PoolInv'
<1> DEFINE h == HandleOf(r)
<1>1. h \in Requests /\ Release(h)
  BY DEF PktchanRelease
<1> HIDE DEF h
<1>2. /\ PoolTypeOK' /\ FreeListSound'
      /\ \A s \in Requests \ {h} : valid'[s] = valid[s]
  BY <1>1, ReleaseKeepsList
<1>3. /\ holds' = holds \ {r} /\ robbed' = robbed \union ({h} \ {r})
      /\ overwritten' = overwritten \ {r} /\ ops' = ops
      /\ tainted' = tainted /\ aborted' = aborted
  BY DEF PktchanRelease, h
<1>4. ASSUME NEW s \in Requests \ robbed'
      PROVE  /\ s \in holds' => valid'[s] /\ s \notin ops' /\ s \notin overwritten'
             /\ s \in ops' => valid'[s]
  <2>1. /\ s \in holds => valid[s] /\ s \notin ops /\ s \notin overwritten
        /\ s \in ops => valid[s]
    BY <1>3, <1>4 DEF PoolInv, PacketsIntact
  <2>2. s = h => s = r
    BY <1>3, <1>4
  <2>3. CASE s = r
    <3>1. r \in holds
      BY DEF PktchanRelease
    <3> QED
      BY <1>3, <2>1, <2>3, <3>1
  <2>4. CASE s # r
    <3>1. valid'[s] = valid[s]
      BY <1>2, <2>2, <2>4
    <3> QED
      BY <1>3, <2>1, <2>4, <3>1
  <2> QED
    BY <2>3, <2>4
<1>5. PacketsIntact'
  BY <1>4 DEF PacketsIntact
<1> QED
  BY <1>1, <1>2, <1>3, <1>5 DEF PoolInv, PoolSurvives

LEMMA GiveBackKeeps ==
  ASSUME PoolInv, ~ tainted, NEW r \in Requests, GiveBack(r)
  PROVE  PoolInv'
<1>1. /\ PoolTypeOK' /\ FreeListSound'
      /\ \A s \in Requests \ {r} : valid'[s] = valid[s]
  <2>1. CASE valid[r]
    BY <2>1, ReleaseKeepsList DEF GiveBack
  <2>2. CASE ~ valid[r]
    BY <2>2, PoolUnchanged DEF GiveBack, PoolInv, PoolSurvives, poolVars
  <2> QED
    BY <2>1, <2>2
<1>2. /\ r \in ops /\ ops' = ops \ {r}
      /\ UNCHANGED <<holds, robbed, overwritten, tainted, aborted>>
  BY DEF GiveBack
<1>3. ASSUME NEW s \in Requests \ robbed
      PROVE  /\ s \in holds' => valid'[s] /\ s \notin ops' /\ s \notin overwritten'
             /\ s \in ops' => valid'[s]
  <2>1. /\ s \in holds => valid[s] /\ s \notin ops /\ s \notin overwritten
        /\ s \in ops => valid[s]
    BY DEF PoolInv, PacketsIntact
  <2>2. CASE s = r
    BY <1>2, <2>1, <2>2
  <2>3. CASE s # r
    <3>1. valid'[s] = valid[s]
      BY <1>1, <2>3
    <3> QED
      BY <1>2, <2>1, <3>1
  <2> QED
    BY <2>2, <2>3
<1>4. PacketsIntact'
  BY <1>2, <1>3 DEF PacketsIntact
<1> QED
  BY <1>1, <1>2, <1>4 DEF PoolInv, PoolSurvives
LEMMA DriverKeepsPool ==
  ASSUME PoolInv, NEW p \in Ports, Driver(p)
  PROVE  PoolInv'
<1>1. UNCHANGED <<poolVars, clientVars, aborted>>
  BY DEF Driver, PeerConnects, PeerDisconnects, PeerSends
<1> QED
  BY <1>1, PoolFrame DEF PoolInv

LEMMA ConnectionKeepsPool ==
  ASSUME PoolInv, NEW p \in Ports, Connection(p)
  PROVE  PoolInv'
<1>1. UNCHANGED <<poolVars, clientVars, aborted>>
  BY DEF Connection, PktchanConnectI, SclchanConnectI,
         PktchanRecvOpenI, PktchanSendOpenI, SclchanRecvOpenI, SclchanSendOpenI, Open,
         PktchanRecvCloseI, PktchanSendCloseI, SclchanRecvCloseI, SclchanSendCloseI, Close,
         EndpointCreate, EndpointDelete
<1> QED
  BY <1>1, PoolFrame DEF PoolInv

LEMMA ScalarsKeepPool ==
  ASSUME PoolInv, NEW p \in Ports, Scalars(p)
  PROVE  PoolInv'
<1>1. UNCHANGED <<poolVars, clientVars, aborted>>
  BY DEF Scalars, SclchanSendUint64, SclchanSendUint32, SclchanSendUint16, SclchanSendUint8,
         SclchanRecvUint64, SclchanRecvUint32, SclchanRecvUint16, SclchanRecvUint8,
         SclchanSend, SclchanRecv
<1> QED
  BY <1>1, PoolFrame DEF PoolInv

LEMMA PacketsKeepPool ==
  ASSUME PoolInv, ~ tainted, NEW p \in Ports, Packets(p)
  PROVE  PoolInv'
<1>1. CASE PktchanSend(p)
  BY <1>1, PoolFrame DEF PktchanSend, PoolInv
<1>2. ASSUME NEW r \in Requests, PktchanRecv(p, r)
      PROVE  PoolInv'
  BY <1>2, ReserveKeeps DEF PktchanRecv, Given
<1>3. ASSUME NEW r \in Requests, PktchanRecvFails(p, r)
      PROVE  PoolInv'
  BY <1>3, ReserveKeeps DEF PktchanRecvFails, clientVars
<1>4. ASSUME NEW g \in Requests, PktchanSendI(p, g)
      PROVE  PoolInv'
  <2>1. g # None
    BY DEF Requests, None
  <2>2. tainted' = TRUE
    BY <1>4, <2>1 DEF PktchanSendI, SetUpUnassigned
  <2>3. None \in Requests \union {None}
    OBVIOUS
  <2> QED
    BY <1>4, <2>2, <2>3, TaintKeeps DEF PktchanSendI, SetUpUnassigned, PoolInv
<1>5. ASSUME NEW g \in Requests, NEW r \in Requests, PktchanRecvI(p, r, g)
      PROVE  PoolInv'
  <2>1. CASE g = r
    <3>1. valid' = [valid EXCEPT ![r] = TRUE]
      BY <1>5, <2>1 DEF PktchanRecvI, SetUpUnassigned, PoolInv, PoolTypeOK
    <3>2. Reserve(r)
      BY <1>5, <3>1 DEF PktchanRecvI, Reserve
    <3>3. tainted' = tainted
      <4>1. tainted' = FALSE /\ tainted = FALSE
        BY <1>5, <2>1 DEF PktchanRecvI, SetUpUnassigned, PoolInv
      <4> QED
        BY <4>1
    <3> QED
      BY <1>5, <3>2, <3>3, ReserveKeeps DEF PktchanRecvI, Given
  <2>2. CASE g # r
    <3>1. tainted' = TRUE
      BY <1>5, <2>2 DEF PktchanRecvI, SetUpUnassigned
    <3>2. holds' \subseteq Requests /\ overwritten' \subseteq holds'
      BY <1>5 DEF PktchanRecvI, Given, PoolInv
    <3> QED
      BY <1>5, <3>1, <3>2, TaintKeeps DEF PktchanRecvI, SetUpUnassigned
  <2> QED
    BY <2>1, <2>2
<1> QED
  BY <1>1, <1>2, <1>3, <1>4, <1>5 DEF Packets

LEMMA PoolInvStep ==
  ASSUME PoolInv, [Next]_vars
  PROVE  PoolInv'
<1>1. CASE UNCHANGED vars
  BY <1>1, PoolFrame DEF vars, PoolInv
<1>2. ASSUME ~ tainted, NEW p \in Ports, Driver(p) \/ Connection(p) \/ Packets(p) \/ Scalars(p)
      PROVE  PoolInv'
  BY <1>2, DriverKeepsPool, ConnectionKeepsPool, PacketsKeepPool, ScalarsKeepPool
<1>3. ASSUME ~ tainted, NEW r \in Requests, PktchanRelease(r)
      PROVE  PoolInv'
  BY <1>3, PktchanReleaseKeeps
<1>4. ASSUME NEW r \in Requests, PktchanReleaseAborts(r)
      PROVE  PoolInv'
  BY <1>4, PoolFrame DEF PktchanReleaseAborts
<1>5. ASSUME ~ tainted, NEW r \in Requests, Obtain(r)
      PROVE  PoolInv'
  BY <1>5, ReserveKeeps DEF Obtain
<1>6. ASSUME ~ tainted, NEW r \in Requests, GiveBack(r)
      PROVE  PoolInv'
  BY <1>6, GiveBackKeeps
<1> QED
  BY <1>1, <1>2, <1>3, <1>4, <1>5, <1>6 DEF Next

-----------------------------------------------------------------------------
(* Entries and sessions                                                    *)

LEMMA EntryInvInit ==
  ASSUME Init
  PROVE  EntryInv
BY DEF Init, EntryInv, EntryTypes, Known, NoGhostChannel

LEMMA EntryFrame ==
  ASSUME EntryInv, UNCHANGED <<entryVars, driverVars>>
  PROVE  EntryInv'
BY DEF EntryInv, EntryTypes, Known, NoGhostChannel, entryVars, driverVars

\* Only the queue of an endpoint that exists changes.
LEMMA QueueKeeps ==
  ASSUME EntryInv, UNCHANGED <<entryVars, link>>, NEW p \in exists,
         NEW q \in Seq(Items), inbox' = [inbox EXCEPT ![p] = q]
  PROVE  EntryInv'
<1>1. UNCHANGED <<exists, open, connected, recv_endpt, stale>>
  BY DEF entryVars
<1>2. p \in Ports /\ inbox' \in [Ports -> Seq(Items)]
  BY DEF EntryInv, EntryTypes
<1>3. NoGhostChannel'
  BY <1>1 DEF EntryInv, EntryTypes, NoGhostChannel
<1> QED
  BY <1>1, <1>2, <1>3 DEF EntryInv, EntryTypes, Known

LEMMA QueuedKeeps ==
  ASSUME EntryInv, UNCHANGED <<entryVars, link>>, NEW e, NEW x \in Items,
         Queued(e, x) \/ UNCHANGED inbox
  PROVE  EntryInv'
<1>1. CASE UNCHANGED inbox
  BY <1>1, EntryFrame DEF driverVars
<1>2. CASE e \in exists /\ inbox' = [inbox EXCEPT ![e] = Append(@, x)]
  <2>1. Append(inbox[e], x) \in Seq(Items)
    BY <1>2 DEF EntryInv, EntryTypes
  <2>2. inbox' = [inbox EXCEPT ![e] = Append(inbox[e], x)]
    BY <1>2
  <2> QED
    BY <1>2, <2>1, <2>2, QueueKeeps
<1> QED
  BY <1>1, <1>2 DEF Queued

LEMMA TakenKeeps ==
  ASSUME EntryInv, UNCHANGED <<entryVars, link>>, NEW p \in exists, inbox[p] # <<>>,
         inbox' = [inbox EXCEPT ![p] = Tail(@)]
  PROVE  EntryInv'
<1>1. Tail(inbox[p]) \in Seq(Items)
  BY DEF EntryInv, EntryTypes
<1>2. inbox' = [inbox EXCEPT ![p] = Tail(inbox[p])]
  OBVIOUS
<1> QED
  BY <1>1, <1>2, QueueKeeps

LEMMA DriverKeepsEntries ==
  ASSUME EntryInv, NEW p \in Ports, Driver(p)
  PROVE  EntryInv'
<1>1. ASSUME NEW e \in Ports, PeerConnects(p, e)
      PROVE  EntryInv'
  <2>1. /\ UNCHANGED <<exists, open, connected, recv_endpt, stale, inbox>>
        /\ link[p] = NoEp /\ link' = [link EXCEPT ![p] = e]
    BY <1>1 DEF PeerConnects, entryVars
  <2>2. EntryTypes' /\ NoGhostChannel'
    BY <2>1 DEF EntryInv, EntryTypes, NoGhostChannel
  <2>3. Known'
    BY <2>1 DEF EntryInv, EntryTypes, Known
  <2> QED
    BY <2>2, <2>3 DEF EntryInv
<1>2. CASE PeerDisconnects(p)
  <2>1. /\ UNCHANGED <<exists, open, connected, recv_endpt, inbox>>
        /\ link' = [link EXCEPT ![p] = NoEp]
        /\ stale' = IF connected[p] THEN stale \union {p} ELSE stale
    BY <1>2 DEF PeerDisconnects
  <2>2. EntryTypes' /\ NoGhostChannel'
    BY <2>1 DEF EntryInv, EntryTypes, NoGhostChannel
  <2>3. Known'
    BY <2>1 DEF EntryInv, EntryTypes, Known
  <2> QED
    BY <2>2, <2>3 DEF EntryInv
<1>3. ASSUME NEW x \in Items, PeerSends(p, x)
      PROVE  EntryInv'
  BY <1>3, QueuedKeeps DEF PeerSends
<1> QED
  BY <1>1, <1>2, <1>3 DEF Driver

\* What the driver accepted is recorded, and so is what was learned from it.
LEMMA ConnectKeepsEntries ==
  ASSUME EntryInv, NEW p \in Ports, NEW e \in Ports \ {p}, NEW L \in Learned(p, e),
         ConnectChannel(p, e, L), UNCHANGED <<exists, open, inbox>>
  PROVE  EntryInv'
<1>1. L \subseteq Ports /\ \A q \in L : Asks(q)
  BY DEF Learned
<1>2. PICK accepted \in BOOLEAN :
        LET c == p \in exists /\ accepted IN
        /\ link' = IF c THEN [link EXCEPT ![p] = e] ELSE link
        /\ connected' = [q \in Ports |-> connected[q] \/ q \in L \/ (c /\ q = p)]
        /\ recv_endpt' = [q \in Ports |->
             IF c /\ q = p THEN e ELSE IF q \in L THEN link[q] ELSE recv_endpt[q]]
        /\ stale' = IF c THEN stale \ {p} ELSE stale
  BY DEF ConnectChannel
<1>3. e # NoEp /\ NoEp \notin Ports
  BY ChannelsAssumption
<1>4. EntryTypes'
  BY <1>1, <1>2 DEF EntryInv, EntryTypes
<1>5. Known'
  BY <1>1, <1>2, <1>3 DEF EntryInv, EntryTypes, Known, Asks
<1>6. NoGhostChannel'
  BY <1>1, <1>2 DEF EntryInv, EntryTypes, NoGhostChannel, Asks
<1> QED
  BY <1>4, <1>5, <1>6 DEF EntryInv

LEMMA OpenKeepsEntries ==
  ASSUME EntryInv, NEW p \in Ports, Open(p) \/ Close(p)
  PROVE  EntryInv'
BY DEF Open, Close, EntryInv, EntryTypes, Known, NoGhostChannel, driverVars

LEMMA CreateKeepsEntries ==
  ASSUME EntryInv, NEW p \in Ports, EndpointCreate(p)
  PROVE  EntryInv'
BY DEF EndpointCreate, EntryInv, EntryTypes, Known, NoGhostChannel, driverVars

LEMMA DeleteKeepsEntries ==
  ASSUME EntryInv, NEW p \in Ports, EndpointDelete(p)
  PROVE  EntryInv'
<1>1. <<>> \in Seq(Items)
  OBVIOUS
<1>2. EntryTypes'
  BY <1>1 DEF EndpointDelete, EntryInv, EntryTypes
<1>3. Known' /\ NoGhostChannel'
  BY DEF EndpointDelete, EntryInv, EntryTypes, Known, NoGhostChannel
<1> QED
  BY <1>2, <1>3 DEF EntryInv

LEMMA ConnectionKeepsEntries ==
  ASSUME EntryInv, NEW p \in Ports, Connection(p)
  PROVE  EntryInv'
<1>1. ASSUME NEW e \in Ports \ {p}, PktchanConnectI(p, e) \/ SclchanConnectI(p, e)
      PROVE  EntryInv'
  BY <1>1, ConnectKeepsEntries DEF PktchanConnectI, SclchanConnectI
<1>2. ASSUME \/ PktchanRecvOpenI(p) \/ PktchanSendOpenI(p)
             \/ SclchanRecvOpenI(p) \/ SclchanSendOpenI(p)
             \/ PktchanRecvCloseI(p) \/ PktchanSendCloseI(p)
             \/ SclchanRecvCloseI(p) \/ SclchanSendCloseI(p)
      PROVE  EntryInv'
  BY <1>2, OpenKeepsEntries
     DEF PktchanRecvOpenI, PktchanSendOpenI, SclchanRecvOpenI, SclchanSendOpenI,
         PktchanRecvCloseI, PktchanSendCloseI, SclchanRecvCloseI, SclchanSendCloseI
<1> QED
  BY <1>1, <1>2, CreateKeepsEntries, DeleteKeepsEntries DEF Connection

LEMMA PacketsKeepEntries ==
  ASSUME EntryInv, NEW p \in Ports, Packets(p)
  PROVE  EntryInv'
<1>1. Packet \in Items
  BY DEF Items
<1>2. CASE PktchanSend(p) \/ \E g \in Requests : PktchanSendI(p, g)
  BY <1>1, <1>2, QueuedKeeps DEF PktchanSend, PktchanSendI, Sent, entryVars
<1>3. CASE \E r \in Requests : \/ PktchanRecv(p, r)
                               \/ \E g \in Requests : PktchanRecvI(p, r, g)
  BY <1>3, TakenKeeps DEF PktchanRecv, PktchanRecvI, Given, HasPacket, entryVars
<1>4. CASE \E r \in Requests : PktchanRecvFails(p, r)
  BY <1>4, EntryFrame DEF PktchanRecvFails
<1> QED
  BY <1>2, <1>3, <1>4 DEF Packets

LEMMA ScalarsKeepEntries ==
  ASSUME EntryInv, NEW p \in Ports, Scalars(p)
  PROVE  EntryInv'
<1>1. ASSUME NEW size \in {1, 2, 4, 8}, SclchanSend(p, size)
      PROVE  EntryInv'
  <2>1. ReadyType(size) \in Items
    BY DEF ScalarTypes, Items
  <2> QED
    BY <1>1, <2>1, QueuedKeeps DEF SclchanSend, Sent
<1>2. ASSUME NEW size \in {1, 2, 4, 8}, SclchanRecv(p, size)
      PROVE  EntryInv'
  BY <1>2, TakenKeeps DEF SclchanRecv
<1> QED
  BY <1>1, <1>2
     DEF Scalars, SclchanSendUint64, SclchanSendUint32, SclchanSendUint16,
         SclchanSendUint8, SclchanRecvUint64, SclchanRecvUint32, SclchanRecvUint16,
         SclchanRecvUint8

LEMMA EntryInvStep ==
  ASSUME EntryInv, [Next]_vars
  PROVE  EntryInv'
<1>1. CASE UNCHANGED vars
  BY <1>1, EntryFrame DEF vars
<1>2. ASSUME NEW p \in Ports, Driver(p) \/ Connection(p) \/ Packets(p) \/ Scalars(p)
      PROVE  EntryInv'
  BY <1>2, DriverKeepsEntries, ConnectionKeepsEntries, PacketsKeepEntries, ScalarsKeepEntries
<1>3. ASSUME NEW r \in Requests,
             PktchanRelease(r) \/ PktchanReleaseAborts(r) \/ Obtain(r) \/ GiveBack(r)
      PROVE  EntryInv'
  BY <1>3, EntryFrame DEF PktchanRelease, PktchanReleaseAborts, Obtain, GiveBack
<1> QED
  BY <1>1, <1>2, <1>3 DEF Next

-----------------------------------------------------------------------------
(* What follows for every behaviour                                        *)

\* Both invariants hold of every behaviour.
THEOREM ChannelsInvariant == Spec => [](PoolInv /\ EntryInv)
<1>1. Init => PoolInv /\ EntryInv
  BY PoolInvInit, EntryInvInit
<1>2. PoolInv /\ EntryInv /\ [Next]_vars => (PoolInv /\ EntryInv)'
  BY PoolInvStep, EntryInvStep
<1> QED
  BY <1>1, <1>2, PTL DEF Spec

\* The types of the entries, the sessions and the client's buffers (TypeOK).
THEOREM ChannelTypes == Spec => []TypeOK
<1>1. PoolInv /\ EntryInv => TypeOK
  BY DEF PoolInv, EntryInv, EntryTypes, TypeOK
<1> QED
  BY <1>1, ChannelsInvariant, PTL

\* Whatever buffers are released in whatever order (mcapi_trans_pktchan_free), the
\* list of free requests survives: each wrong release robs a handle or aborts.
THEOREM PoolIsSafe == Spec => []PoolSurvives
<1>1. PoolInv => PoolSurvives
  BY DEF PoolInv
<1> QED
  BY <1>1, ChannelsInvariant, PTL

\* A packet that the client has is its own until it is released, by itself or in
\* place of the one behind it (mcapi_trans_pktchan_recv).
THEOREM PacketsStayIntact == Spec => []PacketsIntact
<1>1. PoolInv => PacketsIntact
  BY DEF PoolInv
<1> QED
  BY <1>1, ChannelsInvariant, PTL

\* Until its peer leaves, an endpoint that is marked connected has the driver's peer
\* (mcapi_trans_connect_channel_internal, mcapi_trans_channel_connected).
THEOREM PeersAreKnown == Spec => []PeerKnown
<1>1. EntryInv => PeerKnown
  BY DEF EntryInv, Known, PeerKnown
<1> QED
  BY <1>1, ChannelsInvariant, PTL

\* An endpoint leaves nothing of its channel behind (mcapi_trans_endpoint_delete).
THEOREM NoChannelOutlives == Spec => []NoGhostChannel
<1>1. EntryInv => NoGhostChannel
  BY DEF EntryInv
<1> QED
  BY <1>1, ChannelsInvariant, PTL
=============================================================================
