-------------------------- MODULE EndpointsProofs ---------------------------
(***************************************************************************)
(* For every number of endpoints, of ports and of calls: until the 16 bits *)
(* of num_endpoints wrap, the scan of mcapi_trans_get_port_index finds     *)
(* every endpoint although its upper end counts the creates and not the    *)
(* entries; and, wrapped or not, the database agrees with the driver until *)
(* the driver refuses a session.  Until then creates and deletes edit a    *)
(* set of ports (EndpointSet).                                             *)
(***************************************************************************)
EXTENDS Endpoints, FiniteSetTheorems, TLAPS

\* Until num_endpoints wraps, what is in use lies below it, in the database and in the
\* driver.  The second half is what keeps the first: the driver hands out the lowest
\* free session, and session num_endpoints is free.
InUseBelowCount ==
  ~ Wrapped => \A i \in Indices : endpoints[i] # NoPort \/ sessions[i] # NoPort => i < num_endpoints

\* The driver's own session has no endpoint before a refusal.
OwnSessionUnused ==
  ~ refused => \A i \in Indices : i < FirstSession => endpoints[i] = NoPort

IInv ==
  /\ TypeOK
  /\ InUseBelowCount
  /\ OwnSessionUnused
  /\ EndpointsMatchSessions
  /\ AbortNeedsRefusal

-----------------------------------------------------------------------------
\* The parts of a handle do not run into each other.
LEMMA HandleParts ==
  ASSUME NEW n \in Nat, NEW p \in Nat
  PROVE  NodeOf(Encode(n, p)) = n % NodeSpan /\ PortOf(Encode(n, p)) = p % PortSpan
BY DEF NodeOf, PortOf, Encode, NodeSpan, PortSpan

LEMMA IInvInit ==
  ASSUME Init
  PROVE  IInv
<1>1. TypeOK
  <2>1. /\ num_endpoints \in 0 .. CountSpan - 1 /\ creates \in 0 .. MaxCreates
        /\ num_endpoints = creates + 1
    BY EndpointsAssumption DEF Init
  <2>2. /\ endpoints \in [Indices -> Ports \union {NoPort}]
        /\ sessions \in [Indices -> Ports \union {NoPort, Driver}]
    BY DEF Init
  <2>3. refused \in BOOLEAN /\ aborted \in BOOLEAN /\ overran \in BOOLEAN
    BY DEF Init
  <2> QED
    BY <2>1, <2>2, <2>3 DEF TypeOK
<1>2. InUseBelowCount
  BY EndpointsAssumption DEF Init, InUseBelowCount, Indices
<1>4. OwnSessionUnused
  BY DEF Init, OwnSessionUnused
<1>5. EndpointsMatchSessions
  BY DEF Init, EndpointsMatchSessions
<1>6. AbortNeedsRefusal
  BY DEF Init, AbortNeedsRefusal
<1> QED
  BY <1>1, <1>2, <1>4, <1>5, <1>6 DEF IInv

\* The index that sm_create_session returns is at most num_endpoints, until it wraps.
LEMMA SessionIndex ==
  ASSUME IInv, ~ Wrapped, NEW p \in Ports, NEW i \in Indices, SessionCreated(p, i)
  PROVE  i <= num_endpoints
<1>1. num_endpoints \in Nat /\ MaxEndpoints \in Nat
  BY EndpointsAssumption DEF IInv, TypeOK
<1>2. CASE i = 0
  BY <1>1, <1>2
<1>3. CASE First(i, FreeSessions)
  <2>1. CASE num_endpoints \in Indices
    <3>1. num_endpoints \in FreeSessions
      BY <1>1, <2>1 DEF IInv, InUseBelowCount, FreeSessions
    <3> QED
      BY <1>3, <3>1 DEF First
  <2>2. CASE num_endpoints \notin Indices
    BY <1>1, <2>2 DEF Indices
  <2> QED
    BY <2>1, <2>2
<1> QED
  BY <1>2, <1>3 DEF SessionCreated

LEMMA CreateKeeps ==
  ASSUME IInv, NEW p \in Ports, NEW i \in Indices, Create(p, i)
  PROVE  IInv'
<1>t. /\ num_endpoints \in 0 .. CountSpan - 1 /\ creates \in 0 .. MaxCreates
      /\ MaxCreates \in Nat /\ CountSpan \in Nat /\ CountSpan >= 1
      /\ Indices \subseteq Int /\ p # NoPort
  BY EndpointsAssumption DEF IInv, TypeOK, Indices
<1>w. /\ creates' = creates + 1 /\ num_endpoints' = CountUp(num_endpoints)
      /\ ~ Wrapped' => /\ ~ Wrapped /\ num_endpoints = creates + 1
                       /\ num_endpoints' = num_endpoints + 1
  BY <1>t DEF IInv, TypeOK, Create, Wrapped, CountUp
<1>1. TypeOK'
  <2>1. /\ endpoints' \in [Indices -> Ports \union {NoPort}]
        /\ sessions' \in [Indices -> Ports \union {NoPort, Driver}]
        /\ refused' \in BOOLEAN /\ aborted' \in BOOLEAN /\ overran' \in BOOLEAN
    BY DEF IInv, TypeOK, Create, SessionCreated
  <2>2. creates' \in 0 .. MaxCreates /\ num_endpoints' \in 0 .. CountSpan - 1
    BY <1>t DEF Create, CountUp
  <2>3. ~ Wrapped' => num_endpoints' = creates' + 1
    BY <1>t, <1>w
  <2> QED
    BY <2>1, <2>2, <2>3 DEF TypeOK
<1>2. InUseBelowCount'
  <2> SUFFICES ASSUME ~ Wrapped'
               PROVE  \A j \in Indices :
                        endpoints'[j] # NoPort \/ sessions'[j] # NoPort => j < num_endpoints'
    BY DEF InUseBelowCount
  <2>1. i < num_endpoints'
    BY <1>t, <1>w, SessionIndex DEF Create
  <2>2. ASSUME NEW j \in Indices, j # i
        PROVE  endpoints'[j] = endpoints[j] /\ sessions'[j] = sessions[j]
    BY <2>2 DEF Create, SessionCreated, IInv, TypeOK
  <2> QED
    BY <1>t, <1>w, <2>1, <2>2 DEF IInv, InUseBelowCount
<1>3. ASSUME ~ refused'
      PROVE  /\ ~ refused /\ sessions[i] = NoPort /\ i >= FirstSession
             /\ endpoints' = [endpoints EXCEPT ![i] = p]
             /\ sessions' = [sessions EXCEPT ![i] = p]
  <2>1. ~ Refuses(p)
    BY <1>3 DEF Create, SessionCreated
  <2>2. ~ refused /\ sessions[i] = NoPort
    BY <1>3, <2>1 DEF Create, SessionCreated, First, FreeSessions
  <2>3. i >= FirstSession
    BY <2>2, EndpointsAssumption DEF IInv, EndpointsMatchSessions, Indices
  <2> QED
    BY <2>1, <2>2, <2>3 DEF Create, SessionCreated
<1>4. OwnSessionUnused'
  <2> SUFFICES ASSUME ~ refused', NEW j \in Indices, j < FirstSession
               PROVE  endpoints'[j] = NoPort
    BY DEF OwnSessionUnused
  <2> QED
    BY <1>3, EndpointsAssumption DEF IInv, OwnSessionUnused, TypeOK, Indices
<1>5. EndpointsMatchSessions'
  <2> SUFFICES ASSUME ~ refused', NEW j \in Indices
               PROVE  sessions'[j] = IF j < FirstSession THEN Driver ELSE endpoints'[j]
    BY DEF EndpointsMatchSessions
  <2>1. CASE j = i
    BY <1>3, <2>1, EndpointsAssumption DEF IInv, TypeOK, Indices
  <2>2. CASE j # i
    BY <1>3, <2>2 DEF IInv, EndpointsMatchSessions, TypeOK
  <2> QED
    BY <2>1, <2>2
<1>6. AbortNeedsRefusal'
  BY DEF Create, Alive, AbortNeedsRefusal
<1> QED
  BY <1>1, <1>2, <1>4, <1>5, <1>6 DEF IInv

\* The assertion cannot fail before a refusal: a session that is free has no
\* endpoint.
LEMMA CreateAbortsKeeps ==
  ASSUME IInv, NEW p \in Ports, NEW i \in Indices, CreateAborts(p, i)
  PROVE  IInv'
<1>1. refused'
  <2> SUFFICES ASSUME ~ Refuses(p), ~ refused
               PROVE  FALSE
    BY DEF CreateAborts, SessionCreated, IInv, TypeOK
  <2>1. sessions[i] = NoPort /\ endpoints[i] # NoPort
    BY DEF CreateAborts, SessionCreated, First, FreeSessions
  <2> QED
    BY <2>1, EndpointsAssumption DEF IInv, EndpointsMatchSessions
<1>2. TypeOK'
  BY DEF IInv, TypeOK, Wrapped, CreateAborts, SessionCreated
<1>3. InUseBelowCount'
  <2> SUFFICES ASSUME ~ Wrapped
               PROVE  \A j \in Indices :
                        endpoints'[j] # NoPort \/ sessions'[j] # NoPort => j < num_endpoints'
    BY DEF InUseBelowCount, CreateAborts, Wrapped
  <2>1. CASE Refuses(p)
    BY <2>1 DEF CreateAborts, SessionCreated, IInv, InUseBelowCount
  <2>2. CASE ~ Refuses(p)
    <3>1. i <= num_endpoints /\ endpoints[i] # NoPort /\ sessions' = [sessions EXCEPT ![i] = p]
      BY <2>2, SessionIndex DEF CreateAborts, SessionCreated
    <3>2. i < num_endpoints
      BY <3>1 DEF IInv, InUseBelowCount
    <3> QED
      BY <3>1, <3>2 DEF CreateAborts, IInv, InUseBelowCount, TypeOK
  <2> QED
    BY <2>1, <2>2
<1> QED
  BY <1>1, <1>2, <1>3
     DEF IInv, OwnSessionUnused, EndpointsMatchSessions, AbortNeedsRefusal

LEMMA DeleteKeeps ==
  ASSUME IInv, NEW p \in Ports, NEW i \in Indices, Delete(p, i)
  PROVE  IInv'
<1>1. endpoints[i] # NoPort
  <2>1. endpoints[i] = PortOf(Encode(LocalNode, p)) /\ p \in Nat
    BY EndpointsAssumption DEF Delete, Finds, PortIndex, First
  <2>2. PortOf(Encode(LocalNode, p)) \in Nat
    BY <2>1, HandleParts, EndpointsAssumption DEF PortSpan
  <2> QED
    BY <2>1, <2>2, EndpointsAssumption
<1>2. TypeOK'
  BY DEF IInv, TypeOK, Wrapped, Delete
<1>3. InUseBelowCount'
  BY DEF IInv, InUseBelowCount, TypeOK, Wrapped, Delete
<1>4. OwnSessionUnused'
  BY DEF IInv, OwnSessionUnused, TypeOK, Delete
<1>5. EndpointsMatchSessions'
  <2> SUFFICES ASSUME ~ refused, NEW j \in Indices
               PROVE  sessions'[j] = IF j < FirstSession THEN Driver ELSE endpoints'[j]
    BY DEF Delete, EndpointsMatchSessions
  <2>1. ~ (i < FirstSession)
    BY <1>1 DEF IInv, OwnSessionUnused
  <2> QED
    BY <2>1 DEF Delete, IInv, EndpointsMatchSessions, TypeOK
<1>6. AbortNeedsRefusal'
  BY DEF IInv, AbortNeedsRefusal, Delete
<1> QED
  BY <1>2, <1>3, <1>4, <1>5, <1>6 DEF IInv

LEMMA IInvStep ==
  ASSUME IInv, [Next]_vars
  PROVE  IInv'
<1>1. CASE UNCHANGED vars
  BY <1>1 DEF vars, IInv, TypeOK, Wrapped, InUseBelowCount, OwnSessionUnused,
              EndpointsMatchSessions, AbortNeedsRefusal
<1>2. ASSUME NEW p \in Ports, LookupOverruns(p)
      PROVE  IInv'
  BY <1>2 DEF LookupOverruns, IInv, TypeOK, Wrapped, InUseBelowCount, OwnSessionUnused,
              EndpointsMatchSessions, AbortNeedsRefusal
<1> QED
  BY <1>1, <1>2, CreateKeeps, CreateAbortsKeeps, DeleteKeeps DEF Next

-----------------------------------------------------------------------------
\* The inductive invariant of the endpoint database holds in every reachable state.
THEOREM EndpointsInvariant == Spec => []IInv
BY IInvInit, IInvStep, PTL DEF Spec

\* Until num_endpoints wraps, mcapi_trans_get_port_index finds every endpoint that was
\* created and not deleted, although num_endpoints is never decremented and entries are
\* reused.
THEOREM EndpointsAreFound == Spec => []LiveEndpointsFound
<1>1. IInv => LiveEndpointsFound
  BY DEF IInv, InUseBelowCount, LiveEndpointsFound, Scanned
<1> QED
  BY <1>1, EndpointsInvariant, PTL

\* Until the driver refuses a session, create and delete keep one session for
\* each endpoint, whether num_endpoints has wrapped or not: none is leaked and none of another port is shut down.
THEOREM SessionsAreThoseOfEndpoints == Spec => []EndpointsMatchSessions
<1>1. IInv => EndpointsMatchSessions
  BY DEF IInv
<1> QED
  BY <1>1, EndpointsInvariant, PTL

\* The assertion of mcapi_trans_endpoint_create fails only after a refusal that
\* sm_create_session did not report.
THEOREM AssertionNeedsRefusal == Spec => []AbortNeedsRefusal
<1>1. IInv => AbortNeedsRefusal
  BY DEF IInv
<1> QED
  BY <1>1, EndpointsInvariant, PTL

\* The database and the driver's table keep their types.
THEOREM EndpointTypes == Spec => []TypeOK
<1>1. IInv => TypeOK
  BY DEF IInv
<1> QED
  BY <1>1, EndpointsInvariant, PTL

-----------------------------------------------------------------------------
LEMMA CreateHitsZero ==
  ASSUME TypeOK, RefusalHitsEntryZero, NEW p \in Ports, NEW i \in Indices, Create(p, i)
  PROVE  RefusalHitsEntryZero'
<1>1. endpoints' = [endpoints EXCEPT ![i] = p] /\ p # NoPort
  BY EndpointsAssumption DEF Create
<1>2. CASE i = 0
  <2>1. \A j \in Indices \ {0} : sessions'[j] = sessions[j] /\ endpoints'[j] = endpoints[j]
    BY <1>1, <1>2 DEF Create, SessionCreated, TypeOK
  <2> QED
    BY <2>1 DEF RefusalHitsEntryZero
<1>3. CASE i # 0
  <2>1. /\ sessions' = [sessions EXCEPT ![i] = p]
        /\ \A j \in Indices : sessions[j] # p
    BY <1>3 DEF Create, SessionCreated, Refuses
  <2>2. \A j \in Indices \ {0} : endpoints[j] # p
    BY <2>1 DEF RefusalHitsEntryZero
  <2> QED
    BY <1>1, <1>3, <2>1, <2>2 DEF RefusalHitsEntryZero, TypeOK
<1> QED
  BY <1>2, <1>3

\* An assertion that fails on entry i fails on entry 0: any other has its session.
LEMMA CreateAbortsHitsZero ==
  ASSUME TypeOK, RefusalHitsEntryZero, NEW p \in Ports, NEW i \in Indices, CreateAborts(p, i)
  PROVE  RefusalHitsEntryZero'
<1>1. UNCHANGED endpoints /\ endpoints[i] # NoPort
  BY DEF CreateAborts
<1>2. i = 0
  BY <1>1 DEF CreateAborts, SessionCreated, First, FreeSessions, RefusalHitsEntryZero
<1>3. \A j \in Indices \ {0} : sessions'[j] = sessions[j]
  BY <1>2 DEF CreateAborts, SessionCreated, TypeOK
<1> QED
  BY <1>1, <1>3 DEF RefusalHitsEntryZero

\* Whatever the driver refuses, and however the library goes on after it, only entry 0
\* can disagree with its session or hold a second endpoint of a port.
THEOREM DamageStaysAtEntryZero == Spec => []RefusalHitsEntryZero
<1>1. Init => RefusalHitsEntryZero
  BY EndpointsAssumption DEF Init, RefusalHitsEntryZero, Indices
<1>2. TypeOK /\ RefusalHitsEntryZero /\ [Next]_vars => RefusalHitsEntryZero'
  <2> SUFFICES ASSUME TypeOK, RefusalHitsEntryZero, [Next]_vars
               PROVE  RefusalHitsEntryZero'
    OBVIOUS
  <2>1. ASSUME NEW p \in Ports, NEW i \in Indices, Delete(p, i)
        PROVE  RefusalHitsEntryZero'
    BY <2>1 DEF Delete, RefusalHitsEntryZero, TypeOK
  <2>2. CASE UNCHANGED vars \/ \E p \in Ports : LookupOverruns(p)
    BY <2>2 DEF vars, RefusalHitsEntryZero, LookupOverruns
  <2> QED
    BY <2>1, <2>2, CreateHitsZero, CreateAbortsHitsZero DEF Next
<1> QED
  BY <1>1, <1>2, EndpointTypes, PTL DEF Spec

-----------------------------------------------------------------------------
\* The driver gives a port one session at most.
OneSession ==
  \A i, j \in Indices :
    sessions[i] = sessions[j] /\ sessions[i] \in Ports => i = j

LEMMA OneSessionStep ==
  ASSUME TypeOK, OneSession, [Next]_vars
  PROVE  OneSession'
<1>1. ASSUME NEW p \in Ports, NEW i \in Indices, SessionCreated(p, i)
      PROVE  OneSession'
  BY <1>1 DEF SessionCreated, Refuses, OneSession, TypeOK
<1>2. ASSUME NEW p \in Ports, NEW i \in Indices, Delete(p, i)
      PROVE  OneSession'
  BY <1>2, EndpointsAssumption DEF Delete, OneSession, TypeOK
<1>3. ASSUME UNCHANGED vars \/ \E p \in Ports : LookupOverruns(p)
      PROVE  OneSession'
  BY <1>3 DEF vars, OneSession, LookupOverruns
<1> QED
  BY <1>1, <1>2, <1>3 DEF Next, Create, CreateAborts

LEMMA OneSessionInvariant == Spec => []OneSession
<1>1. Init => OneSession
  BY EndpointsAssumption DEF Init, OneSession
<1>2. TypeOK /\ OneSession /\ [Next]_vars => OneSession'
  BY OneSessionStep
<1> QED
  BY <1>1, <1>2, EndpointTypes, PTL DEF Spec

\* Until num_endpoints wraps, every port of 16 bits is found by its handle, however many
\* endpoints there are and whatever wider ports are among them.
THEOREM HandlesFind == Spec => []HandlesFindTheirEndpoint
<1>1. IInv /\ OneSession => HandlesFindTheirEndpoint
  <2> SUFFICES ASSUME IInv, OneSession, ~ refused, ~ Wrapped, LocalNode = MasterNode,
                      NEW i \in Indices, NEW j \in Indices,
                      endpoints[i] # NoPort, endpoints[i] < PortSpan
               PROVE  Finds(Encode(LocalNode, endpoints[i]), j) <=> j = i
    BY DEF HandlesFindTheirEndpoint
  <2>1. endpoints[i] \in Ports
    BY DEF IInv, TypeOK
  <2>2. endpoints[i] \in Nat /\ LocalNode = 0
    BY <2>1, EndpointsAssumption DEF MasterNode
  <2>3. NodeOf(Encode(LocalNode, endpoints[i])) = 0
    BY <2>2, HandleParts DEF NodeSpan
  <2>4. PortOf(Encode(LocalNode, endpoints[i])) = endpoints[i]
    BY <2>2, HandleParts DEF PortSpan
  <2>5. \A k \in Indices : endpoints[k] # NoPort => sessions[k] = endpoints[k]
    BY DEF IInv, EndpointsMatchSessions, OwnSessionUnused
  <2>6. \A k \in Indices : endpoints[k] = endpoints[i] => k = i
    BY <2>1, <2>5 DEF OneSession
  <2>7. i \in Scanned /\ i <= i
    BY DEF IInv, InUseBelowCount, Scanned, Indices
  <2>8. Finds(Encode(LocalNode, endpoints[i]), i)
    BY <2>2, <2>3, <2>4, <2>6, <2>7 DEF Finds, PortIndex, First, MasterNode, Scanned
  <2>9. Finds(Encode(LocalNode, endpoints[i]), j) => j = i
    BY <2>4, <2>6 DEF Finds, PortIndex, First, Scanned
  <2> QED
    BY <2>8, <2>9
<1> QED
  BY <1>1, EndpointsInvariant, OneSessionInvariant, PTL

-----------------------------------------------------------------------------
(* The abstract set of endpoints                                           *)

Capacity == MaxEndpoints - FirstSession

Occupied == {i \in Indices : endpoints[i] # NoPort}

\* Until a refusal every endpoint has a session of its own, so that a port is in one
\* entry at most.
LEMMA PortInOneEntry ==
  ASSUME IInv, OneSession, ~ refused,
         NEW i \in Occupied, NEW j \in Indices, endpoints[i] = endpoints[j]
  PROVE  i = j /\ endpoints[i] \in Ports /\ i >= FirstSession /\ sessions[i] = endpoints[i]
<1>1. endpoints[i] \in Ports /\ i \in Indices /\ j \in Occupied
  BY DEF IInv, TypeOK, Occupied
<1>2. \A k \in Occupied : sessions[k] = endpoints[k] /\ k >= FirstSession
  BY EndpointsAssumption DEF IInv, EndpointsMatchSessions, OwnSessionUnused, Occupied, Indices
<1> QED
  BY <1>1, <1>2 DEF OneSession

\* The abstract module counts as this one does.
LEMMA SameCardinality ==
  ASSUME NEW S
  PROVE  Directory!Cardinality(S) = Cardinality(S)
BY DEF Directory!Cardinality, Cardinality

\* There are as many live ports as entries in use, at most as many as sessions for them.
LEMMA LiveCount ==
  ASSUME IInv, OneSession, ~ refused
  PROVE  /\ LivePorts = {endpoints[i] : i \in Occupied}
         /\ Cardinality(LivePorts) \in 0 .. Capacity
         /\ Cardinality(LivePorts) = Capacity =>
              \A i \in Indices : i >= FirstSession => endpoints[i] # NoPort
         /\ (\A i \in Indices : i >= FirstSession => endpoints[i] # NoPort) =>
              Cardinality(LivePorts) = Capacity
<1> DEFINE Own == FirstSession .. MaxEndpoints - 1
           port == [i \in Occupied |-> endpoints[i]]
<1>a. /\ MaxEndpoints \in Nat \ {0} /\ FirstSession \in {0, 1}
      /\ MaxEndpoints - 1 \in Int /\ FirstSession \in Int
  BY EndpointsAssumption
<1>1. LivePorts = {endpoints[i] : i \in Occupied}
  BY DEF LivePorts, Occupied
<1>2. Occupied \subseteq Own
  BY PortInOneEntry, <1>a DEF Occupied, Indices
<1>3. IsFiniteSet(Own) /\ Cardinality(Own) = Capacity
  <2>1. /\ IsFiniteSet(Own)
        /\ Cardinality(Own) =
             IF FirstSession > MaxEndpoints - 1 THEN 0 ELSE MaxEndpoints - 1 - FirstSession + 1
    BY <1>a, FS_Interval
  <2>2. Capacity =
          IF FirstSession > MaxEndpoints - 1 THEN 0 ELSE MaxEndpoints - 1 - FirstSession + 1
    BY <1>a DEF Capacity
  <2> QED
    BY <2>1, <2>2
<1>4. /\ IsFiniteSet(Occupied) /\ Cardinality(Occupied) <= Capacity
      /\ Cardinality(Occupied) = Capacity => Occupied = Own
  BY <1>2, <1>3, FS_Subset
<1>5. Cardinality(LivePorts) = Cardinality(Occupied)
  <2>1. port \in Bijection(Occupied, LivePorts)
    <3>1. port \in [Occupied -> LivePorts]
      BY <1>1
    <3>2. \A i, j \in Occupied : port[i] = port[j] => i = j
      BY PortInOneEntry DEF Occupied
    <3>3. \A p \in LivePorts : \E i \in Occupied : port[i] = p
      BY <1>1
    <3> QED
      BY <3>1, <3>2, <3>3 DEF Bijection, Injection, Surjection, IsInjective
  <2> QED
    BY <2>1, <1>4, FS_Bijection DEF ExistsBijection
<1>6. Cardinality(LivePorts) \in Nat
  BY <1>4, <1>5, FS_CardinalityType
<1>7. Capacity \in Nat
  BY <1>a DEF Capacity
<1>8. Occupied = Own <=> \A i \in Indices : i >= FirstSession => endpoints[i] # NoPort
  BY <1>2, <1>a DEF Occupied, Indices
<1> QED
  BY <1>1, <1>3, <1>4, <1>5, <1>6, <1>7, <1>8

\* A session that is free means room, and a refusal that the port exists or that there
\* is no room.
LEMMA CreateAdds ==
  ASSUME IInv, OneSession, ~ refused, NEW p \in Ports, NEW i \in Indices,
         Create(p, i) \/ CreateAborts(p, i)
  PROVE  Directory!Create(p) \/ Directory!Break(p)
<1>t. p # NoPort /\ p # Driver
  BY EndpointsAssumption
<1>c. SessionCreated(p, i)
  BY DEF Create, CreateAborts
<1>m. \A j \in Indices : sessions[j] = IF j < FirstSession THEN Driver ELSE endpoints[j]
  BY DEF IInv, EndpointsMatchSessions
<1>n. \A j \in Indices : j < MaxEndpoints /\ j >= 0 /\ j \in Int
  BY EndpointsAssumption DEF Indices
<1>d. Driver # NoPort /\ FirstSession \in Int
  BY EndpointsAssumption
<1>1. CASE Refuses(p)
  <2>1. refused' = TRUE /\ LivePorts' = {}
    BY <1>c, <1>1 DEF SessionCreated, LivePorts
  <2>2. CASE FreeSessions = {}
    <3>1. \A j \in Indices : j >= FirstSession => endpoints[j] # NoPort
      BY <2>2, <1>m, <1>n, <1>d DEF FreeSessions
    <3> QED
      BY <2>1, <3>1, LiveCount, SameCardinality DEF Directory!Break, Capacity
  <2>3. ASSUME NEW j \in Indices, sessions[j] = p
        PROVE  Directory!Break(p)
    <3>1. endpoints[j] = p
      BY <2>3, <1>m, <1>t
    <3>2. p \in LivePorts
      BY <3>1, <1>t DEF LivePorts
    <3> QED
      BY <2>1, <3>2 DEF Directory!Break
  <2> QED
    BY <2>2, <2>3, <1>1 DEF Refuses
<1>2. CASE ~ Refuses(p)
  <2>1. /\ UNCHANGED refused /\ i \in FreeSessions
        /\ \A j \in Indices : sessions[j] # p
    BY <1>c, <1>2 DEF SessionCreated, First, Refuses
  <2>2. i >= FirstSession /\ endpoints[i] = NoPort
    BY <2>1, <1>m, <1>n, <1>d DEF FreeSessions
  <2>3. endpoints' = [endpoints EXCEPT ![i] = p] /\ endpoints \in [Indices -> Ports \union {NoPort}]
    BY <2>2 DEF Create, CreateAborts, IInv, TypeOK
  <2>4. \A j \in Indices : endpoints[j] # p
    BY <2>1, <1>t, PortInOneEntry DEF Occupied
  <2>5. p \notin LivePorts
    BY <2>4 DEF LivePorts
  <2>6. LivePorts' = LivePorts \union {p}
    BY <2>1, <2>2, <2>3, <1>t DEF LivePorts
  <2>7. Cardinality(LivePorts) < MaxEndpoints - FirstSession
    BY <2>2, LiveCount, EndpointsAssumption DEF Capacity
  <2> QED
    BY <2>1, <2>5, <2>6, <2>7, SameCardinality DEF Directory!Create
<1> QED
  BY <1>1, <1>2

\* A delete removes the port that its handle finds and no other, from the one entry that has it.
LEMMA DeleteRemoves ==
  ASSUME IInv, OneSession, ~ refused, NEW p \in Ports, NEW i \in Indices, Delete(p, i)
  PROVE  \E q \in Ports : Directory!Delete(q)
<1>1. endpoints[i] # NoPort
  <2>1. endpoints[i] = PortOf(Encode(LocalNode, p)) /\ p \in Nat
    BY EndpointsAssumption DEF Delete, Finds, PortIndex, First
  <2>2. PortOf(Encode(LocalNode, p)) \in Nat
    BY <2>1, HandleParts, EndpointsAssumption DEF PortSpan
  <2> QED
    BY <2>1, <2>2, EndpointsAssumption
<1>2. endpoints[i] \in Ports /\ \A j \in Indices : endpoints[j] = endpoints[i] => j = i
  BY <1>1, PortInOneEntry DEF Occupied
<1>3. /\ endpoints' = [endpoints EXCEPT ![i] = NoPort] /\ UNCHANGED refused
      /\ endpoints \in [Indices -> Ports \union {NoPort}]
  BY DEF Delete, IInv, TypeOK
<1>4. LivePorts' = LivePorts \ {endpoints[i]} /\ endpoints[i] \in LivePorts
  BY <1>1, <1>2, <1>3 DEF LivePorts
<1> QED
  BY <1>2, <1>3, <1>4 DEF Directory!Delete

\* Entries, sessions, num_endpoints and handles implement the set of endpoints: a delete
\* removes one port and no other, or finds none.
THEOREM EntriesImplementSet == Spec => ImplementsEndpointSet
<1>1. Init => Directory!Init
  BY DEF Init, Directory!Init, LivePorts
<1>2. IInv /\ OneSession /\ [Next]_vars => [Directory!Next]_(Directory!vars)
  <2> SUFFICES ASSUME IInv, OneSession, [Next]_vars
               PROVE  [Directory!Next]_(Directory!vars)
    OBVIOUS
  <2>1. CASE UNCHANGED vars \/ \E p \in Ports : LookupOverruns(p)
    BY <2>1 DEF vars, Directory!vars, LivePorts, LookupOverruns
  <2>2. CASE refused
    <3>1. refused' = refused
      BY <2>2 DEF Next, vars, Create, CreateAborts, SessionCreated, Delete, LookupOverruns, IInv,
                  TypeOK
    <3> QED
      BY <2>2, <3>1 DEF Directory!vars, LivePorts
  <2>3. ASSUME ~ refused, NEW p \in Ports, NEW i \in Indices, Create(p, i) \/ CreateAborts(p, i)
        PROVE  [Directory!Next]_(Directory!vars)
    BY <2>3, CreateAdds DEF Directory!Next
  <2>4. ASSUME ~ refused, NEW p \in Ports, NEW i \in Indices, Delete(p, i)
        PROVE  [Directory!Next]_(Directory!vars)
    BY <2>4, DeleteRemoves DEF Directory!Next
  <2> QED
    BY <2>1, <2>2, <2>3, <2>4 DEF Next
<1> QED
  BY <1>1, <1>2, EndpointsInvariant, OneSessionInvariant, PTL
     DEF Spec, ImplementsEndpointSet, Directory!Spec
=============================================================================
