---------------------------- MODULE ThreadsProofs ---------------------------
(***************************************************************************)
(* For every number of threads and requests: as long as no two edits of    *)
(* the free list have collided and nobody has linked it under its users,   *)
(* no two threads share a request.  Releases may overlap as they like.     *)
(*                                                                         *)
(* Overlapping releases leave handles that point into the list and that    *)
(* nothing points to, so the invariant has no path through the list but a  *)
(* set of free handles that is closed under next_index, with a rank that   *)
(* falls along it.  A reserve throws out of the set what ranks above the   *)
(* new head, and with it all that the overlapping releases have lost.      *)
(* While a process links the list, nobody has a request and the links      *)
(* behind it are those of a new list.                                      *)
(***************************************************************************)
EXTENDS Threads, TLAPS

Ranks == [Requests -> Nat]

\* F is free, has the head and is closed under next_index.
FreeSet(F, rank) ==
  /\ F \subseteq Requests
  /\ rank \in Ranks
  /\ empty_head_index \in F \union {None}
  /\ \A r \in F :
       /\ next_index[r] \in F \union {None}
       /\ next_index[r] # None => rank[next_index[r]] < rank[r]

\* What thread t knows of the list: what it holds is not free, what it pushes points
\* to something free, and what it reserves is the head.
Knows(t, F) ==
  /\ request[t] # None /\ pc[t] # "advance" => request[t] \notin F
  /\ pc[t] = "push" => next_index[request[t]] \in F \union {None}
  /\ pc[t] = "advance" =>
       /\ request[t] # None /\ request[t] = empty_head_index
       /\ tmp[t] = next_index[request[t]]

Types ==
  /\ next_index \in [Requests -> Requests \union {None}]
  /\ empty_head_index \in Requests \union {None}
  /\ valid \in [Requests -> BOOLEAN]
  /\ request \in [Threads -> Requests \union {None}]
  /\ pc \in [Threads -> {"idle", "reserve", "advance", "lookup", "ioctl", "asleep",
                         "release", "push"}]
  /\ call \in [Threads -> {"none", "msg_recv_i", "msg_recv", "wait"}]
  /\ completed \in [Threads -> BOOLEAN]
  /\ tmp \in [Threads -> Int]

\* The call of a thread says whether it has a request.
CallsOK ==
  \A t \in Threads :
    /\ pc[t] = "reserve" => request[t] = None /\ call[t] = "msg_recv_i"
    /\ pc[t] = "advance" => call[t] = "msg_recv_i" /\ request[t] # None
    /\ pc[t] \in {"release", "push"} => request[t] # None
    /\ call[t] = "wait" => request[t] # None
    /\ pc[t] \in {"lookup", "ioctl", "asleep"} /\ call[t] = "msg_recv_i" => request[t] # None
    /\ call[t] = "msg_recv" => request[t] = None
    /\ completed[t] => request[t] # None

\* No two threads have the same handle, unless both are about to take the head.
Apart ==
  /\ \A t \in Threads : request[t] # None /\ pc[t] # "push" => valid[request[t]]
  /\ \A t, u \in Threads :
       /\ t # u
       /\ request[t] # None /\ pc[t] # "advance"
       /\ request[u] # None /\ pc[u] # "advance"
       => request[t] # request[u]

ListOK == \E F \in SUBSET Requests : \E rank \in Ranks :
            FreeSet(F, rank) /\ \A t \in Threads : Knows(t, F)

\* An initialising process has linked the requests below joining.
Relinking ==
  /\ \A t \in Threads : request[t] = None
  /\ empty_head_index = 0
  /\ \A r \in Requests : r < joining => next_index[r] = InitialNext[r]

JoiningType == joining \in Requests \union {None}

LinksOK == IF joining = None THEN ListOK ELSE Relinking

IInv == Types /\ JoiningType /\ CallsOK /\ (Intact => Apart /\ LinksOK)

-----------------------------------------------------------------------------
LEMMA IInvInit ==
  ASSUME Init
  PROVE  IInv
<1>m. MaxRequests \in Nat \ {0}
  BY ThreadsAssumption
<1>1. Types
  BY <1>m DEF Init, Types, PoolInit, InitialNext, Requests, None
<1>2. CallsOK
  BY DEF Init, CallsOK
<1>3. Apart
  BY DEF Init, Apart
<1>4. ListOK
  <2> DEFINE rank == [r \in Requests |-> MaxRequests - r]
  <2>1. rank \in Ranks
    BY <1>m DEF Ranks, Requests
  <2>2. next_index = InitialNext /\ empty_head_index = 0
    BY DEF Init, PoolInit
  <2>3. \A r \in Requests : /\ InitialNext[r] \in Requests \union {None}
                            /\ InitialNext[r] # None => rank[InitialNext[r]] < rank[r]
    BY <1>m DEF InitialNext, Requests, None
  <2>4. 0 \in Requests
    BY <1>m DEF Requests
  <2>5. FreeSet(Requests, rank)
    BY <2>1, <2>2, <2>3, <2>4 DEF FreeSet
  <2>6. \A t \in Threads : Knows(t, Requests)
    BY DEF Knows, Init
  <2> QED
    BY <2>1, <2>5, <2>6 DEF ListOK
<1> QED
  BY <1>1, <1>2, <1>3, <1>4 DEF IInv, Init, JoiningType, LinksOK

\* A step of t that leaves the list alone and takes no handle.
QuietStep(t) ==
  /\ UNCHANGED <<next_index, empty_head_index>>
  /\ \A r \in Requests : valid[r] => valid'[r]
  /\ request'[t] \in {request[t], None}
  /\ {pc[t], pc'[t]} \intersect {"advance", "push"} = {}
  /\ \A u \in Others(t) : pc'[u] = pc[u] /\ request'[u] = request[u] /\ tmp'[u] = tmp[u]

LEMMA QuietKeeps ==
  ASSUME Types, Apart, ListOK, NEW t \in Threads, QuietStep(t)
  PROVE  Apart' /\ ListOK'
<1>1. Apart'
  <2>1. \A u \in Threads :
          /\ request'[u] # None => request'[u] = request[u] /\ request[u] \in Requests
          /\ pc[u] = "push" <=> pc'[u] = "push"
          /\ pc[u] = "advance" <=> pc'[u] = "advance"
    BY DEF QuietStep, Types, Others
  <2>2. ASSUME NEW u \in Threads, request'[u] # None, pc'[u] # "push"
        PROVE  valid'[request'[u]]
    <3>1. valid[request[u]]
      BY <2>1, <2>2 DEF Apart
    <3> QED
      BY <2>1, <2>2, <3>1 DEF QuietStep
  <2>3. ASSUME NEW u \in Threads, NEW v \in Threads, u # v,
               request'[u] # None, pc'[u] # "advance",
               request'[v] # None, pc'[v] # "advance"
        PROVE  request'[u] # request'[v]
    BY <2>1, <2>3 DEF Apart
  <2> QED
    BY <2>2, <2>3 DEF Apart
<1>2. PICK F \in SUBSET Requests, rank \in Ranks :
        FreeSet(F, rank) /\ \A u \in Threads : Knows(u, F)
  BY DEF ListOK
<1>3. FreeSet(F, rank)'
  BY <1>2 DEF FreeSet, QuietStep
<1>4. \A u \in Threads : Knows(u, F)'
  BY <1>2 DEF Knows, QuietStep, Others
<1> QED
  BY <1>1, <1>3, <1>4 DEF ListOK

LEMMA LoadHeadKeeps ==
  ASSUME Types, CallsOK, Apart, ListOK, NEW t \in Threads, LoadHead(t)
  PROVE  Apart' /\ ListOK'
<1>1. PICK F \in SUBSET Requests, rank \in Ranks :
        FreeSet(F, rank) /\ \A u \in Threads : Knows(u, F)
  BY DEF ListOK
<1>2. /\ pc[t] = "reserve" /\ pc' = [pc EXCEPT ![t] = "advance"]
      /\ empty_head_index \in F /\ request' = [request EXCEPT ![t] = empty_head_index]
      /\ valid' = [valid EXCEPT ![empty_head_index] = TRUE]
      /\ tmp' = [tmp EXCEPT ![t] = next_index[empty_head_index]]
      /\ UNCHANGED <<next_index, empty_head_index>>
  BY <1>1 DEF LoadHead, Goes, FreeSet
<1>3. Apart'
  BY <1>2 DEF Apart, Types
<1>4. FreeSet(F, rank)'
  BY <1>1, <1>2 DEF FreeSet
<1>5. ASSUME NEW u \in Threads
      PROVE  Knows(u, F)'
  <2>1. ASSUME u = t
        PROVE  Knows(u, F)'
    <3>1. pc'[t] = "advance" /\ request'[t] = empty_head_index
          /\ tmp'[t] = next_index[empty_head_index]
      BY <1>2, <2>1 DEF Types
    <3>2. empty_head_index # None
      BY DEF LoadHead
    <3> QED
      BY <1>2, <2>1, <3>1, <3>2 DEF Knows
  <2>2. ASSUME u # t
        PROVE  Knows(u, F)'
    <3>1. pc'[u] = pc[u] /\ request'[u] = request[u] /\ tmp'[u] = tmp[u]
      BY <1>2, <2>2 DEF Types
    <3> QED
      BY <1>1, <1>2, <3>1 DEF Knows
  <2> QED
    BY <2>1, <2>2
<1> QED
  BY <1>3, <1>4, <1>5 DEF ListOK

\* The only thread that reserves takes the head out of the free set, with all that
\* ranks above it; nobody is about to push.
LEMMA StoreHeadKeeps ==
  ASSUME Types, CallsOK, Apart, ListOK, NEW t \in Threads, StoreHead(t), ~ torn'
  PROVE  Apart' /\ ListOK'
<1>1. PICK F \in SUBSET Requests, rank \in Ranks :
        FreeSet(F, rank) /\ \A u \in Threads : Knows(u, F)
  BY DEF ListOK
<1>2. \A u \in Threads \ {t} : pc[u] # "advance" /\ pc[u] # "push"
  BY DEF StoreHead, Others, Reserving, Pushing
<1>3. /\ pc[t] = "advance" /\ pc' = [pc EXCEPT ![t] = "lookup"]
      /\ empty_head_index' = tmp[t]
      /\ UNCHANGED <<next_index, valid, request>>
  BY DEF StoreHead, Goes
<1>4. /\ request[t] = empty_head_index /\ request[t] \in F
      /\ tmp[t] = next_index[request[t]]
  BY <1>1, <1>3 DEF Knows, FreeSet
<1> DEFINE G == {r \in F : rank[r] < rank[request[t]]}
<1>5. request[t] \in Requests /\ rank \in [Requests -> Nat]
  BY <1>1, <1>4 DEF Ranks
<1>6. FreeSet(G, rank)'
  <2>1. G \subseteq F /\ request[t] \notin G
    BY <1>5
  <2>2. empty_head_index' \in G \union {None}
    BY <1>1, <1>3, <1>4 DEF FreeSet
  <2>3. ASSUME NEW r \in G
        PROVE  /\ next_index[r] \in G \union {None}
               /\ next_index[r] # None => rank[next_index[r]] < rank[r]
    BY <1>1, <1>5, <2>1 DEF FreeSet
  <2> QED
    BY <1>1, <1>3, <2>1, <2>2, <2>3 DEF FreeSet
<1>7. \A u \in Threads : Knows(u, G)'
  BY <1>1, <1>2, <1>3, <1>5 DEF Knows, Types
<1>8. Apart'
  <2>1. \A u \in Threads \ {t} : request[u] # None => request[u] \notin F
    BY <1>1, <1>2 DEF Knows
  <2> QED
    BY <1>2, <1>3, <1>4, <2>1 DEF Apart, Types
<1>9. G \in SUBSET Requests
  BY <1>1
<1> QED
  BY <1>6, <1>7, <1>8, <1>9 DEF ListOK

LEMMA LinkKeeps ==
  ASSUME Types, CallsOK, Apart, ListOK, NEW t \in Threads, Link(t)
  PROVE  Apart' /\ ListOK'
<1>1. PICK F \in SUBSET Requests, rank \in Ranks :
        FreeSet(F, rank) /\ \A u \in Threads : Knows(u, F)
  BY DEF ListOK
<1>2. /\ pc[t] = "release" /\ pc' = [pc EXCEPT ![t] = "push"]
      /\ tmp' = [tmp EXCEPT ![t] = None]
      /\ valid' = [valid EXCEPT ![request[t]] = FALSE]
      /\ next_index' = [next_index EXCEPT ![request[t]] = empty_head_index]
      /\ UNCHANGED <<empty_head_index, request>>
  BY DEF Link, Goes
<1>3. request[t] \in Requests \ F /\ request[t] # None
  BY <1>1, <1>2 DEF CallsOK, Knows, Types
<1>4. \A u \in Threads \ {t} : request[u] # request[t]
  BY <1>1, <1>2, <1>3 DEF Apart, Knows, FreeSet
<1>5. FreeSet(F, rank)'
  BY <1>1, <1>2, <1>3 DEF FreeSet, Types
<1>6. Apart'
  BY <1>2, <1>3, <1>4 DEF Apart, Types
<1>7. ASSUME NEW u \in Threads
      PROVE  Knows(u, F)'
  <2>1. CASE u = t
    BY <1>1, <1>2, <1>3, <2>1 DEF Knows, FreeSet, Types
  <2>2. CASE u # t
    <3>1. pc'[u] = pc[u] /\ tmp'[u] = tmp[u] /\ request'[u] = request[u]
      BY <1>2, <2>2 DEF Types
    <3>2. request[u] # None => next_index'[request[u]] = next_index[request[u]]
      BY <1>2, <1>4, <2>2 DEF Types
    <3>3. pc[u] = "push" => request[u] # None
      BY DEF CallsOK
    <3> QED
      BY <1>1, <1>2, <3>1, <3>2, <3>3 DEF Knows
  <2> QED
    BY <2>1, <2>2
<1> QED
  BY <1>5, <1>6, <1>7 DEF ListOK

LEMMA PushKeeps ==
  ASSUME Types, CallsOK, Apart, ListOK, NEW t \in Threads, Push(t), ~ torn'
  PROVE  Apart' /\ ListOK'
<1>1. PICK F \in SUBSET Requests, rank \in Ranks :
        FreeSet(F, rank) /\ \A u \in Threads : Knows(u, F)
  BY DEF ListOK
<1>2. \A u \in Threads : pc[u] # "advance"
  BY DEF Push, Others, Reserving
<1>3. /\ pc[t] = "push" /\ pc' = [pc EXCEPT ![t] = "idle"]
      /\ empty_head_index' = request[t]
      /\ request' = [request EXCEPT ![t] = None]
      /\ UNCHANGED <<next_index, valid>>
  BY DEF Push, Leaves, Goes
<1>4. request[t] \in Requests \ F /\ request[t] # None
  BY <1>1, <1>3 DEF CallsOK, Knows, Types
<1>5. next_index[request[t]] \in F \union {None}
  BY <1>1, <1>3 DEF Knows
<1>6. \A u \in Threads \ {t} : request[u] # None => request[u] # request[t]
  BY <1>2, <1>3, <1>4 DEF Apart
<1>a. PICK h \in Requests \ F : h = request[t]
  BY <1>4
<1>b. PICK n \in F \union {None} : n = next_index[h]
  BY <1>5, <1>a
<1> DEFINE G == F \union {h}
           top == IF n = None THEN 0 ELSE rank[n] + 1
           higher == [rank EXCEPT ![h] = top]
<1>7. rank \in [Requests -> Nat] /\ F \subseteq Requests
  BY <1>1 DEF Ranks
<1>8. top \in Nat
  BY <1>7
<1>9. higher \in Ranks /\ higher[h] = top /\ \A r \in F : higher[r] = rank[r]
  BY <1>7, <1>8 DEF Ranks
<1>10. FreeSet(G, higher)'
  <2>1. ASSUME NEW r \in F
        PROVE  /\ next_index[r] \in G \union {None}
               /\ next_index[r] # None => higher[next_index[r]] < higher[r]
    BY <1>1, <1>9 DEF FreeSet
  <2>2. n # None => higher[n] < top
    BY <1>7, <1>9
  <2> HIDE DEF top, higher
  <2>3. \A r \in G : /\ next_index[r] \in G \union {None}
                     /\ next_index[r] # None => higher[next_index[r]] < higher[r]
    BY <1>9, <1>b, <2>1, <2>2
  <2> QED
    BY <1>3, <1>7, <1>9, <1>a, <2>3 DEF FreeSet
<1>11. ASSUME NEW u \in Threads
       PROVE  Knows(u, G)'
  <2>1. ASSUME u = t
        PROVE  Knows(u, G)'
    BY <1>3, <2>1 DEF Knows, Types
  <2>2. ASSUME u # t
        PROVE  Knows(u, G)'
    <3>1. pc'[u] = pc[u] /\ request'[u] = request[u]
      BY <1>3, <2>2 DEF Types
    <3>2. Knows(u, F)
      BY <1>1
    <3>3. request[u] # None => request[u] # h
      BY <1>6, <1>a, <2>2
    <3> QED
      BY <1>2, <1>3, <3>1, <3>2, <3>3 DEF Knows
  <2> QED
    BY <2>1, <2>2
<1>12. Apart'
  BY <1>3, <1>4 DEF Apart, Types
<1>13. G \in SUBSET Requests
  BY <1>7
<1> HIDE DEF G, higher
<1> QED
  BY <1>9, <1>10, <1>11, <1>12, <1>13 DEF ListOK

\* Nobody has a request when the head is stored.
LEMMA JoinsBeginKeeps ==
  ASSUME Types, JoinsBegin, ~ relinked'
  PROVE  Apart' /\ LinksOK'
<1>1. \A t \in Threads : request'[t] = None
  BY DEF JoinsBegin, InUse, threadVars
<1>2. Apart'
  BY <1>1 DEF Apart
<1>3. joining' = 0 /\ empty_head_index' = 0
  BY DEF JoinsBegin
<1>4. Relinking'
  BY <1>1, <1>3 DEF Relinking, Requests
<1> QED
  BY <1>2, <1>3, <1>4 DEF LinksOK, None

\* Nobody has a request: when all links are stored the list is as it was at the start.
LEMMA Relinked ==
  ASSUME CallsOK', \A t \in Threads : request'[t] = None, empty_head_index' = 0,
         \A r \in Requests : next_index'[r] = InitialNext[r]
  PROVE  ListOK'
<1>m. MaxRequests \in Nat \ {0}
  BY ThreadsAssumption
<1> DEFINE rank == [r \in Requests |-> MaxRequests - r]
<1>1. rank \in Ranks
  BY <1>m DEF Ranks, Requests
<1>2. \A r \in Requests : /\ InitialNext[r] \in Requests \union {None}
                          /\ InitialNext[r] # None => rank[InitialNext[r]] < rank[r]
  BY <1>m DEF InitialNext, Requests, None
<1>3. 0 \in Requests
  BY <1>m DEF Requests
<1>4. FreeSet(Requests, rank)'
  BY <1>1, <1>2, <1>3 DEF FreeSet
<1>5. \A t \in Threads : Knows(t, Requests)'
  BY DEF Knows, CallsOK
<1> QED
  BY <1>1, <1>4, <1>5 DEF ListOK

LEMMA JoinsLinkKeeps ==
  ASSUME Types, JoiningType, CallsOK', Relinking, JoinsLink, ~ relinked'
  PROVE  Apart' /\ LinksOK'
<1>m. MaxRequests \in Nat \ {0}
  BY ThreadsAssumption
<1>1. joining \in Requests
  BY DEF JoinsLink, JoiningType
<1>2. /\ \A t \in Threads : request'[t] = None
      /\ empty_head_index' = 0
  BY DEF JoinsLink, Relinking, threadVars
<1>3. Apart'
  BY <1>2 DEF Apart
<1>4. \A r \in Requests : r <= joining => next_index'[r] = InitialNext[r]
  <2>1. \A r \in Requests : r <= joining => r < joining \/ r = joining
    BY <1>m, <1>1 DEF Requests
  <2> QED
    BY <1>1, <2>1 DEF JoinsLink, Relinking, Types
<1>5. joining' = InitialNext[joining]
  BY DEF JoinsLink
<1>6. CASE joining = MaxRequests - 1
  <2>1. joining' = None
    BY <1>1, <1>5, <1>6 DEF InitialNext
  <2>2. \A r \in Requests : next_index'[r] = InitialNext[r]
    BY <1>m, <1>4, <1>6 DEF Requests
  <2>3. ListOK'
    BY <1>2, <2>2, Relinked
  <2> QED
    BY <1>3, <2>1, <2>3 DEF LinksOK
<1>7. CASE joining # MaxRequests - 1
  <2>1. joining' = joining + 1 /\ joining' # None
    BY <1>m, <1>1, <1>5, <1>7 DEF InitialNext, Requests, None
  <2>2. \A r \in Requests : r < joining' => next_index'[r] = InitialNext[r]
    BY <1>m, <1>1, <1>4, <2>1 DEF Requests
  <2>3. Relinking'
    BY <1>2, <2>2 DEF Relinking
  <2> QED
    BY <1>3, <2>1, <2>3 DEF LinksOK
<1> QED
  BY <1>6, <1>7

-----------------------------------------------------------------------------
\* Thread t returns without a request.
LEMMA LeavesTypes ==
  ASSUME Types, CallsOK, NEW t \in Threads, Leaves(t), next_index' = next_index,
         empty_head_index' \in Requests \union {None}, valid' = valid
  PROVE  Types' /\ CallsOK'
BY DEF Leaves, Goes, Types, CallsOK, None

\* Only the step and the local variable of t change.
LEMMA GoesTypes ==
  ASSUME Types, CallsOK, NEW t \in Threads, NEW q, NEW v \in Int, Goes(t, q, v),
         q \in {"idle", "lookup", "ioctl", "asleep", "release", "push"},
         q = "push" \/ q = "release" => request[t] # None,
         q \in {"lookup", "ioctl", "asleep"} /\ call[t] = "msg_recv_i" => request[t] # None,
         UNCHANGED <<call, request, completed>>,
         next_index' \in [Requests -> Requests \union {None}],
         empty_head_index' \in Requests \union {None}, valid' \in [Requests -> BOOLEAN]
  PROVE  Types' /\ CallsOK'
BY DEF Goes, Types, CallsOK

LEMMA ReturnsTypes ==
  ASSUME Types, CallsOK, NEW t \in Threads, NEW res, Returns(t, res),
         pc[t] \in {"ioctl", "asleep"}
  PROVE  Types' /\ CallsOK'
<1>1. NonBlocking(t) => request[t] \in Requests
  BY DEF NonBlocking, CallsOK, Types
<1>2. /\ UNCHANGED <<next_index, empty_head_index>>
      /\ valid' \in [Requests -> BOOLEAN]
  BY <1>1 DEF Returns, Types
<1>3. -1 \in Int
  OBVIOUS
<1>4. ASSUME call[t] = "wait", Goes(t, "release", None), UNCHANGED <<call, request, completed>>
      PROVE  Types' /\ CallsOK'
  <2>1. request[t] # None
    BY <1>4 DEF CallsOK
  <2> QED
    BY <1>2, <1>3, <1>4, <2>1 DEF Goes, Types, CallsOK, None
<1>5. ASSUME NonBlocking(t), Goes(t, "idle", None), UNCHANGED request,
             call' = [call EXCEPT ![t] = "none"],
             completed' = [completed EXCEPT ![t] = res = "message"]
      PROVE  Types' /\ CallsOK'
  <2>1. request[t] # None
    BY <1>1 , <1>5 DEF Requests, None
  <2>2. completed' \in [Threads -> BOOLEAN]
    BY <1>5 DEF Types
  <2>3. \A u \in Threads : completed'[u] => request[u] # None
    BY <1>5, <2>1 DEF Types, CallsOK
  <2> QED
    BY <1>2, <1>3, <1>5, <2>1, <2>2, <2>3 DEF Goes, Types, CallsOK, None
<1>6. ASSUME Leaves(t)
      PROVE  Types' /\ CallsOK'
  BY <1>2, <1>3, <1>6 DEF Leaves, Goes, Types, CallsOK, None
<1> QED
  BY <1>4, <1>5, <1>6 DEF Returns

LEMMA StepTypes ==
  ASSUME Types, CallsOK, LinksOK, NEW t \in Threads, Steps(t)
  PROVE  Types' /\ CallsOK'
<1> USE ThreadsAssumption
<1>i. None \in Int /\ Requests \union {None} \subseteq Int /\ Indices \subseteq Int
  BY DEF Requests, None, Indices
<1>1. ASSUME ReserveEmpty(t) \/ ReleaseRefused(t) \/ LookupFails(t)
      PROVE  Types' /\ CallsOK'
  <2>1. UNCHANGED listVars /\ Leaves(t)
    BY <1>1 DEF ReserveEmpty, ReleaseRefused, LookupFails
  <2> QED
    BY <2>1, LeavesTypes DEF listVars, Types
<1>2. ASSUME LoadHead(t)
      PROVE  Types' /\ CallsOK'
  <2>1. empty_head_index \in Requests /\ next_index[empty_head_index] \in Int
    BY <1>2, <1>i DEF LoadHead, Types
  <2>2. call[t] = "msg_recv_i"
    BY <1>2 DEF LoadHead, CallsOK
  <2> QED
    BY <1>2, <2>1, <2>2 DEF LoadHead, Goes, Types, CallsOK, None
<1>3. ASSUME StoreHead(t)
      PROVE  Types' /\ CallsOK'
  <2>1. request[t] \in Requests /\ tmp[t] = next_index[request[t]]
    <3>1. request[t] # None
      BY <1>3 DEF StoreHead, CallsOK
    <3>2. ListOK
      BY <3>1 DEF LinksOK, Relinking
    <3> QED
      BY <1>3, <3>1, <3>2 DEF StoreHead, ListOK, Knows, Types
  <2>2. tmp[t] \in Requests \union {None}
    BY <2>1 DEF Types
  <2> QED
    BY <1>3, <1>i, <2>1, <2>2, GoesTypes DEF StoreHead, CallsOK, Types
<1>4. ASSUME Link(t)
      PROVE  Types' /\ CallsOK'
  <2>1. request[t] \in Requests /\ request[t] # None
    BY <1>4 DEF Link, Types, CallsOK
  <2>2. /\ next_index' \in [Requests -> Requests \union {None}]
        /\ valid' \in [Requests -> BOOLEAN]
    BY <1>4, <2>1 DEF Link, Types
  <2> QED
    BY <1>4, <1>i, <2>1, <2>2, GoesTypes DEF Link, Types
<1>5. ASSUME Push(t)
      PROVE  Types' /\ CallsOK'
  <2>1. request[t] \in Requests \union {None}
    BY DEF Types
  <2> QED
    BY <1>5, <2>1, LeavesTypes DEF Push
<1>6. ASSUME Prepare(t)
      PROVE  Types' /\ CallsOK'
  <2>1. PICK i \in Indices : Goes(t, "ioctl", i)
    BY <1>6 DEF Prepare
  <2>2. call[t] = "msg_recv_i" => request[t] # None
    BY <1>6 DEF Prepare, CallsOK
  <2> QED
    BY <1>6, <1>i, <2>1, <2>2, GoesTypes DEF Prepare, Types, listVars
<1>7. ASSUME WaitCompleted(t)
      PROVE  Types' /\ CallsOK'
  <2>1. request[t] # None
    BY <1>7 DEF WaitCompleted, CallsOK
  <2> QED
    BY <1>7, <1>i, <2>1, GoesTypes DEF WaitCompleted, Types, listVars
<1>8. ASSUME Sleeps(t)
      PROVE  Types' /\ CallsOK'
  <2>1. call[t] = "msg_recv_i" => request[t] # None
    BY <1>8 DEF Sleeps, NothingThere, CallsOK
  <2>2. tmp[t] \in Int
    BY DEF Types
  <2> QED
    BY <1>8, <2>1, <2>2, GoesTypes DEF Sleeps, Types, listVars
<1>9. ASSUME Takes(t) \/ Fails(t) \/ TriesAgain(t)
      PROVE  Types' /\ CallsOK'
  BY <1>9, ReturnsTypes DEF Takes, Fails, TriesAgain, NothingThere
<1> QED
  BY <1>1, <1>2, <1>3, <1>4, <1>5, <1>6, <1>7, <1>8, <1>9 DEF Steps

LEMMA CallTypes ==
  ASSUME Types, CallsOK, NEW t \in Threads, MsgRecvI(t) \/ MsgRecv(t) \/ Wait(t)
  PROVE  Types' /\ CallsOK'
<1>1. -1 \in Int
  OBVIOUS
<1>2. ASSUME MsgRecvI(t)
      PROVE  Types' /\ CallsOK'
  BY <1>1, <1>2 DEF MsgRecvI, Calls, Goes, Types, CallsOK, listVars, None
<1>3. ASSUME MsgRecv(t)
      PROVE  Types' /\ CallsOK'
  BY <1>1, <1>3 DEF MsgRecv, Calls, Goes, Types, CallsOK, listVars, None
<1>4. ASSUME Wait(t)
      PROVE  Types' /\ CallsOK'
  BY <1>1, <1>4 DEF Wait, Calls, Goes, Types, CallsOK, listVars, None
<1> QED
  BY <1>2, <1>3, <1>4

\* Messages, endpoints and other processes leave the threads' variables alone.
LEMMA AroundTypes ==
  ASSUME Types, CallsOK,
         \/ \E i \in Indices :
               Arrive(i) \/ EndpointDelete(i) \/ \E t \in Threads : EndpointCreate(t, i)
         \/ JoinsBegin \/ JoinsLink
         \/ UNCHANGED vars
  PROVE  Types' /\ CallsOK'
<1>1. UNCHANGED threadVars /\ UNCHANGED valid
  BY DEF Arrive, EndpointDelete, EndpointCreate, JoinsBegin, JoinsLink, vars, listVars
<1>2. /\ next_index' \in [Requests -> Requests \union {None}]
      /\ empty_head_index' \in Requests \union {None}
  <2>1. /\ InitialNext \in [Requests -> Requests \union {None}]
        /\ 0 \in Requests
    BY ThreadsAssumption DEF InitialNext, Requests, None
  <2> QED
    BY <2>1 DEF Arrive, EndpointDelete, EndpointCreate, JoinsBegin, JoinsLink, vars, listVars, Types
<1> QED
  BY <1>1, <1>2 DEF threadVars, Types, CallsOK

-----------------------------------------------------------------------------
\* A call that begins, and a step that neither takes nor gives back a handle.
LEMMA CallsAreQuiet ==
  ASSUME Types, NEW t \in Threads, MsgRecvI(t) \/ MsgRecv(t) \/ Wait(t)
  PROVE  QuietStep(t)
BY DEF MsgRecvI, MsgRecv, Wait, Calls, Goes, QuietStep, listVars, Types, Others

LEMMA ReturnsIsQuiet ==
  ASSUME Types, CallsOK, NEW t \in Threads, NEW res, Returns(t, res),
         pc[t] \in {"ioctl", "asleep"}
  PROVE  QuietStep(t)
<1>1. NonBlocking(t) => request[t] \in Requests
  BY DEF NonBlocking, CallsOK, Types
<1>2. \A r \in Requests : valid[r] => valid'[r]
  BY <1>1 DEF Returns, Types
<1>3. pc'[t] \in {"idle", "release"} /\ request'[t] \in {request[t], None}
  BY DEF Returns, Leaves, Goes, Types
<1>4. \A u \in Others(t) : pc'[u] = pc[u] /\ request'[u] = request[u] /\ tmp'[u] = tmp[u]
  BY DEF Returns, Leaves, Goes, Types, Others
<1> QED
  BY <1>2, <1>3, <1>4 DEF Returns, QuietStep

LEMMA QuietSteps ==
  ASSUME Types, CallsOK, NEW t \in Threads,
         \/ ReserveEmpty(t) \/ ReleaseRefused(t) \/ LookupFails(t)
         \/ Prepare(t) \/ WaitCompleted(t) \/ Sleeps(t)
         \/ Takes(t) \/ Fails(t) \/ TriesAgain(t)
  PROVE  QuietStep(t)
<1>1. ASSUME ReserveEmpty(t) \/ ReleaseRefused(t) \/ LookupFails(t)
      PROVE  QuietStep(t)
  BY <1>1 DEF ReserveEmpty, ReleaseRefused, LookupFails, Leaves, Goes, QuietStep, Types,
              listVars, Others
<1>2. ASSUME Prepare(t) \/ WaitCompleted(t) \/ Sleeps(t)
      PROVE  QuietStep(t)
  <2>1. \E q \in {"ioctl", "release", "asleep"} : \E v : Goes(t, q, v)
    BY <1>2 DEF Prepare, WaitCompleted, Sleeps
  <2>2. pc[t] \in {"lookup", "ioctl"} /\ UNCHANGED <<listVars, request>>
    BY <1>2 DEF Prepare, WaitCompleted, Sleeps, NothingThere
  <2> QED
    BY <2>1, <2>2 DEF Goes, QuietStep, Types, listVars, Others
<1>3. ASSUME Takes(t) \/ Fails(t) \/ TriesAgain(t)
      PROVE  QuietStep(t)
  BY <1>3, ReturnsIsQuiet DEF Takes, Fails, TriesAgain, NothingThere
<1> QED
  BY <1>1, <1>2, <1>3

LEMMA StepKeeps ==
  ASSUME Types, CallsOK, Apart, ListOK, NEW t \in Threads, Steps(t), ~ torn'
  PROVE  Apart' /\ ListOK'
BY LoadHeadKeeps, StoreHeadKeeps, LinkKeeps, PushKeeps, QuietSteps, QuietKeeps DEF Steps

\* Nobody links the list but an initialising process.
LEMMA StepJoining ==
  ASSUME NEW t \in Threads, Steps(t) \/ MsgRecvI(t) \/ MsgRecv(t) \/ Wait(t)
  PROVE  joining' = joining
BY DEF Steps, ReserveEmpty, LoadHead, StoreHead, ReleaseRefused, Link, Push, Prepare,
       WaitCompleted, LookupFails, Takes, Fails, TriesAgain, Returns, Sleeps,
       MsgRecvI, MsgRecv, Wait, Calls, listUse

\* A thread without a request does nothing to the links, unless it reserves.
LEMMA QuietRelinking ==
  ASSUME Types, Relinking, NEW t \in Threads, QuietStep(t), joining' = joining
  PROVE  Apart' /\ Relinking'
<1>1. \A u \in Threads : request'[u] = None
  BY DEF QuietStep, Relinking, Others
<1>2. InitialNext' = InitialNext
  BY DEF InitialNext
<1> QED
  BY <1>1, <1>2 DEF Apart, Relinking, QuietStep

LEMMA StepRelinking ==
  ASSUME Types, CallsOK, Relinking, joining # None, NEW t \in Threads, Steps(t),
         ~ relinked'
  PROVE  Apart' /\ Relinking'
<1>1. request[t] = None /\ pc[t] \notin {"advance", "release", "push"}
  BY DEF Relinking, CallsOK
<1>2. QuietStep(t)
  BY <1>1, QuietSteps DEF Steps, LoadHead, StoreHead, Link, Push
<1> QED
  BY <1>2, StepJoining, QuietRelinking

LEMMA UnchangedKeeps ==
  ASSUME Apart, LinksOK, UNCHANGED <<listVars, threadVars, joining>>
  PROVE  Apart' /\ LinksOK'
<1>1. UNCHANGED <<next_index, empty_head_index, valid, request, pc, tmp>>
  BY DEF listVars, threadVars
<1>2. Apart'
  BY <1>1 DEF Apart
<1>3. ASSUME ListOK
      PROVE  ListOK'
  <2>1. PICK F \in SUBSET Requests, rank \in Ranks :
          FreeSet(F, rank) /\ \A u \in Threads : Knows(u, F)
    BY <1>3 DEF ListOK
  <2>2. FreeSet(F, rank)' /\ \A u \in Threads : Knows(u, F)'
    BY <1>1, <2>1 DEF FreeSet, Knows
  <2> QED
    BY <2>2 DEF ListOK
<1>4. Relinking => Relinking'
  BY <1>1 DEF Relinking, InitialNext
<1> QED
  BY <1>2, <1>3, <1>4 DEF LinksOK

LEMMA JoiningTypeKept ==
  ASSUME JoiningType, [Next]_vars
  PROVE  JoiningType'
<1>1. /\ InitialNext \in [Requests -> Requests \union {None}]
      /\ 0 \in Requests
  BY ThreadsAssumption DEF InitialNext, Requests, None
<1>2. ASSUME JoinsBegin \/ JoinsLink
      PROVE  JoiningType'
  BY <1>1, <1>2 DEF JoinsBegin, JoinsLink, JoiningType
<1>3. ASSUME joining' = joining
      PROVE  JoiningType'
  BY <1>3 DEF JoiningType
<1> QED
  BY <1>2, <1>3, StepJoining DEF Next, Arrive, EndpointDelete, EndpointCreate, vars, listUse

LEMMA IInvStep ==
  ASSUME IInv, [Next]_vars
  PROVE  IInv'
<1>1. Types /\ JoiningType /\ CallsOK
  BY DEF IInv
<1>j. JoiningType'
  BY <1>1, JoiningTypeKept
<1>2. ASSUME UNCHANGED vars
      PROVE  IInv'
  <2>1. Types' /\ CallsOK'
    BY <1>1, <1>2, AroundTypes
  <2>2. UNCHANGED <<listVars, threadVars, joining>> /\ (Intact' => Intact)
    BY <1>2 DEF vars, listUse, Intact
  <2> QED
    BY <2>1, <2>2, UnchangedKeeps, <1>j DEF IInv
<1>3. ASSUME Next
      PROVE  IInv'
  <2>1. Intact /\ Apart /\ LinksOK
    BY <1>3 DEF Next, IInv
  <2>2. ASSUME NEW t \in Threads, Steps(t)
        PROVE  IInv'
    <3>1. Types' /\ CallsOK'
      BY <1>1, <2>1, <2>2, StepTypes
    <3>2. joining' = joining
      BY <2>2, StepJoining
    <3>3. ASSUME Intact'
          PROVE  Apart' /\ LinksOK'
      BY <1>1, <2>1, <2>2, <3>2, <3>3, StepKeeps, StepRelinking DEF LinksOK, Intact
    <3> QED
      BY <1>j, <3>1, <3>3 DEF IInv
  <2>3. ASSUME NEW t \in Threads, MsgRecvI(t) \/ MsgRecv(t) \/ Wait(t)
        PROVE  IInv'
    <3>1. Types' /\ CallsOK' /\ QuietStep(t)
      BY <1>1, <2>3, CallTypes, CallsAreQuiet
    <3>2. joining' = joining
      BY <2>3, StepJoining
    <3>3. Apart' /\ LinksOK'
      BY <1>1, <2>1, <3>1, <3>2, QuietKeeps, QuietRelinking DEF LinksOK
    <3> QED
      BY <1>j, <3>1, <3>3 DEF IInv
  <2>4. ASSUME NEW i \in Indices,
               Arrive(i) \/ EndpointDelete(i) \/ \E t \in Threads : EndpointCreate(t, i)
        PROVE  IInv'
    <3>1. UNCHANGED <<listVars, threadVars, joining>>
      BY <2>4 DEF Arrive, EndpointDelete, EndpointCreate, listUse
    <3>2. Types' /\ CallsOK'
      BY <1>1, <2>4, AroundTypes
    <3> QED
      BY <2>1, <3>1, <3>2, UnchangedKeeps, <1>j DEF IInv
  <2>5. ASSUME JoinsBegin \/ JoinsLink
        PROVE  IInv'
    <3>1. Types' /\ CallsOK'
      BY <1>1, <2>5, AroundTypes
    <3>2. JoinsLink => Relinking
      BY <2>1 DEF JoinsLink, LinksOK
    <3>3. ASSUME Intact'
          PROVE  Apart' /\ LinksOK'
      BY <1>1, <2>5, <3>1, <3>2, <3>3, JoinsBeginKeeps, JoinsLinkKeeps DEF Intact
    <3> QED
      BY <1>j, <3>1, <3>3 DEF IInv
  <2> QED
    BY <1>3, <2>2, <2>3, <2>4, <2>5 DEF Next
<1> QED
  BY <1>2, <1>3

\* The types of the shared list, what each call knows of its request and, until two
\* edits collide, that the free requests are closed under next_index.
THEOREM ThreadsInvariant == Spec => []IInv
<1>1. Init => IInv
  BY IInvInit
<1>2. IInv /\ [Next]_vars => IInv'
  BY IInvStep
<1> QED
  BY <1>1, <1>2, PTL DEF Spec

\* reserve_request gives two threads the same handle only after one of the collisions
\* that HandlesStayApart names, for every number of threads and requests.
THEOREM RequestsStayApart == Spec => []HandlesStayApart
<1>1. IInv => HandlesStayApart
  BY DEF IInv, Apart, HandlesStayApart, Holds, Others
<1> QED
  BY <1>1, ThreadsInvariant, PTL

-----------------------------------------------------------------------------
(* The flag and the session of a call, between its lookup and the driver   *)

\* The flag is that of the call, unless another thread set it since.
Mode(t) == pc[t] = "ioctl" /\ t \notin overridden => (nonblock <=> NonBlocking(t))

\* The session is that of the thread's endpoint, unless it was deleted since.
Session(t) ==
  pc[t] \in {"ioctl", "asleep"} /\ t \notin moved =>
    tmp[t] \in Indices /\ endpoints[tmp[t]] = t

SharedTypes ==
  /\ endpoints \in [Indices -> Threads \union {Nobody}]
  /\ waiting \in [Indices -> BOOLEAN]
  /\ {nonblock, torn, relinked} \subseteq BOOLEAN
  /\ {overridden, moved} \subseteq SUBSET Threads

CallInv == SharedTypes /\ \A t \in Threads : Mode(t) /\ Session(t)

LEMMA CallInvInit ==
  ASSUME Init
  PROVE  CallInv
<1>1. SharedTypes
  BY DEF Init, SharedTypes
<1>2. \A t \in Threads : pc[t] = "idle"
  BY DEF Init
<1> QED
  BY <1>1, <1>2 DEF CallInv, Mode, Session

LEMMA SharedTypesKept ==
  ASSUME SharedTypes, [Next]_vars
  PROVE  SharedTypes'
<1>1. ASSUME UNCHANGED vars
      PROVE  SharedTypes'
  BY <1>1 DEF vars, driverVars, listUse, SharedTypes
<1>2. ASSUME NEW t \in Threads, Steps(t)
      PROVE  SharedTypes'
  <2>1. ASSUME NEW res, Returns(t, res), waiting' \in [Indices -> BOOLEAN]
        PROVE  SharedTypes'
    BY <2>1 DEF Returns, listUse, SharedTypes
  <2>2. ASSUME Prepare(t)
        PROVE  SharedTypes'
    BY <2>2 DEF Prepare, SetFlags, NonBlocking, Others, listUse, SharedTypes
  <2>3. ASSUME Takes(t) \/ Fails(t) \/ TriesAgain(t)
        PROVE  SharedTypes'
    BY <2>1, <2>3 DEF Takes, Fails, TriesAgain, SharedTypes
  <2>4. ASSUME StoreHead(t) \/ Push(t)
        PROVE  SharedTypes'
    BY <2>4 DEF StoreHead, Push, driverVars, SharedTypes
  <2>5. ASSUME \/ ReserveEmpty(t) \/ LoadHead(t) \/ ReleaseRefused(t) \/ Link(t)
               \/ WaitCompleted(t) \/ LookupFails(t) \/ Sleeps(t)
        PROVE  SharedTypes'
    BY <2>5 DEF ReserveEmpty, LoadHead, ReleaseRefused, Link, WaitCompleted, LookupFails, Sleeps,
                driverVars, listUse, SharedTypes
  <2> QED
    BY <1>2, <2>2, <2>3, <2>4, <2>5 DEF Steps
<1>3. ASSUME NEW t \in Threads, MsgRecvI(t) \/ MsgRecv(t) \/ Wait(t)
      PROVE  SharedTypes'
  BY <1>3 DEF MsgRecvI, MsgRecv, Wait, Calls, driverVars, listUse, SharedTypes
<1>4. ASSUME NEW i \in Indices,
             Arrive(i) \/ EndpointDelete(i) \/ \E t \in Threads : EndpointCreate(t, i)
      PROVE  SharedTypes'
  BY <1>4 DEF Arrive, EndpointDelete, EndpointCreate, listUse, SharedTypes
<1>5. ASSUME JoinsBegin \/ JoinsLink
      PROVE  SharedTypes'
  BY <1>5 DEF JoinsBegin, JoinsLink, InUse, driverVars, SharedTypes
<1> QED
  BY <1>1, <1>2, <1>3, <1>4, <1>5 DEF Next

\* A step of t that does not call the driver, or returns from it.
OffDriver(t) ==
  /\ pc'[t] \notin {"ioctl", "asleep"}
  /\ \A u \in Others(t) : pc'[u] = pc[u] /\ tmp'[u] = tmp[u] /\ call'[u] = call[u]
  /\ UNCHANGED <<nonblock, endpoints>>
  /\ overridden \subseteq overridden' \union {t}
  /\ moved \subseteq moved' \union {t}

LEMMA OffDriverKeeps ==
  ASSUME CallInv, SharedTypes', NEW t \in Threads, OffDriver(t)
  PROVE  CallInv'
<1>1. ASSUME NEW u \in Threads, u # t
      PROVE  Mode(u)' /\ Session(u)'
  <2>1. pc'[u] = pc[u] /\ tmp'[u] = tmp[u] /\ call'[u] = call[u]
    BY <1>1 DEF OffDriver, Others
  <2>2. (u \notin overridden' => u \notin overridden) /\ (u \notin moved' => u \notin moved)
    BY <1>1 DEF OffDriver
  <2>3. nonblock' = nonblock /\ endpoints' = endpoints
    BY DEF OffDriver
  <2>4. Mode(u) /\ Session(u)
    BY DEF CallInv
  <2> QED
    BY <2>1, <2>2, <2>3, <2>4, Zenon DEF Mode, Session, NonBlocking
<1>2. Mode(t)' /\ Session(t)'
  BY DEF OffDriver, Mode, Session
<1> QED
  BY <1>1, <1>2 DEF CallInv

LEMMA StepsOffDriver ==
  ASSUME Types, NEW t \in Threads,
         \/ ReserveEmpty(t) \/ LoadHead(t) \/ StoreHead(t)
         \/ ReleaseRefused(t) \/ Link(t) \/ Push(t)
         \/ WaitCompleted(t) \/ LookupFails(t)
         \/ Takes(t) \/ Fails(t) \/ TriesAgain(t)
         \/ MsgRecvI(t) \/ MsgRecv(t) \/ Wait(t)
  PROVE  OffDriver(t)
<1>1. ASSUME \/ ReserveEmpty(t) \/ ReleaseRefused(t) \/ LookupFails(t) \/ Push(t)
      PROVE  OffDriver(t)
  BY <1>1 DEF ReserveEmpty, ReleaseRefused, LookupFails, Push, Leaves, Goes, OffDriver, Types,
              driverVars, Others
<1>2. ASSUME LoadHead(t) \/ StoreHead(t) \/ Link(t) \/ WaitCompleted(t)
      PROVE  OffDriver(t)
  BY <1>2 DEF LoadHead, StoreHead, Link, WaitCompleted, Goes, OffDriver, Types, driverVars, Others
<1>3. ASSUME MsgRecvI(t) \/ MsgRecv(t) \/ Wait(t)
      PROVE  OffDriver(t)
  BY <1>3 DEF MsgRecvI, MsgRecv, Wait, Calls, Goes, OffDriver, Types, driverVars, Others
<1>4. ASSUME NEW res, Returns(t, res)
      PROVE  OffDriver(t)
  BY <1>4 DEF Returns, Leaves, Goes, OffDriver, Types, Others
<1> QED
  BY <1>1, <1>2, <1>3, <1>4 DEF Takes, Fails, TriesAgain

\* The flag and the session are those of t, and t has changed the flag of the others.
LEMMA PrepareKeeps ==
  ASSUME Types, CallInv, SharedTypes', NEW t \in Threads, Prepare(t)
  PROVE  CallInv'
<1>1. PICK i \in Indices : endpoints[i] = t /\ Goes(t, "ioctl", i)
  BY DEF Prepare, Found
<1>2. /\ pc'[t] = "ioctl" /\ tmp'[t] = i
      /\ \A u \in Others(t) : pc'[u] = pc[u] /\ tmp'[u] = tmp[u]
  BY <1>1 DEF Goes, Types, Others
<1>3. nonblock' = NonBlocking(t) /\ UNCHANGED <<call, endpoints, moved>>
  BY DEF Prepare, SetFlags
<1>4. ASSUME NEW u \in Others(t)
      PROVE  Mode(u)'
  <2>1. SUFFICES ASSUME pc[u] = "ioctl", u \notin overridden'
                 PROVE  nonblock' <=> NonBlocking(u)'
    BY <1>2, <1>4 DEF Mode
  <2>2. NonBlocking(u) = NonBlocking(t)
    BY <1>4, <2>1 DEF Prepare, SetFlags
  <2>3. NonBlocking(u)' = NonBlocking(u)
    BY <1>3 DEF NonBlocking
  <2> QED
    BY <1>3, <2>2, <2>3, Zenon
<1>5. ASSUME NEW u \in Others(t)
      PROVE  Session(u)'
  BY <1>2, <1>3, <1>5 DEF CallInv, Session, Others
<1>6. Mode(t)'
  BY <1>2, <1>3, Zenon DEF Mode, NonBlocking
<1>7. Session(t)'
  BY <1>1, <1>2, <1>3 DEF Session
<1> QED
  BY <1>4, <1>5, <1>6, <1>7 DEF CallInv, Others

LEMMA SleepsKeeps ==
  ASSUME Types, CallInv, SharedTypes', NEW t \in Threads, Sleeps(t)
  PROVE  CallInv'
<1>1. /\ pc[t] = "ioctl" /\ pc'[t] = "asleep" /\ tmp'[t] = tmp[t]
      /\ \A u \in Others(t) : pc'[u] = pc[u] /\ tmp'[u] = tmp[u]
      /\ UNCHANGED <<call, driverVars>>
  BY DEF Sleeps, NothingThere, Goes, Types, Others
<1>2. ASSUME NEW u \in Others(t)
      PROVE  Mode(u)' /\ Session(u)'
  <2>1. Mode(u) /\ Session(u)
    BY DEF CallInv, Others
  <2> QED
    BY <1>1, <1>2, <2>1, Zenon DEF Mode, Session, NonBlocking, driverVars
<1>3. Mode(t)' /\ Session(t)'
  BY <1>1 DEF CallInv, Mode, Session, driverVars
<1> QED
  BY <1>2, <1>3 DEF CallInv, Others

LEMMA AroundKeeps ==
  ASSUME CallInv, SharedTypes',
         \/ \E i \in Indices :
               Arrive(i) \/ EndpointDelete(i) \/ \E t \in Threads : EndpointCreate(t, i)
         \/ JoinsBegin \/ JoinsLink
         \/ UNCHANGED vars
  PROVE  CallInv'
<1>1. UNCHANGED <<pc, call, tmp, nonblock, overridden>>
  BY DEF Arrive, EndpointDelete, EndpointCreate, JoinsBegin, JoinsLink, vars, threadVars, driverVars
<1>2. ASSUME NEW u \in Threads
      PROVE  Mode(u)'
  <2>1. Mode(u)
    BY DEF CallInv
  <2> QED
    BY <1>1, <2>1, Zenon DEF Mode, NonBlocking
<1>3. ASSUME NEW u \in Threads
      PROVE  Session(u)'
  <2>1. SUFFICES ASSUME pc[u] \in {"ioctl", "asleep"}, u \notin moved'
                 PROVE  tmp[u] \in Indices /\ endpoints'[tmp[u]] = u
    BY <1>1 DEF Session
  <2>2. u \notin moved => tmp[u] \in Indices /\ endpoints[tmp[u]] = u /\ u # Nobody
    BY <2>1, ThreadsAssumption DEF CallInv, Session
  <2>3. ASSUME NEW i \in Indices, EndpointDelete(i)
        PROVE  tmp[u] \in Indices /\ endpoints'[tmp[u]] = u
    BY <2>1, <2>2, <2>3 DEF EndpointDelete, CallInv, SharedTypes
  <2>4. ASSUME NEW i \in Indices, NEW t \in Threads, EndpointCreate(t, i)
        PROVE  tmp[u] \in Indices /\ endpoints'[tmp[u]] = u
    BY <2>1, <2>2, <2>4 DEF EndpointCreate, CallInv, SharedTypes
  <2>5. ASSUME UNCHANGED <<endpoints, moved>>
        PROVE  tmp[u] \in Indices /\ endpoints'[tmp[u]] = u
    BY <2>1, <2>2, <2>5
  <2> QED
    BY <2>3, <2>4, <2>5 DEF Arrive, JoinsBegin, JoinsLink, vars, driverVars
<1> QED
  BY <1>2, <1>3 DEF CallInv

LEMMA CallInvStep ==
  ASSUME Types, CallInv, [Next]_vars
  PROVE  CallInv'
<1>1. SharedTypes'
  BY SharedTypesKept DEF CallInv
<1>2. ASSUME NEW t \in Threads, Steps(t) \/ MsgRecvI(t) \/ MsgRecv(t) \/ Wait(t)
      PROVE  CallInv'
  BY <1>1, <1>2, StepsOffDriver, OffDriverKeeps, PrepareKeeps, SleepsKeeps DEF Steps
<1> QED
  BY <1>1, <1>2, AroundKeeps DEF Next

\* Between its lookup and the driver a call has the flag and the session that it wants,
\* unless another thread's fcntl or a delete of its endpoint came between.
THEOREM CallsInvariant == Spec => []CallInv
<1>1. Init => CallInv
  BY CallInvInit
<1>2. IInv /\ CallInv /\ [Next]_vars => CallInv'
  BY CallInvStep DEF IInv
<1> QED
  BY <1>1, <1>2, ThreadsInvariant, PTL DEF Spec

\* Shared and local variables of the threads keep their types.
THEOREM ThreadTypes == Spec => []TypeOK
<1>1. IInv /\ CallInv => TypeOK
  BY DEF IInv, Types, JoiningType, CallInv, SharedTypes, TypeOK
<1> QED
  BY <1>1, ThreadsInvariant, CallsInvariant, PTL

\* A blocking call of any number of threads ends with EAGAIN, and a non-blocking one
\* sleeps, only if another thread set the flag between its fcntl and its ioctl.
THEOREM ModesAreKept == Spec => ModesKept
<1>1. CallInv /\ [Next]_vars =>
        [\A t \in Threads \ overridden :
           /\ Sleeps(t) => ~ NonBlocking(t)
           /\ TriesAgain(t) => NonBlocking(t)]_vars
  <2>1. SUFFICES ASSUME CallInv, NEW t \in Threads \ overridden
                 PROVE  /\ Sleeps(t) => ~ NonBlocking(t)
                        /\ TriesAgain(t) => NonBlocking(t)
    OBVIOUS
  <2>2. pc[t] = "ioctl" => (nonblock <=> NonBlocking(t))
    BY <2>1 DEF CallInv, Mode
  <2> QED
    BY <2>2, Zenon DEF Sleeps, TriesAgain, NothingThere
<1> QED
  BY <1>1, CallsInvariant, PTL DEF Spec, ModesKept

\* No thread gets a message of another endpoint unless its own was deleted between
\* the lookup and the driver.
THEOREM MessagesAreOwn == Spec => OwnMessages
<1>1. CallInv /\ [Next]_vars =>
        [\A t \in Threads \ moved : Takes(t) => endpoints[tmp[t]] = t]_vars
  BY DEF CallInv, Session, Takes
<1> QED
  BY <1>1, CallsInvariant, PTL DEF Spec, OwnMessages

=============================================================================
