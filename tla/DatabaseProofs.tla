--------------------------- MODULE DatabaseProofs ---------------------------
(***************************************************************************)
(* For every number of processes, segments and node entries, and with      *)
(* processes that die anywhere: at most one process is between lock and    *)
(* unlock and nobody once the holder died, no database is zeroed under a   *)
(* process that uses it, no node is registered twice, none is left out of  *)
(* a table with room unless two took one entry, and until a segment is     *)
(* removed under a user the processes share one table (NodeTable).         *)
(***************************************************************************)
EXTENDS Database, FiniteSetTheorems, TLAPS

\* Who has to raise the semaphore: the process that holds it and the one that
\* created it and has not set it yet.
Owners == {p \in Nodes : pc[p] \in Locked \union {"setval"}}

\* The semaphore and its owners add up to at most one.
SemaphoreSound ==
  /\ pc \in [Nodes -> Places]
  /\ semaphore \in {Absent, 0, 1}
  /\ semaphore # 0 => Owners = {}
  /\ \A p, q \in Owners : p = q
  /\ semaphore = Absent => \A p \in Nodes : pc[p] \in {"out", "semget"}

\* A process is attached to what its c_db points to, while it uses it.
AttachedToDb ==
  /\ key \in Segments \union {NoSegment}
  /\ attached \in [Nodes -> Segments \union {NoSegment}]
  /\ db \in [Nodes -> Segments \union {NoSegment}]
  /\ shmid \in [Nodes -> Segments \union {NoSegment}]
  /\ \A p \in Nodes :
       /\ pc[p] \notin {"stat", "recount", "remove", "finalized"} => attached[p] = db[p]
       /\ pc[p] = "stat" => attached[p] = shmid[p]
       /\ pc[p] \in {"recount", "remove"} => attached[p] = NoSegment
       /\ pc[p] = "finalized" /\ attached[p] # NoSegment => attached[p] = db[p]

NodesTyped ==
  /\ nodes \in [Segments -> [Entries -> Nodes \union {NoNode}]]
  /\ entry \in [Nodes -> Entries]

IInv == SemaphoreSound /\ AttachedToDb /\ NodesTyped

-----------------------------------------------------------------------------
LEMMA IInvInit ==
  ASSUME Init
  PROVE  IInv
<1>1. SemaphoreSound
  BY DEF Init, SemaphoreSound, Owners, Locked, Places, Absent
<1>2. AttachedToDb
  BY DEF Init, AttachedToDb
<1>3. NodesTyped
  BY DatabaseAssumption DEF Init, NodesTyped, Empty, Entries
<1> QED
  BY <1>1, <1>2, <1>3 DEF IInv

\* A process that moves from a place where it owns nothing to another such place
\* leaves the semaphore sound.
LEMMA MoveKeepsSemaphore ==
  ASSUME SemaphoreSound, NEW p \in Nodes, NEW from, NEW to \in Places \ {"out", "semget"},
         Go(p, from, to), UNCHANGED semaphore, semaphore # Absent,
         (from \in Locked \union {"setval"}) = (to \in Locked \union {"setval"})
  PROVE  SemaphoreSound'
<1>1. pc' \in [Nodes -> Places]
  BY DEF SemaphoreSound, Go
<1>2. Owners' = Owners
  BY DEF SemaphoreSound, Go, Owners
<1> QED
  BY <1>1, <1>2 DEF SemaphoreSound

LEMMA SemaphoreStep ==
  ASSUME SemaphoreSound, [Next]_vars
  PROVE  SemaphoreSound'
<1> USE DEF Absent
<1>u. CASE UNCHANGED vars
  BY <1>u DEF vars, kernelVars, SemaphoreSound, Owners
<1>e. ASSUME NEW p \in Nodes, pc[p] \notin {"out", "semget"}
      PROVE  semaphore # Absent
  BY <1>e DEF SemaphoreSound
<1>1. ASSUME NEW p \in Nodes, Initialize(p)
      PROVE  SemaphoreSound'
  <2>1. pc[p] = "out" /\ pc' = [pc EXCEPT ![p] = "semget"] /\ UNCHANGED semaphore
    BY <1>1 DEF Initialize, Go, kernelVars
  <2>2. Owners' = Owners /\ pc' \in [Nodes -> Places]
    BY <2>1 DEF SemaphoreSound, Owners, Locked, Places
  <2> QED
    BY <2>1, <2>2 DEF SemaphoreSound
<1>2. ASSUME NEW p \in Nodes, CreateSemaphore(p)
      PROVE  SemaphoreSound'
  <2>1. /\ semaphore = Absent /\ semaphore' = 0
        /\ pc[p] = "semget" /\ pc' = [pc EXCEPT ![p] = "setval"]
    BY <1>2 DEF CreateSemaphore, Go
  <2>2. Owners' = {p} /\ pc' \in [Nodes -> Places]
    BY <2>1 DEF SemaphoreSound, Owners, Locked, Places
  <2> QED
    BY <2>1, <2>2 DEF SemaphoreSound
<1>3. ASSUME NEW p \in Nodes, SetSemaphore(p) \/ Unlock(p)
      PROVE  SemaphoreSound'
  <2>1. pc[p] \in {"setval", "unlock"}
    BY <1>3 DEF SetSemaphore, Unlock, Go
  <2>2. semaphore = 0 /\ Owners = {p}
    BY <2>1, <1>e DEF SemaphoreSound, Owners, Locked
  <2>3. semaphore' = 1
    BY <1>3, <2>2 DEF SetSemaphore, Unlock
  <2>4. pc' = [pc EXCEPT ![p] = "lock"] \/ pc' = [pc EXCEPT ![p] = "link"]
    BY <1>3 DEF SetSemaphore, Unlock, Go
  <2>5. Owners' = {} /\ pc' \in [Nodes -> Places]
    BY <2>2, <2>4 DEF SemaphoreSound, Owners, Locked, Places
  <2> QED
    BY <2>3, <2>5 DEF SemaphoreSound
<1>4. ASSUME NEW p \in Nodes, FindSemaphore(p)
      PROVE  SemaphoreSound'
  BY <1>4, MoveKeepsSemaphore DEF FindSemaphore, kernelVars, Places, Locked
<1>5. ASSUME NEW p \in Nodes, Lock(p)
      PROVE  SemaphoreSound'
  <2>1. semaphore = 1 /\ semaphore' = 0 /\ Owners = {}
    BY <1>5 DEF Lock, SemaphoreSound
  <2>2. pc' = [pc EXCEPT ![p] = "shmget"] \/ pc' = [pc EXCEPT ![p] = "unlock"]
    BY <1>5 DEF Lock, Go
  <2>3. Owners' = {p} /\ pc' \in [Nodes -> Places]
    BY <2>1, <2>2 DEF SemaphoreSound, Owners, Locked, Places
  <2> QED
    BY <2>1, <2>3 DEF SemaphoreSound
<1>6. ASSUME NEW p \in Nodes,
             GetSegment(p) \/ Attach(p) \/ AttachFails(p) \/ Stat(p)
      PROVE  SemaphoreSound'
  <2>1. UNCHANGED semaphore
    BY <1>6 DEF GetSegment, Attach, AttachFails, Stat, kernelVars
  <2>2. \E from \in Locked, to \in Locked : Go(p, from, to)
    BY <1>6 DEF GetSegment, Attach, AttachFails, Stat, Locked
  <2>3. PICK from \in Locked, to \in Locked : Go(p, from, to)
    BY <2>2
  <2>4. pc[p] = from /\ from \notin {"out", "semget"} /\ to \in Places \ {"out", "semget"}
    BY <2>3 DEF Go, Locked, Places
  <2>5. semaphore # Absent
    BY <2>4, <1>e
  <2> QED
    BY <2>1, <2>3, <2>4, <2>5, MoveKeepsSemaphore
<1>7. ASSUME NEW p \in Nodes,
             \/ Link(p) \/ AddNodeFails(p) \/ Register(p) \/ Leave(p) \/ InitializeAgain(p)
             \/ \E n \in Entries : ChooseEntry(p, n)
      PROVE  SemaphoreSound'
  <2> DEFINE After == Places \ (Locked \union {"out", "semget", "setval"})
  <2>1. UNCHANGED semaphore
    BY <1>7 DEF Link, AddNodeFails, Register, Leave, InitializeAgain, ChooseEntry,
                Finalize, Detach, Recount, Remove, kernelVars
  <2>2. \E from \in After, to \in After : Go(p, from, to)
    BY <1>7 DEF Link, AddNodeFails, Register, Leave, InitializeAgain, ChooseEntry,
                Finalize, Detach, Recount, Remove, Places, Locked
  <2>3. PICK from \in After, to \in After : Go(p, from, to)
    BY <2>2
  <2>4. semaphore # Absent
    BY <2>3, <1>e DEF Go
  <2> QED
    BY <2>1, <2>3, <2>4, MoveKeepsSemaphore
<1>8. ASSUME NEW p \in Nodes, Die(p)
      PROVE  SemaphoreSound'
  <2>1. pc' = [pc EXCEPT ![p] = "out"] /\ UNCHANGED semaphore
    BY <1>8 DEF Die
  <2>2. Owners' \subseteq Owners /\ pc' \in [Nodes -> Places]
    BY <2>1 DEF SemaphoreSound, Owners, Locked, Places
  <2> QED
    BY <2>1, <2>2 DEF SemaphoreSound
<1> QED
  BY <1>u, <1>1, <1>2, <1>3, <1>4, <1>5, <1>6, <1>7, <1>8 DEF Next, Step

-----------------------------------------------------------------------------
LEMMA AttachedStep ==
  ASSUME IInv, [Next]_vars
  PROVE  AttachedToDb'
<1>p. pc \in [Nodes -> Places]
  BY DEF IInv, SemaphoreSound
<1>a. AttachedToDb
  BY DEF IInv
<1>u. CASE UNCHANGED vars
  BY <1>u, <1>a DEF vars, kernelVars, AttachedToDb
<1>1. ASSUME NEW p \in Nodes, Initialize(p)
      PROVE  AttachedToDb'
  BY <1>1, <1>p, <1>a DEF Initialize, Go, kernelVars, AttachedToDb
<1>2. ASSUME NEW p \in Nodes, CreateSemaphore(p)
      PROVE  AttachedToDb'
  BY <1>2, <1>p, <1>a DEF CreateSemaphore, Go, AttachedToDb
<1>3. ASSUME NEW p \in Nodes, SetSemaphore(p)
      PROVE  AttachedToDb'
  BY <1>3, <1>p, <1>a DEF SetSemaphore, Go, AttachedToDb
<1>4. ASSUME NEW p \in Nodes, FindSemaphore(p)
      PROVE  AttachedToDb'
  BY <1>4, <1>p, <1>a DEF FindSemaphore, Go, kernelVars, AttachedToDb
<1>5. ASSUME NEW p \in Nodes, Lock(p)
      PROVE  AttachedToDb'
  BY <1>5, <1>p, <1>a DEF Lock, Go, AttachedToDb
<1>6. ASSUME NEW p \in Nodes, GetSegment(p)
      PROVE  AttachedToDb'
  BY <1>6, <1>p, <1>a DEF GetSegment, Create, Go, AttachedToDb
<1>7. ASSUME NEW p \in Nodes, Attach(p)
      PROVE  AttachedToDb'
  BY <1>7, <1>p, <1>a DEF Attach, Go, AttachedToDb
<1>8. ASSUME NEW p \in Nodes, AttachFails(p)
      PROVE  AttachedToDb'
  BY <1>8, <1>p, <1>a DEF AttachFails, Go, kernelVars, AttachedToDb
<1>9. ASSUME NEW p \in Nodes, Stat(p)
      PROVE  AttachedToDb'
  BY <1>9, <1>p, <1>a DEF Stat, Go, kernelVars, AttachedToDb
<1>10. ASSUME NEW p \in Nodes, Unlock(p)
      PROVE  AttachedToDb'
  BY <1>10, <1>p, <1>a DEF Unlock, Go, AttachedToDb
<1>11. ASSUME NEW p \in Nodes, Link(p)
      PROVE  AttachedToDb'
  BY <1>11, <1>p, <1>a DEF Link, Go, kernelVars, AttachedToDb
<1>12. ASSUME NEW p \in Nodes, AddNodeFails(p)
      PROVE  AttachedToDb'
  BY <1>12, <1>p, <1>a DEF AddNodeFails, Go, kernelVars, AttachedToDb
<1>13. ASSUME NEW p \in Nodes, Register(p)
      PROVE  AttachedToDb'
  BY <1>13, <1>p, <1>a DEF Register, Go, kernelVars, AttachedToDb
<1>14. ASSUME NEW p \in Nodes, Finalize(p)
      PROVE  AttachedToDb'
  BY <1>14, <1>p, <1>a DEF Finalize, Go, kernelVars, AttachedToDb
<1>15. ASSUME NEW p \in Nodes, Detach(p)
      PROVE  AttachedToDb'
  BY <1>15, <1>p, <1>a DEF Detach, Go, AttachedToDb
<1>16. ASSUME NEW p \in Nodes, Recount(p)
      PROVE  AttachedToDb'
  BY <1>16, <1>p, <1>a DEF Recount, Go, kernelVars, AttachedToDb
<1>17. ASSUME NEW p \in Nodes, Remove(p)
      PROVE  AttachedToDb'
  BY <1>17, <1>p, <1>a DEF Remove, Go, AttachedToDb
<1>18. ASSUME NEW p \in Nodes, InitializeAgain(p)
      PROVE  AttachedToDb'
  BY <1>18, <1>p, <1>a DEF InitializeAgain, Go, kernelVars, AttachedToDb
<1>19. ASSUME NEW p \in Nodes, Die(p)
      PROVE  AttachedToDb'
  BY <1>19, <1>p, <1>a DEF Die, AttachedToDb
<1>20. ASSUME NEW p \in Nodes, NEW n \in Entries, ChooseEntry(p, n)
      PROVE  AttachedToDb'
  BY <1>20, <1>p, <1>a DEF ChooseEntry, Go, kernelVars, AttachedToDb
<1> QED
  BY <1>u, <1>1, <1>2, <1>3, <1>4, <1>5, <1>6, <1>7, <1>8, <1>9, <1>10, <1>11, <1>12, <1>13, <1>14, <1>15, <1>16, <1>17, <1>18, <1>19, <1>20
     DEF Next, Step, Leave

LEMMA NodesStep ==
  ASSUME IInv, [Next]_vars
  PROVE  NodesTyped'
<1>n. NodesTyped /\ AttachedToDb
  BY DEF IInv
<1>0. Empty \in [Entries -> Nodes \union {NoNode}] /\ 0 \in Entries
  BY DatabaseAssumption DEF Empty, Entries
<1>1. ASSUME NEW p \in Nodes, GetSegment(p)
      PROVE  NodesTyped'
  BY <1>1, <1>0, <1>n DEF GetSegment, Create, dataVars, NodesTyped
<1>2. ASSUME NEW p \in Nodes, Stat(p)
      PROVE  NodesTyped'
  BY <1>2, <1>0, <1>n DEF Stat, dataVars, NodesTyped
<1>3. ASSUME NEW p \in Nodes, NEW n \in Entries, ChooseEntry(p, n)
      PROVE  NodesTyped'
  BY <1>3, <1>n DEF ChooseEntry, dataVars, NodesTyped
<1>4. ASSUME NEW p \in Nodes, Register(p)
      PROVE  NodesTyped'
  BY <1>4, <1>0, <1>n DEF Register, NodesTyped
<1>5. ASSUME NEW p \in Nodes, Die(p)
      PROVE  NodesTyped'
  BY <1>5, <1>0, <1>n DEF Die, dataVars, NodesTyped
<1>6. CASE UNCHANGED <<dataVars, entry>>
  BY <1>6, <1>n DEF dataVars, NodesTyped
<1>7. ASSUME NEW p \in Nodes,
             \/ Initialize(p) \/ CreateSemaphore(p) \/ SetSemaphore(p) \/ FindSemaphore(p)
             \/ Lock(p) \/ Attach(p) \/ AttachFails(p) \/ Unlock(p) \/ Link(p)
             \/ AddNodeFails(p) \/ Leave(p) \/ InitializeAgain(p)
      PROVE  UNCHANGED <<dataVars, entry>>
  BY <1>7 DEF Initialize, CreateSemaphore, SetSemaphore, FindSemaphore, Lock, Attach,
              AttachFails, Unlock, Link, AddNodeFails, Leave, Finalize, Detach, Recount,
              Remove, InitializeAgain
<1> QED
  BY <1>1, <1>2, <1>3, <1>4, <1>5, <1>6, <1>7 DEF Next, Step, vars

LEMMA IInvStep ==
  ASSUME IInv, [Next]_vars
  PROVE  IInv'
BY SemaphoreStep, AttachedStep, NodesStep DEF IInv

\* The three steps that write nodes leave the entries of a database in use alone.
LEMMA ZeroingStep ==
  ASSUME IInv, [Next]_vars, NEW s \in Segments, NEW p \in Nodes,
         Using(p), db[p] = s, nodes[s] # Empty
  PROVE  nodes'[s] # Empty
<1>n. NodesTyped /\ p \in Users(s) /\ Exists(s)
  BY DatabaseAssumption DEF IInv, AttachedToDb, Using, Users, Exists
<1>1. ASSUME NEW q \in Nodes, GetSegment(q)
      PROVE  nodes'[s] = nodes[s]
  BY <1>1, <1>n DEF GetSegment, Create, Unused, dataVars, NodesTyped
<1>2. ASSUME NEW q \in Nodes, Stat(q)
      PROVE  nodes'[s] = nodes[s]
  <2>1. pc[q] = "stat" /\ q # p
    BY <1>2 DEF Stat, Go, Using
  <2>2. CASE shmid[q] = s
    BY <1>2, <1>n, <2>1, <2>2 DEF Stat, dataVars
  <2>3. CASE shmid[q] # s
    BY <1>2, <1>n, <2>3 DEF Stat, dataVars, NodesTyped
  <2> QED
    BY <2>2, <2>3
<1>3. ASSUME NEW q \in Nodes, Register(q)
      PROVE  nodes'[s] # Empty
  <2>1. CASE db[q] = s
    <3>1. nodes'[s] = [nodes[s] EXCEPT ![entry[q]] = q]
      BY <1>3, <1>n, <2>1 DEF Register, NodesTyped
    <3>2. nodes'[s][entry[q]] = q /\ entry[q] \in Entries
      BY <3>1, <1>n DEF NodesTyped
    <3>3. Empty[entry[q]] = NoNode /\ q # NoNode
      BY <3>2, DatabaseAssumption DEF Empty
    <3> QED
      BY <3>2, <3>3
  <2>2. CASE db[q] # s
    BY <1>3, <1>n, <2>2 DEF Register, NodesTyped
  <2> QED
    BY <2>1, <2>2
<1>4. ASSUME NEW q \in Nodes,
             \/ Initialize(q) \/ CreateSemaphore(q) \/ SetSemaphore(q) \/ FindSemaphore(q)
             \/ Lock(q) \/ Attach(q) \/ AttachFails(q) \/ Unlock(q) \/ Link(q)
             \/ AddNodeFails(q) \/ Leave(q) \/ InitializeAgain(q) \/ Die(q)
             \/ \E n \in Entries : ChooseEntry(q, n)
      PROVE  nodes' = nodes
  BY <1>4 DEF Initialize, CreateSemaphore, SetSemaphore, FindSemaphore, Lock, Attach,
              AttachFails, Unlock, Link, AddNodeFails, Leave, Finalize, Detach, Recount,
              Remove, InitializeAgain, Die, ChooseEntry, dataVars
<1> QED
  BY <1>1, <1>2, <1>3, <1>4 DEF Next, Step, vars, dataVars

-----------------------------------------------------------------------------
\* The inductive invariant of the database's life cycle holds in every reachable
\* state.
THEOREM DatabaseInvariant == Spec => []IInv
BY IInvInit, IInvStep, PTL DEF Spec

\* At most one process is between transport_sm_lock_semaphore and
\* transport_sm_unlock_semaphore.
THEOREM LockExcludes == Spec => []MutualExclusion
<1>1. IInv => MutualExclusion
  BY DEF IInv, SemaphoreSound, Owners, MutualExclusion
<1> QED
  BY <1>1, DatabaseInvariant, PTL

\* Once the semaphore is lost it is 0 and nobody is left to raise it.
LostLock == lost => semaphore = 0 /\ Owners = {}

LEMMA LostLockStep ==
  ASSUME SemaphoreSound, LostLock, [Next]_vars
  PROVE  LostLock'
<1>p. pc \in [Nodes -> Places]
  BY DEF SemaphoreSound
<1>1. ASSUME NEW p \in Nodes, Die(p)
      PROVE  LostLock'
  <2>1. pc' = [pc EXCEPT ![p] = "out"] /\ UNCHANGED semaphore
    BY <1>1 DEF Die
  <2>2. Owners' = Owners \ {p}
    BY <2>1, <1>p DEF Owners, Locked
  <2>3. CASE p \in Owners
    BY <2>1, <2>2, <2>3 DEF SemaphoreSound, LostLock
  <2>4. CASE p \notin Owners
    <3>1. lost' => lost
      BY <1>1, <2>4 DEF Die, Owners
    <3> QED
      BY <2>1, <2>2, <3>1 DEF LostLock
  <2> QED
    BY <2>3, <2>4
<1>2. ASSUME NEW p \in Nodes,
             \/ Initialize(p) \/ FindSemaphore(p) \/ Link(p) \/ AddNodeFails(p) \/ Register(p)
             \/ Leave(p) \/ InitializeAgain(p) \/ \E n \in Entries : ChooseEntry(p, n)
      PROVE  LostLock'
  <2>1. UNCHANGED <<semaphore, lost>>
    BY <1>2 DEF Initialize, FindSemaphore, Link, AddNodeFails, Register, Leave, Finalize,
                Detach, Recount, Remove, InitializeAgain, ChooseEntry, kernelVars, historyVars
  <2>2. \E to \in Places \ (Locked \union {"setval"}) : pc' = [pc EXCEPT ![p] = to]
    BY <1>2 DEF Initialize, FindSemaphore, Link, AddNodeFails, Register, Leave, Finalize,
                Detach, Recount, Remove, InitializeAgain, ChooseEntry, Go, Locked, Places
  <2>3. Owners' \subseteq Owners
    BY <2>2, <1>p DEF Owners
  <2> QED
    BY <2>1, <2>3 DEF LostLock
<1>3. ASSUME NEW p \in Nodes, CreateSemaphore(p) \/ Lock(p)
      PROVE  LostLock'
  <2>1. semaphore # 0
    BY <1>3 DEF CreateSemaphore, Lock, Absent
  <2>2. UNCHANGED lost
    BY <1>3 DEF CreateSemaphore, Lock, historyVars
  <2> QED
    BY <2>1, <2>2 DEF LostLock
<1>4. ASSUME NEW p \in Nodes,
             \/ SetSemaphore(p) \/ GetSegment(p) \/ Attach(p) \/ AttachFails(p) \/ Stat(p)
             \/ Unlock(p)
      PROVE  LostLock'
  <2>1. p \in Owners /\ UNCHANGED lost
    BY <1>4 DEF SetSemaphore, GetSegment, Attach, AttachFails, Stat, Unlock, Go, historyVars,
                Owners, Locked
  <2> QED
    BY <2>1 DEF LostLock
<1>5. CASE UNCHANGED vars
  BY <1>5 DEF vars, kernelVars, historyVars, Owners, LostLock
<1> QED
  BY <1>1, <1>2, <1>3, <1>4, <1>5 DEF Next, Step

\* For any number of processes and deaths, nobody enters mcapi_initialize's critical
\* section after a process died in it, or before it set the semaphore.
THEOREM NobodyLocksAfterLoss == Spec => LostLockIsForGood
<1>1. Init => LostLock
  BY DEF Init, LostLock
<1>2. IInv /\ LostLock /\ [Next]_vars => LostLock'
  BY LostLockStep DEF IInv
<1>3. IInv /\ LostLock /\ [Next]_vars =>
        [lost => \A p \in Nodes : pc[p] = "lock" => pc'[p] \in {"lock", "out"}]_vars
  <2> SUFFICES ASSUME IInv, LostLock, Next, lost, NEW p \in Nodes, pc[p] = "lock"
               PROVE  pc'[p] \in {"lock", "out"}
    BY DEF vars
  <2>1. pc \in [Nodes -> Places] /\ semaphore = 0
    BY DEF IInv, SemaphoreSound, LostLock
  <2>2. ASSUME NEW q \in Nodes, Lock(q)
        PROVE  FALSE
    BY <2>1, <2>2 DEF Lock
  <2>3. ASSUME NEW q \in Nodes, Die(q)
        PROVE  pc'[p] \in {"lock", "out"}
    BY <2>1, <2>3 DEF Die
  <2>4. ASSUME NEW q \in Nodes, Initialize(q) \/ Step(q) \/ Leave(q) \/ InitializeAgain(q)
        PROVE  pc'[p] = "lock"
    <3>1. q # p /\ \E to : pc' = [pc EXCEPT ![q] = to]
      BY <2>4 DEF Initialize, Step, CreateSemaphore, SetSemaphore, FindSemaphore, GetSegment,
                  Attach, AttachFails, Stat, Unlock, Link, AddNodeFails, Register, ChooseEntry,
                  Leave, Finalize, Detach, Recount, Remove, InitializeAgain, Go
    <3> QED
      BY <3>1, <2>1
  <2> QED
    BY <2>2, <2>3, <2>4 DEF Next
<1> QED
  BY <1>1, <1>2, <1>3, DatabaseInvariant, PTL DEF Spec, LostLockIsForGood

\* The zeroing of sm_attach_shared_mem never hits a database in use.
THEOREM NoZeroingUnderUse == Spec => ZeroedOnlyAlone
<1>1. IInv /\ [Next]_vars =>
        [\A s \in Segments, p \in Nodes :
           Using(p) /\ db[p] = s /\ nodes[s] # Empty => nodes'[s] # Empty]_vars
  BY ZeroingStep
<1> QED
  BY <1>1, DatabaseInvariant, PTL DEF Spec, ZeroedOnlyAlone

-----------------------------------------------------------------------------
(* The rest of the types                                                   *)

Counters ==
  /\ num_nodes \in [Segments -> Nat]
  /\ {lost, overlapped} \subseteq BOOLEAN
  /\ deaths \in 0 .. MaxDeaths

LEMMA CountersStep ==
  ASSUME Counters, [Next]_vars
  PROVE  Counters'
<1>1. ASSUME NEW p \in Nodes, GetSegment(p) \/ Stat(p)
      PROVE  Counters'
  <2>1. num_nodes' \in [Segments -> Nat]
    <3>1. num_nodes' = num_nodes \/ \E s : num_nodes' = [num_nodes EXCEPT ![s] = 0]
      BY <1>1 DEF GetSegment, Create, Stat, dataVars
    <3> QED
      BY <3>1 DEF Counters
  <2>2. UNCHANGED <<lost, overlapped, deaths>>
    BY <1>1 DEF GetSegment, Stat, historyVars
  <2> QED
    BY <2>1, <2>2 DEF Counters
<1>2. ASSUME NEW p \in Nodes, Register(p)
      PROVE  Counters'
  <2>1. num_nodes' = [num_nodes EXCEPT ![db[p]] = num_nodes[db[p]] + 1]
    BY <1>2 DEF Register
  <2>2. \A s \in Segments : num_nodes[s] + 1 \in Nat
    BY DEF Counters
  <2>3. num_nodes' \in [Segments -> Nat]
    BY <2>1, <2>2 DEF Counters
  <2>4. UNCHANGED <<lost, overlapped, deaths>>
    BY <1>2 DEF Register, historyVars
  <2> QED
    BY <2>3, <2>4 DEF Counters
<1>3. ASSUME NEW p \in Nodes, Remove(p)
      PROVE  Counters'
  BY <1>3 DEF Remove, dataVars, Counters
<1>4. ASSUME NEW p \in Nodes, Die(p)
      PROVE  Counters'
  <2>1. deaths' \in 0 .. MaxDeaths
    BY <1>4, DatabaseAssumption DEF Die, Counters
  <2> QED
    BY <1>4, <2>1 DEF Die, dataVars, Counters
<1>5. ASSUME NEW p \in Nodes,
             \/ Initialize(p) \/ CreateSemaphore(p) \/ SetSemaphore(p) \/ FindSemaphore(p)
             \/ Lock(p) \/ Attach(p) \/ AttachFails(p) \/ Unlock(p) \/ Link(p)
             \/ AddNodeFails(p) \/ InitializeAgain(p)
             \/ Finalize(p) \/ Detach(p) \/ Recount(p)
             \/ \E n \in Entries : ChooseEntry(p, n)
      PROVE  UNCHANGED <<num_nodes, historyVars>>
  BY <1>5 DEF Initialize, CreateSemaphore, SetSemaphore, FindSemaphore, Lock, Attach,
              AttachFails, Unlock, Link, AddNodeFails, Finalize, Detach, Recount,
              InitializeAgain, ChooseEntry, dataVars
<1>6. ASSUME UNCHANGED <<num_nodes, historyVars>>
      PROVE  Counters'
  BY <1>6 DEF historyVars, Counters
<1> QED
  BY <1>1, <1>2, <1>3, <1>4, <1>5, <1>6 DEF Next, Step, Leave, vars, dataVars

LEMMA CountersInvariant == Spec => []Counters
<1>1. Init => Counters
  <2> SUFFICES ASSUME Init
               PROVE  Counters
    OBVIOUS
  <2>1. num_nodes \in [Segments -> Nat] /\ deaths \in 0 .. MaxDeaths
    BY DatabaseAssumption DEF Init
  <2>2. lost \in BOOLEAN /\ overlapped \in BOOLEAN
    BY DEF Init
  <2> QED
    BY <2>1, <2>2 DEF Counters
<1>2. Counters /\ [Next]_vars => Counters'
  BY CountersStep
<1> QED
  BY <1>1, <1>2, PTL DEF Spec

\* The kernel's, the database's and the processes' variables keep their types.
THEOREM DatabaseTypes == Spec => []TypeOK
<1>1. IInv /\ Counters => TypeOK
  BY DEF IInv, SemaphoreSound, AttachedToDb, NodesTyped, Counters, TypeOK
<1> QED
  BY <1>1, DatabaseInvariant, CountersInvariant, PTL

-----------------------------------------------------------------------------
(* One entry for each node                                                 *)

\* A process that is about to register has a database and no entry in it: it alone
\* writes its number.
Unregistered ==
  \A p \in Nodes :
    /\ pc[p] \in {"choose", "register"} => db[p] # NoSegment
    /\ pc[p] = "register" => \A n \in Entries : nodes[db[p]][n] # p

LEMMA RegisteredStep ==
  ASSUME IInv, Unregistered, RegisteredOnce, [Next]_vars
  PROVE  Unregistered' /\ RegisteredOnce'
<1>n. NodesTyped /\ pc \in [Nodes -> Places] /\ db \in [Nodes -> Segments \union {NoSegment}]
  BY DEF IInv, SemaphoreSound, AttachedToDb
<1>d. \A p \in Nodes : pc[p] \in {"choose", "register"} => db[p] \in Segments
  BY <1>n DEF Unregistered
<1>1. ASSUME NEW p \in Nodes, GetSegment(p) \/ Stat(p)
      PROVE  Unregistered' /\ RegisteredOnce'
  <2>1. \A s \in Segments : nodes'[s] = nodes[s] \/ nodes'[s] = Empty
    BY <1>1, <1>n DEF GetSegment, Create, Stat, dataVars, NodesTyped
  <2>2. \A n \in Entries : Empty[n] = NoNode
    BY DEF Empty
  <2>3. RegisteredOnce'
    BY <2>1, <2>2 DEF RegisteredOnce
  <2>4. ASSUME NEW q \in Nodes, pc'[q] \in {"choose", "register"}
        PROVE  pc[q] = pc'[q] /\ db'[q] = db[q]
    BY <1>1, <1>n, <2>4 DEF GetSegment, Stat, Go
  <2>5. Unregistered'
    BY <2>1, <2>2, <2>4, <1>d, DatabaseAssumption DEF Unregistered
  <2> QED
    BY <2>3, <2>5
<1>2. ASSUME NEW p \in Nodes, Register(p)
      PROVE  Unregistered' /\ RegisteredOnce'
  <2>1. /\ pc[p] = "register" /\ pc' = [pc EXCEPT ![p] = "in"] /\ UNCHANGED db
        /\ nodes' = [nodes EXCEPT ![db[p]][entry[p]] = p]
        /\ db[p] \in Segments /\ entry[p] \in Entries
    BY <1>2, <1>n, <1>d DEF Register, Go, NodesTyped
  <2>2. \A s \in Segments, n \in Entries :
          nodes'[s][n] = IF s = db[p] /\ n = entry[p] THEN p ELSE nodes[s][n]
    BY <2>1, <1>n DEF NodesTyped
  <2>3. \A n \in Entries : nodes[db[p]][n] # p
    BY <2>1 DEF Unregistered
  <2>4. RegisteredOnce'
    BY <2>2, <2>3, <2>1 DEF RegisteredOnce
  <2>5. Unregistered'
    BY <2>1, <2>2, <1>n, <1>d DEF Unregistered
  <2> QED
    BY <2>4, <2>5
<1>3. ASSUME NEW p \in Nodes, NEW n \in Entries, ChooseEntry(p, n)
      PROVE  Unregistered' /\ RegisteredOnce'
  <2>1. /\ pc[p] = "choose" /\ pc' = [pc EXCEPT ![p] = "register"]
        /\ UNCHANGED <<nodes, db>> /\ ~ Registered(p)
    BY <1>3 DEF ChooseEntry, Go, dataVars
  <2>2. Unregistered'
    BY <2>1, <1>n DEF Unregistered, Registered
  <2> QED
    BY <2>1, <2>2 DEF RegisteredOnce
<1>4. ASSUME NEW p \in Nodes,
             \/ Initialize(p) \/ CreateSemaphore(p) \/ SetSemaphore(p) \/ FindSemaphore(p)
             \/ Lock(p) \/ Attach(p) \/ AttachFails(p) \/ Unlock(p) \/ Link(p)
             \/ AddNodeFails(p) \/ Leave(p) \/ InitializeAgain(p) \/ Die(p)
      PROVE  Unregistered' /\ RegisteredOnce'
  <2>1. UNCHANGED nodes
    BY <1>4 DEF Initialize, CreateSemaphore, SetSemaphore, FindSemaphore, Lock, Attach,
                AttachFails, Unlock, Link, AddNodeFails, Leave, Finalize, Detach, Recount,
                Remove, InitializeAgain, Die, dataVars
  <2>2. ASSUME NEW q \in Nodes, pc'[q] = "register"
        PROVE  pc[q] = "register" /\ db'[q] = db[q]
    BY <1>4, <1>n, <2>2
       DEF Initialize, CreateSemaphore, SetSemaphore, FindSemaphore, Lock, Attach,
           AttachFails, Unlock, Link, AddNodeFails, Leave, Finalize, Detach, Recount,
           Remove, InitializeAgain, Die, Go
  <2>3. ASSUME NEW q \in Nodes, pc'[q] = "choose"
        PROVE  db'[q] # NoSegment
    BY <1>4, <1>n, <2>3
       DEF Initialize, CreateSemaphore, SetSemaphore, FindSemaphore, Lock, Attach,
           AttachFails, Unlock, Link, AddNodeFails, Leave, Finalize, Detach, Recount,
           Remove, InitializeAgain, Die, Go, Unregistered
  <2>4. Unregistered'
    BY <2>1, <2>2, <2>3 DEF Unregistered
  <2> QED
    BY <2>1, <2>4 DEF RegisteredOnce
<1>5. ASSUME UNCHANGED vars
      PROVE  Unregistered' /\ RegisteredOnce'
  BY <1>5 DEF vars, dataVars, Unregistered, RegisteredOnce
<1> QED
  BY <1>1, <1>2, <1>3, <1>4, <1>5 DEF Next, Step

\* add_node never gives a node a second entry, for any number of processes that die
\* and come back or initialise again.
THEOREM NodesRegisterOnce == Spec => []RegisteredOnce
<1>1. Init => Unregistered /\ RegisteredOnce
  BY DEF Init, Unregistered, RegisteredOnce, Empty
<1>2. IInv /\ (Unregistered /\ RegisteredOnce) /\ [Next]_vars
        => (Unregistered /\ RegisteredOnce)'
  BY RegisteredStep
<1> QED
  BY <1>1, <1>2, DatabaseInvariant, PTL DEF Spec

-----------------------------------------------------------------------------
(* Who is left out                                                         *)

\* num_nodes counts every entry that is taken, and one that two processes took twice.
CountsTaken ==
  /\ num_nodes \in [Segments -> Nat]
  /\ \A s \in Segments : num_nodes[s] >= Cardinality(Taken(s))

\* A process that was told MCAPI_SUCCESS has a database.
InHasDb == \A p \in Nodes : pc[p] \in {"choose", "register", "in"} => db[p] \in Segments

LeftOutInv == CountsTaken /\ InHasDb /\ LeftOutOnlyWhenFull

\* There are at most as many taken entries as entries.
LEMMA TakenCount ==
  ASSUME NodesTyped, NEW s \in Segments
  PROVE  /\ IsFiniteSet(Taken(s)) /\ Cardinality(Taken(s)) \in Nat
         /\ Taken(s) = Entries => Cardinality(Taken(s)) = MaxNodes
<1>1. IsFiniteSet(Entries) /\ Cardinality(Entries) = MaxNodes
  <2>1. MaxNodes \in Nat \ {0} /\ 0 \in Int /\ MaxNodes - 1 \in Int
    BY DatabaseAssumption
  <2>2. /\ IsFiniteSet(0 .. MaxNodes - 1)
        /\ Cardinality(0 .. MaxNodes - 1) =
             IF 0 > MaxNodes - 1 THEN 0 ELSE MaxNodes - 1 - 0 + 1
    BY <2>1, FS_Interval
  <2> QED
    BY <2>1, <2>2 DEF Entries
<1>2. Taken(s) \subseteq Entries
  BY DEF Taken
<1>3. IsFiniteSet(Taken(s))
  BY <1>1, <1>2, FS_Subset
<1> QED
  BY <1>1, <1>3, FS_CardinalityType

\* What leaves the table alone, and lets nobody in, leaves nobody out.
LEMMA QuietKeepsLeftOut ==
  ASSUME LeftOutInv, UNCHANGED <<nodes, num_nodes>>,
         \A p \in Nodes : pc'[p] = "in" => pc[p] = "in" /\ db'[p] = db[p],
         InHasDb'
  PROVE  LeftOutInv'
<1>1. CountsTaken'
  BY DEF LeftOutInv, CountsTaken, Taken
<1>2. LeftOutOnlyWhenFull'
  BY DEF LeftOutInv, LeftOutOnlyWhenFull, Registered, Taken
<1> QED
  BY <1>1, <1>2 DEF LeftOutInv

LEMMA LeftOutStep ==
  ASSUME IInv, LeftOutInv, [Next]_vars
  PROVE  LeftOutInv'
<1>n. /\ NodesTyped /\ AttachedToDb /\ CountsTaken /\ InHasDb /\ LeftOutOnlyWhenFull
      /\ pc \in [Nodes -> Places] /\ db \in [Nodes -> Segments \union {NoSegment}]
  BY DEF IInv, SemaphoreSound, AttachedToDb, LeftOutInv
<1>m. MaxNodes \in Nat
  BY DatabaseAssumption
<1>1. ASSUME NEW p \in Nodes, GetSegment(p) \/ Stat(p)
      PROVE  LeftOutInv'
  <2>1. \E t \in {"attach", "unlock"} : pc' = [pc EXCEPT ![p] = t] /\ pc[p] \in {"shmget", "stat"}
    BY <1>1 DEF GetSegment, Stat, Go
  <2>2. \A q \in Nodes : pc'[q] \in {"choose", "register", "in"}
          => q # p /\ pc[q] = pc'[q] /\ db'[q] = db[q]
    BY <1>1, <2>1, <1>n DEF GetSegment, Stat
  <2>3. InHasDb'
    BY <2>2, <1>n DEF InHasDb
  <2>4. \/ UNCHANGED <<nodes, num_nodes>>
        \/ \E s \in Segments :
             /\ nodes' = [nodes EXCEPT ![s] = Empty]
             /\ num_nodes' = [num_nodes EXCEPT ![s] = 0]
             /\ \A q \in Nodes : q # p => attached[q] # s
    <3>1. CASE GetSegment(p)
      <4>1. CASE key # NoSegment
        BY <3>1, <4>1 DEF GetSegment, dataVars
      <4>2. CASE key = NoSegment
        <5>1. PICK s \in Segments : /\ Unused(s)
                                    /\ nodes' = [nodes EXCEPT ![s] = Empty]
                                    /\ num_nodes' = [num_nodes EXCEPT ![s] = 0]
          BY <3>1, <4>2 DEF GetSegment, Create
        <5>2. \A q \in Nodes : attached[q] # s
          BY <5>1, DatabaseAssumption DEF Unused, Exists, Users
        <5> QED
          BY <5>1, <5>2
      <4> QED
        BY <4>1, <4>2
    <3>2. CASE Stat(p) /\ Users(shmid[p]) # {p}
      BY <3>2 DEF Stat, dataVars
    <3>3. CASE Stat(p) /\ Users(shmid[p]) = {p}
      <4>1. /\ nodes' = [nodes EXCEPT ![shmid[p]] = Empty]
            /\ num_nodes' = [num_nodes EXCEPT ![shmid[p]] = 0]
        BY <3>3 DEF Stat
      <4>2. \A q \in Nodes : q # p => attached[q] # shmid[p]
        BY <3>3 DEF Users
      <4>3. CASE shmid[p] \in Segments
        BY <4>1, <4>2, <4>3
      <4>4. CASE shmid[p] \notin Segments
        BY <4>1, <4>4, <1>n DEF NodesTyped, CountsTaken
      <4> QED
        BY <4>3, <4>4
    <3> QED
      BY <1>1, <3>1, <3>2, <3>3
  <2>5. CASE UNCHANGED <<nodes, num_nodes>>
    BY <2>2, <2>3, <2>5, QuietKeepsLeftOut
  <2>6. ASSUME NEW s \in Segments,
               nodes' = [nodes EXCEPT ![s] = Empty], num_nodes' = [num_nodes EXCEPT ![s] = 0],
               \A q \in Nodes : q # p => attached[q] # s
        PROVE  LeftOutInv'
    <3>1. Taken(s)' = {} /\ num_nodes'[s] = 0 /\ Cardinality(Taken(s)') = 0
      BY <2>6, <1>n, FS_EmptySet DEF Taken, Empty, NodesTyped, CountsTaken
    <3>2. \A t \in Segments : t # s => /\ nodes'[t] = nodes[t] /\ num_nodes'[t] = num_nodes[t]
                                      /\ Taken(t)' = Taken(t)
      BY <2>6, <1>n DEF Taken, NodesTyped, CountsTaken
    <3>3. CountsTaken'
      BY <2>6, <3>1, <3>2, <1>n DEF CountsTaken
    <3>4. \A q \in Nodes : pc'[q] = "in" => db[q] \in Segments \ {s}
      BY <2>2, <2>6, <1>n DEF InHasDb, AttachedToDb
    <3>5. LeftOutOnlyWhenFull'
      BY <2>2, <3>2, <3>4, <1>n DEF LeftOutOnlyWhenFull, Registered
    <3> QED
      BY <2>3, <3>3, <3>5 DEF LeftOutInv
  <2> QED
    BY <2>4, <2>5, <2>6
<1>2. ASSUME NEW p \in Nodes, Register(p)
      PROVE  LeftOutInv'
  <2>0. PICK s \in Segments, n \in Entries : s = db[p] /\ n = entry[p]
    BY <1>2, <1>n DEF Register, Go, InHasDb, NodesTyped
  <2>1. /\ pc[p] = "register" /\ pc' = [pc EXCEPT ![p] = "in"] /\ UNCHANGED db
        /\ nodes' = [nodes EXCEPT ![s][n] = p]
        /\ num_nodes' = [num_nodes EXCEPT ![s] = num_nodes[s] + 1]
    BY <1>2, <2>0 DEF Register, Go
  <2>2. \A t \in Segments, m \in Entries :
          nodes'[t][m] = IF t = s /\ m = n THEN p ELSE nodes[t][m]
    BY <2>1, <1>n DEF NodesTyped
  <2>3. \A t \in Segments : num_nodes'[t] = IF t = s THEN num_nodes[t] + 1 ELSE num_nodes[t]
    BY <2>1, <1>n DEF CountsTaken
  <2>4. /\ Taken(s)' = Taken(s) \union {n}
        /\ \A t \in Segments : t # s => Taken(t)' = Taken(t)
    BY <2>1, <2>2, DatabaseAssumption DEF Taken
  <2>5. /\ Cardinality(Taken(s)) \in Nat
        /\ Cardinality(Taken(s)') <= Cardinality(Taken(s)) + 1
        /\ Cardinality(Taken(s)') \in Nat
    <3>1. IsFiniteSet(Taken(s)) /\ Cardinality(Taken(s)) \in Nat
      BY <2>1, <1>n, TakenCount
    <3>2. Cardinality(Taken(s) \union {n}) =
            IF n \in Taken(s) THEN Cardinality(Taken(s)) ELSE Cardinality(Taken(s)) + 1
      BY <3>1, FS_AddElement
    <3> QED
      BY <3>1, <3>2, <2>4
  <2>6. CountsTaken'
    <3>1. num_nodes' \in [Segments -> Nat]
      <4>1. num_nodes[s] + 1 \in Nat
        BY <2>1, <1>n DEF CountsTaken
      <4> QED
        BY <4>1, <2>1, <1>n DEF CountsTaken
    <3>2. num_nodes[s] \in Nat /\ num_nodes[s] >= Cardinality(Taken(s))
      BY <2>1, <1>n DEF CountsTaken
    <3>3. num_nodes'[s] >= Cardinality(Taken(s)')
      BY <3>2, <2>1, <2>3, <2>5
    <3>4. ASSUME NEW t \in Segments, t # s
          PROVE  num_nodes'[t] >= Cardinality(Taken(t)')
      <4>1. num_nodes'[t] = num_nodes[t] /\ Taken(t)' = Taken(t)
        BY <3>4, <2>3, <2>4
      <4> QED
        BY <4>1, <1>n DEF CountsTaken
    <3> QED
      BY <3>1, <3>3, <3>4 DEF CountsTaken
  <2>7. InHasDb'
    BY <2>1, <1>n DEF InHasDb
  <2>8. LeftOutOnlyWhenFull'
    <3> SUFFICES ASSUME NEW q \in Nodes, NEW t \in Segments, pc'[q] = "in", t = db[q],
                        \A m \in Entries : nodes'[t][m] # q
                 PROVE  num_nodes'[t] >= MaxNodes \/ num_nodes'[t] > Cardinality(Taken(t)')
      BY <2>1, <2>7 DEF LeftOutOnlyWhenFull, Registered, InHasDb
    <3>1. q # p
      BY <2>0, <2>1, <2>2
    <3>2. pc[q] = "in"
      BY <3>1, <2>1, <1>n
    <3>3. CASE t # s
      <4>1. ~ Registered(q) /\ num_nodes'[t] = num_nodes[t] /\ Taken(t)' = Taken(t)
        BY <3>3, <2>2, <2>3, <2>4 DEF Registered
      <4> QED
        BY <4>1, <3>2, <1>n DEF LeftOutOnlyWhenFull
    <3>4. CASE t = s /\ Registered(q)
      <4>1. n \in Taken(s)
        BY <3>4, <2>2, DatabaseAssumption DEF Registered, Taken
      <4>2. Taken(s)' = Taken(s)
        BY <4>1, <2>4
      <4>3. num_nodes[s] \in Nat /\ num_nodes[s] >= Cardinality(Taken(s))
        BY <2>1, <1>n DEF CountsTaken
      <4> QED
        BY <4>2, <4>3, <3>4, <2>3, <2>5
    <3>5. CASE t = s /\ ~ Registered(q)
      <4>1. num_nodes[s] >= MaxNodes \/ num_nodes[s] > Cardinality(Taken(s))
        BY <3>2, <3>5, <1>n DEF LeftOutOnlyWhenFull
      <4>2. num_nodes[s] \in Nat /\ num_nodes'[s] = num_nodes[s] + 1
        BY <2>3, <1>n DEF CountsTaken
      <4> QED
        BY <4>1, <4>2, <3>5, <2>5, <1>m
    <3> QED
      BY <3>3, <3>4, <3>5
  <2> QED
    BY <2>6, <2>7, <2>8 DEF LeftOutInv
<1>3. ASSUME NEW p \in Nodes, AddNodeFails(p)
      PROVE  LeftOutInv'
  <2>1. /\ pc[p] = "choose" /\ pc' = [pc EXCEPT ![p] = "in"]
        /\ UNCHANGED <<nodes, num_nodes, db>>
        /\ num_nodes[db[p]] = MaxNodes \/ Registered(p) \/ Free(p) = {}
    BY <1>3 DEF AddNodeFails, Go, dataVars
  <2>2. CountsTaken' /\ InHasDb'
    BY <2>1, <1>n DEF CountsTaken, Taken, InHasDb
  <2>3. \A s \in Segments : Taken(s)' = Taken(s)
    BY <2>1 DEF Taken
  <2>4. LeftOutOnlyWhenFull'
    <3> SUFFICES ASSUME NEW q \in Nodes, pc'[q] = "in", ~ Registered(q)
                 PROVE  \/ num_nodes[db[q]] >= MaxNodes
                        \/ num_nodes[db[q]] > Cardinality(Taken(db[q]))
      BY <2>1 DEF LeftOutOnlyWhenFull, Registered, Taken
    <3>1. CASE q # p
      BY <3>1, <2>1, <1>n DEF LeftOutOnlyWhenFull
    <3>2. CASE q = p /\ num_nodes[db[p]] = MaxNodes
      BY <3>2, <1>m
    <3>3. CASE q = p /\ Free(p) = {}
      <4>1. db[p] \in Segments /\ Taken(db[p]) = Entries
        BY <3>3, <2>1, <1>n DEF Free, Taken, InHasDb
      <4>2. Cardinality(Taken(db[p])) = MaxNodes
        BY <4>1, <1>n, TakenCount
      <4> QED
        BY <3>3, <4>1, <4>2, <1>n DEF CountsTaken
    <3> QED
      BY <2>1, <3>1, <3>2, <3>3
  <2> QED
    BY <2>2, <2>4 DEF LeftOutInv
<1>4. ASSUME NEW p \in Nodes,
             \/ Initialize(p) \/ CreateSemaphore(p) \/ SetSemaphore(p) \/ FindSemaphore(p)
             \/ Lock(p) \/ Attach(p) \/ AttachFails(p) \/ Unlock(p) \/ Link(p)
             \/ Leave(p) \/ InitializeAgain(p) \/ Die(p)
             \/ \E n \in Entries : ChooseEntry(p, n)
      PROVE  LeftOutInv'
  <2>1. UNCHANGED <<nodes, num_nodes>>
    BY <1>4 DEF Initialize, CreateSemaphore, SetSemaphore, FindSemaphore, Lock, Attach,
                AttachFails, Unlock, Link, ChooseEntry, Leave, Finalize, Detach, Recount,
                Remove, InitializeAgain, Die, dataVars
  <2>2. \A q \in Nodes : pc'[q] = "in" => pc[q] = "in" /\ db'[q] = db[q]
    BY <1>4, <1>n
       DEF Initialize, CreateSemaphore, SetSemaphore, FindSemaphore, Lock, Attach,
           AttachFails, Unlock, Link, ChooseEntry, Leave, Finalize, Detach, Recount,
           Remove, InitializeAgain, Die, Go
  <2>3. \A q \in Nodes : pc'[q] \in {"choose", "register"} =>
          db'[q] = db[q] /\ (pc[q] \in {"choose", "register"} \/ db[q] # NoSegment)
    BY <1>4, <1>n
       DEF Initialize, CreateSemaphore, SetSemaphore, FindSemaphore, Lock, Attach,
           AttachFails, Unlock, Link, ChooseEntry, Leave, Finalize, Detach, Recount,
           Remove, InitializeAgain, Die, Go
  <2>4. InHasDb'
    BY <2>2, <2>3, <1>n DEF InHasDb
  <2> QED
    BY <2>1, <2>2, <2>4, QuietKeepsLeftOut
<1>5. CASE UNCHANGED vars
  <2>1. UNCHANGED <<nodes, num_nodes, pc, db>>
    BY <1>5 DEF vars, dataVars
  <2> QED
    BY <2>1, <1>n, QuietKeepsLeftOut DEF InHasDb
<1> QED
  BY <1>1, <1>2, <1>3, <1>4, <1>5 DEF Next, Step

\* Whatever processes die, come back or initialise again, one that is told
\* MCAPI_SUCCESS and is in no entry found the table full, or two processes have taken
\* one entry of it.
THEOREM NobodyLeftOutOfRoom == Spec => []LeftOutOnlyWhenFull
<1>1. Init => LeftOutInv
  <2> SUFFICES ASSUME Init
               PROVE  LeftOutInv
    OBVIOUS
  <2>1. \A s \in Segments : Taken(s) = {} /\ num_nodes[s] = 0
    BY DEF Init, Taken, Empty
  <2>2. CountsTaken
    BY <2>1, FS_EmptySet DEF Init, CountsTaken
  <2> QED
    BY <2>2 DEF Init, LeftOutInv, InHasDb, LeftOutOnlyWhenFull
<1>2. IInv /\ LeftOutInv /\ [Next]_vars => LeftOutInv'
  BY LeftOutStep
<1>3. LeftOutInv => LeftOutOnlyWhenFull
  BY DEF LeftOutInv
<1> QED
  BY <1>1, <1>2, <1>3, DatabaseInvariant, PTL DEF Spec

-----------------------------------------------------------------------------
(* One database                                                            *)

\* As long as no segment was removed under a process, every process that is attached,
\* or about to be, has the segment that shmget finds.
Shared ==
  ~ overlapped =>
    /\ \A p \in Nodes : attached[p] # NoSegment => attached[p] = key
    /\ \A p \in Nodes : pc[p] = "attach" => shmid[p] = key /\ key # NoSegment
    /\ \A p \in Nodes :
         /\ pc[p] = "stat" => shmid[p] # NoSegment
         /\ pc[p] \in {"unlock", "link", "choose", "register", "in"} => db[p] # NoSegment

LEMMA SharedStep ==
  ASSUME IInv, Shared, [Next]_vars
  PROVE  Shared'
<1>p. pc \in [Nodes -> Places] /\ AttachedToDb
  BY DEF IInv, SemaphoreSound
<1>1. ASSUME NEW p \in Nodes,
             \/ Initialize(p) \/ CreateSemaphore(p) \/ SetSemaphore(p) \/ FindSemaphore(p)
      PROVE  Shared'
  BY <1>1, <1>p DEF Initialize, CreateSemaphore, SetSemaphore, FindSemaphore, Go, kernelVars,
                    historyVars, Shared
<1>2. ASSUME NEW p \in Nodes, Lock(p)
      PROVE  Shared'
  BY <1>2, <1>p DEF Lock, Go, historyVars, Shared
<1>3. ASSUME NEW p \in Nodes, GetSegment(p)
      PROVE  Shared'
  <2>1. \A q \in Nodes : pc[q] = "attach" => q = p
    BY <1>3 DEF GetSegment, Go, IInv, SemaphoreSound, Owners, Locked
  <2>2. /\ pc' = [pc EXCEPT ![p] = "attach"] /\ UNCHANGED <<attached, db, overlapped>>
        /\ shmid' = [shmid EXCEPT ![p] = key'] /\ key' # NoSegment
        /\ key = NoSegment \/ key' = key
    BY <1>3, DatabaseAssumption DEF GetSegment, Create, Go, historyVars
  <2> QED
    BY <2>1, <2>2, <1>p DEF Shared, AttachedToDb
<1>4. ASSUME NEW p \in Nodes, Attach(p)
      PROVE  Shared'
  BY <1>4, <1>p DEF Attach, Go, historyVars, Shared, AttachedToDb
<1>5. ASSUME NEW p \in Nodes, AttachFails(p)
      PROVE  Shared'
  <2>1. pc[p] = "attach" /\ ~ Exists(shmid[p]) /\ UNCHANGED overlapped
    BY <1>5 DEF AttachFails, Go, historyVars
  <2>2. overlapped
    BY <2>1 DEF Shared, Exists
  <2> QED
    BY <2>1, <2>2 DEF Shared
<1>6. ASSUME NEW p \in Nodes, Stat(p)
      PROVE  Shared'
  BY <1>6, <1>p DEF Stat, Go, kernelVars, historyVars, Shared, AttachedToDb
<1>7. ASSUME NEW p \in Nodes, Unlock(p) \/ Link(p) \/ AddNodeFails(p) \/ Register(p)
      PROVE  Shared'
  BY <1>7, <1>p DEF Unlock, Link, AddNodeFails, Register, Go, kernelVars, historyVars, Shared
<1>8. ASSUME NEW p \in Nodes, NEW n \in Entries, ChooseEntry(p, n)
      PROVE  Shared'
  BY <1>8, <1>p DEF ChooseEntry, Go, kernelVars, historyVars, Shared
<1>9. ASSUME NEW p \in Nodes, Finalize(p) \/ Recount(p)
      PROVE  Shared'
  BY <1>9, <1>p DEF Finalize, Recount, Go, kernelVars, historyVars, Shared, AttachedToDb
<1>10. ASSUME NEW p \in Nodes, Detach(p) \/ Die(p)
      PROVE  Shared'
  BY <1>10, <1>p DEF Detach, Die, Go, historyVars, Shared, AttachedToDb
<1>11. ASSUME NEW p \in Nodes, Remove(p)
      PROVE  Shared'
  <2>1. /\ UNCHANGED <<attached, db>> /\ pc' = [pc EXCEPT ![p] = "finalized"]
        /\ shmid' = [shmid EXCEPT ![p] = NoSegment]
        /\ key' = IF key = shmid[p] THEN NoSegment ELSE key
    BY <1>11 DEF Remove, Go
  <2>2. ~ overlapped' => ~ overlapped /\ \A q \in Nodes : ~ Uses(q, shmid[p])
    BY <1>11 DEF Remove
  <2> QED
    BY <2>1, <2>2, <1>p DEF Shared, Uses, AttachedToDb
<1>12. ASSUME NEW p \in Nodes, InitializeAgain(p)
      PROVE  Shared'
  BY <1>12, <1>p DEF InitializeAgain, Go, kernelVars, historyVars, Shared
<1>13. ASSUME UNCHANGED vars
      PROVE  Shared'
  BY <1>13 DEF vars, kernelVars, historyVars, Shared
<1> QED
  BY <1>1, <1>2, <1>3, <1>4, <1>5, <1>6, <1>7, <1>8, <1>9, <1>10, <1>11, <1>12, <1>13
     DEF Next, Step, Leave

\* Processes share one database, mapped while they use it, for any number of processes
\* and deaths, unless a finalize removed the segment under a process that had come since.
THEOREM DatabaseIsShared == Spec => []OneDatabase
<1>1. Init => Shared
  BY DEF Init, Shared
<1>2. IInv /\ Shared /\ [Next]_vars => Shared'
  BY SharedStep
<1>3. IInv /\ Shared => OneDatabase
  BY DEF IInv, AttachedToDb, Shared, OneDatabase, Using
<1> QED
  BY <1>1, <1>2, <1>3, DatabaseInvariant, PTL DEF Spec

-----------------------------------------------------------------------------
(* The abstract table                                                      *)

\* A process that is going to attach has no database yet.
Fresh == \A p \in Nodes : pc[p] \in {"shmget", "attach"} => db[p] = NoSegment

LEMMA FreshStep ==
  ASSUME IInv, Fresh, [Next]_vars
  PROVE  Fresh'
<1>p. pc \in [Nodes -> Places] /\ db \in [Nodes -> Segments \union {NoSegment}]
  BY DEF IInv, SemaphoreSound, AttachedToDb
<1>1. ASSUME NEW p \in Nodes,
             \/ Initialize(p) \/ CreateSemaphore(p) \/ SetSemaphore(p) \/ FindSemaphore(p)
             \/ AttachFails(p) \/ Stat(p) \/ Unlock(p) \/ Link(p)
             \/ AddNodeFails(p) \/ Register(p) \/ Leave(p) \/ InitializeAgain(p) \/ Die(p)
             \/ \E n \in Entries : ChooseEntry(p, n)
      PROVE  \A q \in Nodes : pc'[q] \in {"shmget", "attach"} => pc[q] = pc'[q] /\ db'[q] = db[q]
  BY <1>1, <1>p
     DEF Initialize, CreateSemaphore, SetSemaphore, FindSemaphore, AttachFails, Stat, Unlock,
         Link, AddNodeFails, Register, Leave, Finalize, Detach, Recount, Remove,
         InitializeAgain, Die, ChooseEntry, Go
<1>2. ASSUME NEW p \in Nodes, Lock(p) \/ GetSegment(p) \/ Attach(p)
      PROVE  Fresh'
  BY <1>2, <1>p DEF Lock, GetSegment, Attach, Go, Fresh
<1>3. CASE UNCHANGED vars
  BY <1>3 DEF vars, Fresh
<1> QED
  BY <1>1, <1>2, <1>3 DEF Next, Step, Fresh

\* Members are attached to the segment that the others find.
LEMMA MembersShare ==
  ASSUME IInv, Shared, ~ overlapped, NEW p \in Members
  PROVE  p \in Nodes /\ attached[p] = key /\ key \in Segments /\ pc[p] # "stat"
BY DEF IInv, AttachedToDb, Shared, Members

\* What does not change the members, the segment that is found or its entries is a
\* stuttering step of the table.
LEMMA TableStutters ==
  ASSUME Members' = Members, SharedTable' = SharedTable, UNCHANGED overlapped
  PROVE  [Table!Next]_(Table!vars)
BY DEF Table!vars

\* Once broken, the table stays broken.
LEMMA OverlapStays ==
  ASSUME [Next]_vars, overlapped
  PROVE  overlapped' /\ UNCHANGED <<Members, SharedTable>>
<1>1. overlapped'
  BY DEF Next, Step, Leave, Initialize, CreateSemaphore, SetSemaphore, FindSemaphore, Lock,
         GetSegment, Attach, AttachFails, Stat, Unlock, Link, ChooseEntry, AddNodeFails,
         Register, Finalize, Detach, Recount, Remove, InitializeAgain, Die, historyVars, vars
<1> QED
  BY <1>1 DEF Members, SharedTable

\* The first to attach empties the table: no other member is left.
LEMMA StatJoins ==
  ASSUME IInv, Shared, ~ overlapped, NEW p \in Nodes, Stat(p)
  PROVE  Table!Join(p)
<1>p. /\ pc \in [Nodes -> Places] /\ attached \in [Nodes -> Segments \union {NoSegment}]
      /\ NodesTyped
  BY DEF IInv, SemaphoreSound, AttachedToDb
<1>1. /\ pc[p] = "stat" /\ pc' = [pc EXCEPT ![p] = "unlock"]
      /\ UNCHANGED <<key, attached, overlapped>>
  BY DEF Stat, Go, kernelVars, historyVars
<1>2. attached[p] = key /\ shmid[p] = key /\ key \in Segments
  BY <1>1 DEF IInv, AttachedToDb, Shared
<1>3. \A q \in Nodes : pc[q] = "stat" => q = p
  BY <1>1 DEF IInv, SemaphoreSound, Owners, Locked
<1>4. Members = {q \in Nodes : attached[q] # NoSegment} \ {p}
  BY <1>1, <1>3 DEF Members
<1>5. p \notin Members /\ Members' = Members \union {p}
  BY <1>1, <1>2, <1>3, <1>p, DatabaseAssumption DEF Members
<1>6. Members = {} <=> Users(key) = {p}
  <2>1. \A q \in Nodes : attached[q] # NoSegment <=> attached[q] = key
    BY <1>2, DatabaseAssumption DEF Shared
  <2> QED
    BY <2>1, <1>2, <1>4 DEF Users
<1>7. SharedTable = nodes[key] /\ SharedTable' = nodes'[key]
  BY <1>1, <1>2, DatabaseAssumption DEF SharedTable
<1>8. nodes'[key] = IF Members = {} THEN Empty ELSE nodes[key]
  BY <1>2, <1>6, <1>p DEF Stat, dataVars, NodesTyped
<1> QED
  BY <1>1, <1>5, <1>7, <1>8 DEF Table!Join, Table!NobodyIn, Empty

\* add_node registers a member that was in no entry.
LEMMA RegisterEnters ==
  ASSUME IInv, Shared, Unregistered, ~ overlapped, NEW p \in Nodes, Register(p)
  PROVE  \E n \in Entries : Table!Enter(p, n)
<1>1. /\ pc[p] = "register" /\ pc' = [pc EXCEPT ![p] = "in"]
      /\ UNCHANGED <<key, attached, overlapped>>
      /\ nodes' = [nodes EXCEPT ![db[p]][entry[p]] = p]
  BY DEF Register, Go, kernelVars, historyVars
<1>2. attached[p] = db[p] /\ db[p] = key /\ key \in Segments /\ entry[p] \in Entries
  BY <1>1 DEF IInv, AttachedToDb, NodesTyped, Shared
<1>3. p \in Members /\ Members' = Members
  BY <1>1, <1>2, DatabaseAssumption DEF Members, IInv, SemaphoreSound
<1>4. SharedTable = nodes[key] /\ SharedTable' = nodes'[key]
  BY <1>1, <1>2, DatabaseAssumption DEF SharedTable
<1>5. nodes'[key] = [nodes[key] EXCEPT ![entry[p]] = p]
  BY <1>1, <1>2 DEF IInv, NodesTyped
<1>6. \A m \in Entries : nodes[key][m] # p
  BY <1>1, <1>2 DEF Unregistered
<1>7. Table!Enter(p, entry[p])
  BY <1>1, <1>3, <1>4, <1>5, <1>6 DEF Table!Enter
<1> QED
  BY <1>2, <1>7

\* Whoever detaches or dies is no member any more.
LEMMA DetachDeparts ==
  ASSUME IInv, ~ overlapped, NEW p \in Nodes, Detach(p) \/ Die(p)
  PROVE  Table!Depart(p) \/ UNCHANGED <<Members, SharedTable, overlapped>>
<1>1. /\ attached' = [attached EXCEPT ![p] = NoSegment] /\ UNCHANGED <<key, nodes, overlapped>>
      /\ \A q \in Nodes \ {p} : pc'[q] = pc[q]
  BY DEF Detach, Die, Go, dataVars, historyVars, IInv, SemaphoreSound
<1>2. Members' = Members \ {p}
  BY <1>1 DEF Members, IInv, AttachedToDb
<1>3. SharedTable' = SharedTable
  BY <1>1 DEF SharedTable
<1> QED
  BY <1>1, <1>2, <1>3 DEF Table!Depart

\* IPC_RMID removes the table of nobody, or breaks it.
LEMMA RemoveVanishes ==
  ASSUME IInv, Shared, Counters, ~ overlapped, NEW p \in Nodes, Remove(p)
  PROVE  \/ Table!Break(p) \/ Table!Vanish
         \/ UNCHANGED <<Members, SharedTable, overlapped>>
<1>1. /\ pc[p] = "remove" /\ UNCHANGED <<attached, nodes>>
      /\ key' = IF key = shmid[p] THEN NoSegment ELSE key
      /\ pc' = [pc EXCEPT ![p] = "finalized"]
  BY DEF Remove, Go, dataVars
<1>2. p \notin Members
  BY <1>1 DEF Members, IInv, AttachedToDb
<1>3. CASE overlapped'
  <2>1. Members' = {} /\ SharedTable' = Empty
    BY <1>3 DEF Members, SharedTable
  <2> QED
    BY <1>2, <1>3, <2>1 DEF Table!Break, Table!NobodyIn, Empty
<1>4. CASE ~ overlapped'
  <2>1. Members' = Members
    BY <1>1, <1>4 DEF Members, IInv, SemaphoreSound
  <2>o. UNCHANGED overlapped
    BY <1>4 DEF Remove, Counters
  <2>2. CASE key = shmid[p]
    <3>1. \A q \in Nodes : attached[q] # key
      BY <1>4, <2>2 DEF Remove, Uses
    <3>2. Members = {}
      BY <3>1, MembersShare
    <3>3. SharedTable' = Empty
      BY <1>1, <2>2 DEF SharedTable
    <3> QED
      BY <2>1, <2>o, <3>2, <3>3 DEF Table!Vanish, Table!NobodyIn, Empty
  <2>3. CASE key # shmid[p]
    BY <1>1, <2>1, <2>o, <2>3 DEF SharedTable
  <2> QED
    BY <2>2, <2>3
<1> QED
  BY <1>3, <1>4

\* The other steps do not show in the table: a new segment is as empty as none, and a
\* process that attaches has yet to count.
LEMMA OtherStepsStutter ==
  ASSUME IInv, Shared, Fresh, ~ overlapped, NEW p \in Nodes,
         \/ Initialize(p) \/ CreateSemaphore(p) \/ SetSemaphore(p) \/ FindSemaphore(p)
         \/ Lock(p) \/ GetSegment(p) \/ Attach(p) \/ AttachFails(p) \/ Unlock(p) \/ Link(p)
         \/ AddNodeFails(p) \/ Finalize(p) \/ Recount(p) \/ InitializeAgain(p)
         \/ \E n \in Entries : ChooseEntry(p, n)
  PROVE  UNCHANGED <<Members, SharedTable, overlapped>>
<1>p. /\ pc \in [Nodes -> Places] /\ attached \in [Nodes -> Segments \union {NoSegment}]
      /\ NodesTyped
  BY DEF IInv, SemaphoreSound, AttachedToDb
<1>1. CASE GetSegment(p)
  <2>1. UNCHANGED <<attached, overlapped>> /\ pc[p] = "shmget" /\ pc' = [pc EXCEPT ![p] = "attach"]
    BY <1>1 DEF GetSegment, Go, historyVars
  <2>2. Members' = Members
    BY <2>1, <1>p DEF Members
  <2>3. CASE key # NoSegment
    <3>1. UNCHANGED <<key, nodes>>
      BY <1>1, <2>3 DEF GetSegment, dataVars
    <3> QED
      BY <2>1, <2>2, <3>1 DEF SharedTable
  <2>4. CASE key = NoSegment
    <3>1. key' \in Segments /\ nodes' = [nodes EXCEPT ![key'] = Empty]
      BY <1>1, <2>4 DEF GetSegment, Create
    <3>2. nodes'[key'] = Empty /\ key' # NoSegment
      BY <3>1, <1>p, DatabaseAssumption DEF NodesTyped
    <3> QED
      BY <2>1, <2>2, <2>4, <3>2 DEF SharedTable
  <2> QED
    BY <2>3, <2>4, <2>2, <2>1
<1>2. CASE Attach(p)
  <2>1. /\ UNCHANGED <<key, nodes, overlapped>> /\ pc[p] = "attach"
        /\ pc' = [pc EXCEPT ![p] = "stat"]
        /\ attached' = [attached EXCEPT ![p] = shmid[p]]
    BY <1>2 DEF Attach, Go, dataVars, historyVars
  <2>2. attached[p] = NoSegment
    BY <2>1 DEF Fresh, IInv, AttachedToDb
  <2>3. Members' = Members
    BY <2>1, <2>2, <1>p DEF Members
  <2> QED
    BY <2>1, <2>3 DEF SharedTable
<1>3. CASE ~ (GetSegment(p) \/ Attach(p))
  <2>1. UNCHANGED <<key, attached, nodes, overlapped>>
    BY <1>3 DEF Initialize, CreateSemaphore, SetSemaphore, FindSemaphore, Lock, AttachFails,
                Unlock, Link, AddNodeFails, Finalize, Recount, InitializeAgain, ChooseEntry,
                kernelVars, dataVars, historyVars
  <2>2. pc[p] # "stat" /\ pc'[p] # "stat" /\ \A q \in Nodes \ {p} : pc'[q] = pc[q]
    BY <1>3, <1>p
       DEF Initialize, CreateSemaphore, SetSemaphore, FindSemaphore, Lock, AttachFails,
           Unlock, Link, AddNodeFails, Finalize, Recount, InitializeAgain, ChooseEntry, Go
  <2>3. Members' = Members
    BY <2>1, <2>2 DEF Members
  <2> QED
    BY <2>1, <2>3 DEF SharedTable
<1> QED
  BY <1>1, <1>2, <1>3

\* The processes with their semaphore, segments and counts implement the one table.
THEOREM ProcessesShareTable == Spec => ImplementsTable
<1>1. Init => Shared /\ Unregistered /\ RegisteredOnce /\ Fresh
  BY DEF Init, Shared, Unregistered, RegisteredOnce, Empty, Fresh
<1>2. IInv /\ (Shared /\ Unregistered /\ RegisteredOnce /\ Fresh) /\ [Next]_vars
        => (Shared /\ Unregistered /\ RegisteredOnce /\ Fresh)'
  BY SharedStep, RegisteredStep, FreshStep
<1>3. Init => Table!Init
  BY DEF Init, Table!Init, Members, SharedTable, Empty, Table!NobodyIn
<1>4. IInv /\ Shared /\ Unregistered /\ Fresh /\ Counters /\ [Next]_vars => [Table!Next]_(Table!vars)
  <2> SUFFICES ASSUME IInv, Shared, Unregistered, Fresh, Counters, [Next]_vars
               PROVE  [Table!Next]_(Table!vars)
    OBVIOUS
  <2>1. CASE overlapped
    BY <2>1, OverlapStays, TableStutters
  <2>2. CASE UNCHANGED vars
    BY <2>2, TableStutters
       DEF vars, kernelVars, dataVars, historyVars, Members, SharedTable
  <2>3. ASSUME ~ overlapped, NEW p \in Nodes, Stat(p)
        PROVE  [Table!Next]_(Table!vars)
    BY <2>3, StatJoins DEF Table!Next
  <2>4. ASSUME ~ overlapped, NEW p \in Nodes, Register(p)
        PROVE  [Table!Next]_(Table!vars)
    BY <2>4, RegisterEnters DEF Table!Next
  <2>5. ASSUME ~ overlapped, NEW p \in Nodes, Detach(p) \/ Die(p)
        PROVE  [Table!Next]_(Table!vars)
    BY <2>5, DetachDeparts, TableStutters DEF Table!Next
  <2>6. ASSUME ~ overlapped, NEW p \in Nodes, Remove(p)
        PROVE  [Table!Next]_(Table!vars)
    BY <2>6, RemoveVanishes, TableStutters DEF Table!Next
  <2>7. ASSUME ~ overlapped, NEW p \in Nodes,
               \/ Initialize(p) \/ CreateSemaphore(p) \/ SetSemaphore(p) \/ FindSemaphore(p)
               \/ Lock(p) \/ GetSegment(p) \/ Attach(p) \/ AttachFails(p) \/ Unlock(p)
               \/ Link(p) \/ AddNodeFails(p) \/ Finalize(p) \/ Recount(p)
               \/ InitializeAgain(p) \/ \E n \in Entries : ChooseEntry(p, n)
        PROVE  [Table!Next]_(Table!vars)
    BY <2>7, OtherStepsStutter, TableStutters
  <2> QED
    BY <2>1, <2>2, <2>3, <2>4, <2>5, <2>6, <2>7 DEF Next, Step, Leave
<1> QED
  BY <1>1, <1>2, <1>3, <1>4, DatabaseInvariant, CountersInvariant, PTL
     DEF Spec, ImplementsTable, Table!Spec
=============================================================================
