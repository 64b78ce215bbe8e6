------------------------------ MODULE Database ------------------------------
(***************************************************************************)
(* The life of the shared database: mcapi_initialize and mcapi_finalize of *)
(* several processes (mcapi_trans_initialize_, mcapi_trans_add_node,       *)
(* mcapi_trans_finalize and the semaphore and shared memory functions of   *)
(* mcapi_trans_stub.c), one step per system call and per access to the     *)
(* database.  A process can die between any two steps.                     *)
(*                                                                         *)
(* The kernel is external: a segment is found by its key until it is       *)
(* removed, lives on while a process is attached, and is zero when it is   *)
(* created; the semaphore outlives every process.                          *)
(***************************************************************************)
EXTENDS Integers, FiniteSets

CONSTANTS
  Nodes,          \* processes; each is a node with a number of its own
  MaxNodes,       \* MCA_MAX_NODES, 2 in the build
  Segments,       \* shared memory segments
  NoSegment, NoNode,
  Repeaters,      \* processes that initialise again without a finalize
  MaxDeaths       \* bound: how many times processes may end

ASSUME DatabaseAssumption ==
  /\ MaxNodes \in Nat \ {0}
  /\ MaxDeaths \in Nat /\ Repeaters \subseteq Nodes
  /\ NoSegment \notin Segments
  /\ NoNode \notin Nodes

Entries == 0 .. MaxNodes - 1

Absent == -1      \* the semaphore does not exist

VARIABLES
  semaphore,      \* kernel: value of the semaphore, or Absent
  key,            \* kernel: the segment that shmget finds, or NoSegment
  attached,       \* kernel: the segment a process is attached to
  nodes,          \* nodes[s][n]: node_num of a valid entry of segment s, or NoNode
  num_nodes,      \* num_nodes of segment s; more than MaxNodes only when several
                  \* processes chose one entry, which is far from its 16 bits
  pc,             \* where a process is in initialize or finalize
  shmid,          \* its local variable shmid
  db,             \* its c_db
  entry,          \* its local variable n in add_node
  lost,           \* history: a process died that had to raise the semaphore
  overlapped,     \* history: a segment was removed while a process used it
  deaths          \* bound: deaths so far

kernelVars == <<semaphore, key, attached>>
dataVars == <<nodes, num_nodes>>
historyVars == <<lost, overlapped, deaths>>
vars == <<kernelVars, dataVars, pc, shmid, db, entry, historyVars>>

Empty == [n \in Entries |-> NoNode]

Init ==
  /\ semaphore = Absent
  /\ key = NoSegment
  /\ attached = [p \in Nodes |-> NoSegment]
  /\ nodes = [s \in Segments |-> Empty]
  /\ num_nodes = [s \in Segments |-> 0]
  /\ pc = [p \in Nodes |-> "out"]
  /\ shmid = [p \in Nodes |-> NoSegment]
  /\ db = [p \in Nodes |-> NoSegment]
  /\ entry = [p \in Nodes |-> 0]
  /\ lost = FALSE
  /\ overlapped = FALSE
  /\ deaths = 0

Go(p, from, to) == pc[p] = from /\ pc' = [pc EXCEPT ![p] = to]

\* shm_nattch
Users(s) == {p \in Nodes : attached[p] = s}

Exists(s) == s # NoSegment /\ (s = key \/ Users(s) # {})

\* Between lock and unlock.
Locked == {"shmget", "attach", "stat", "unlock"}

-----------------------------------------------------------------------------
(* mcapi_initialize                                                        *)

\* c_db is NULL.
Initialize(p) ==
  /\ Go(p, "out", "semget")
  /\ UNCHANGED <<kernelVars, dataVars, shmid, db, entry, historyVars>>

CreateSemaphore(p) ==
  /\ Go(p, "semget", "setval")
  /\ semaphore = Absent
  /\ semaphore' = 0
  /\ UNCHANGED <<key, attached, dataVars, shmid, db, entry, historyVars>>

SetSemaphore(p) ==
  /\ Go(p, "setval", "lock")
  /\ semaphore' = 1
  /\ UNCHANGED <<key, attached, dataVars, shmid, db, entry, historyVars>>

\* Mutant: a process that finds the semaphore sets it too.
FindSemaphoreSets(p) ==
  /\ Go(p, "semget", "lock")
  /\ semaphore # Absent
  /\ semaphore' = 1
  /\ UNCHANGED <<key, attached, dataVars, shmid, db, entry, historyVars>>

\* EEXIST
FindSemaphore(p) ==
  /\ Go(p, "semget", "lock")
  /\ semaphore # Absent
  /\ UNCHANGED <<kernelVars, dataVars, shmid, db, entry, historyVars>>

\* A process that initialises again keeps its c_db.
Lock(p) ==
  /\ semaphore > 0
  /\ Go(p, "lock", IF db[p] = NoSegment THEN "shmget" ELSE "unlock")
  /\ semaphore' = semaphore - 1
  /\ UNCHANGED <<key, attached, dataVars, shmid, db, entry, historyVars>>

\* No segment, and no process has its number in a variable: the kernel may use it.
Unused(s) == ~ Exists(s) /\ \A q \in Nodes : shmid[q] # s

\* shmget makes a segment.  Which number it gets makes no difference.
Create(p) ==
  LET s == CHOOSE s \in Segments : Unused(s) IN
  /\ s \in Segments /\ Unused(s)
  /\ key' = s
  /\ shmid' = [shmid EXCEPT ![p] = s]
  /\ nodes' = [nodes EXCEPT ![s] = Empty]
  /\ num_nodes' = [num_nodes EXCEPT ![s] = 0]

\* Mutant: the segment that exists already is not looked up.
GetSegmentNew(p) ==
  /\ Go(p, "shmget", "attach")
  /\ Create(p)
  /\ UNCHANGED <<semaphore, attached, db, entry, historyVars>>

GetSegment(p) ==
  /\ Go(p, "shmget", "attach")
  /\ \/ key = NoSegment /\ Create(p)
     \/ key # NoSegment /\ shmid' = [shmid EXCEPT ![p] = key] /\ UNCHANGED <<key, dataVars>>
  /\ UNCHANGED <<semaphore, attached, db, entry, historyVars>>

Attach(p) ==
  /\ Go(p, "attach", "stat")
  /\ Exists(shmid[p])
  /\ attached' = [attached EXCEPT ![p] = shmid[p]]
  /\ UNCHANGED <<semaphore, key, dataVars, shmid, db, entry, historyVars>>

\* The segment is gone: shm_addr and c_db are NULL, and the call goes on.
AttachFails(p) ==
  /\ Go(p, "attach", "unlock")
  /\ ~ Exists(shmid[p])
  /\ shmid' = [shmid EXCEPT ![p] = NoSegment]
  /\ UNCHANGED <<kernelVars, dataVars, db, entry, historyVars>>

\* Mutant: the segment is zeroed whoever else is attached.
StatAlways(p) ==
  /\ Go(p, "stat", "unlock")
  /\ nodes' = [nodes EXCEPT ![shmid[p]] = Empty]
  /\ num_nodes' = [num_nodes EXCEPT ![shmid[p]] = 0]
  /\ db' = [db EXCEPT ![p] = shmid[p]]
  /\ shmid' = [shmid EXCEPT ![p] = NoSegment]
  /\ UNCHANGED <<kernelVars, entry, historyVars>>

\* Mutant: the segment is never zeroed.
StatNever(p) ==
  /\ Go(p, "stat", "unlock")
  /\ db' = [db EXCEPT ![p] = shmid[p]]
  /\ shmid' = [shmid EXCEPT ![p] = NoSegment]
  /\ UNCHANGED <<kernelVars, dataVars, entry, historyVars>>

\* The first to attach zeroes the segment.  No other process can attach before p
\* unlocks, so that the count is still right then.
Stat(p) ==
  LET s == shmid[p] IN
  /\ Go(p, "stat", "unlock")
  /\ IF Users(s) = {p}
       THEN /\ nodes' = [nodes EXCEPT ![s] = Empty]
            /\ num_nodes' = [num_nodes EXCEPT ![s] = 0]
       ELSE UNCHANGED dataVars
  /\ db' = [db EXCEPT ![p] = s]
  /\ shmid' = [shmid EXCEPT ![p] = NoSegment]
  /\ UNCHANGED <<kernelVars, entry, historyVars>>

\* Mutant: a process that attached to an existing segment does not unlock.
UnlockForgets(p) ==
  /\ Go(p, "unlock", "link")
  /\ semaphore' = IF Cardinality(Users(db[p])) > 1 THEN semaphore ELSE semaphore + 1
  /\ UNCHANGED <<key, attached, dataVars, shmid, db, entry, historyVars>>

Unlock(p) ==
  /\ Go(p, "unlock", "link")
  /\ semaphore' = semaphore + 1
  /\ UNCHANGED <<key, attached, dataVars, shmid, db, entry, historyVars>>

\* mcapi_trans_init_request_indexed_array, for whoever uses the list (which is
\* not part of this module).  With c_db NULL the process dies here.
Link(p) ==
  /\ Go(p, "link", "choose")
  /\ db[p] # NoSegment
  /\ UNCHANGED <<kernelVars, dataVars, shmid, db, entry, historyVars>>

Free(p) == {n \in Entries : nodes[db[p]][n] = NoNode}

Registered(p) == \E n \in Entries : nodes[db[p]][n] = p

\* Mutant: add_node does not look for the node among the entries.
ChooseEntryAgain(p, n) ==
  /\ Go(p, "choose", "register")
  /\ num_nodes[db[p]] # MaxNodes
  /\ n \in Free(p) /\ \A m \in Free(p) : n <= m
  /\ entry' = [entry EXCEPT ![p] = n]
  /\ UNCHANGED <<kernelVars, dataVars, shmid, db, historyVars>>

\* add_node looks for the first entry that is not valid.
ChooseEntry(p, n) ==
  /\ Go(p, "choose", "register")
  /\ num_nodes[db[p]] # MaxNodes /\ ~ Registered(p)
  /\ n \in Free(p) /\ \A m \in Free(p) : n <= m
  /\ entry' = [entry EXCEPT ![p] = n]
  /\ UNCHANGED <<kernelVars, dataVars, shmid, db, historyVars>>

\* add_node returns FALSE, which mcapi_trans_initialize does not look at.
AddNodeFails(p) ==
  /\ Go(p, "choose", "in")
  /\ num_nodes[db[p]] = MaxNodes \/ Registered(p) \/ Free(p) = {}
  /\ UNCHANGED <<kernelVars, dataVars, shmid, db, entry, historyVars>>

\* Mutant: the entry is not counted.
RegisterUncounted(p) ==
  /\ Go(p, "register", "in")
  /\ nodes' = [nodes EXCEPT ![db[p]][entry[p]] = p]
  /\ entry' = [entry EXCEPT ![p] = 0]
  /\ UNCHANGED <<kernelVars, num_nodes, shmid, db, historyVars>>

Register(p) ==
  /\ Go(p, "register", "in")
  /\ nodes' = [nodes EXCEPT ![db[p]][entry[p]] = p]
  /\ num_nodes' = [num_nodes EXCEPT ![db[p]] = @ + 1]
  /\ entry' = [entry EXCEPT ![p] = 0]
  /\ UNCHANGED <<kernelVars, shmid, db, historyVars>>

-----------------------------------------------------------------------------
(* mcapi_finalize                                                          *)

\* The segment is looked up by its key again; with none the call returns, and the
\* process stays attached.
Finalize(p) ==
  /\ Go(p, "in", IF key = NoSegment THEN "finalized" ELSE "detach")
  /\ shmid' = [shmid EXCEPT ![p] = key]
  /\ UNCHANGED <<kernelVars, dataVars, db, entry, historyVars>>

\* c_db keeps its value.
Detach(p) ==
  /\ Go(p, "detach", "recount")
  /\ attached' = [attached EXCEPT ![p] = NoSegment]
  /\ UNCHANGED <<semaphore, key, dataVars, shmid, db, entry, historyVars>>

Recount(p) ==
  LET last == Exists(shmid[p]) /\ Users(shmid[p]) = {} IN
  /\ Go(p, "recount", IF last THEN "remove" ELSE "finalized")
  /\ shmid' = [shmid EXCEPT ![p] = IF last THEN @ ELSE NoSegment]
  /\ UNCHANGED <<kernelVars, dataVars, db, entry, historyVars>>

\* q is attached to s, or about to be.
Uses(q, s) == attached[q] = s \/ (pc[q] = "attach" /\ shmid[q] = s)

Remove(p) ==
  LET s == shmid[p] IN
  /\ Go(p, "remove", "finalized")
  /\ key' = IF key = s THEN NoSegment ELSE key
  /\ shmid' = [shmid EXCEPT ![p] = NoSegment]
  /\ overlapped' = (overlapped \/ \E q \in Nodes : Uses(q, s))
  /\ UNCHANGED <<semaphore, attached, dataVars, db, entry, lost, deaths>>

\* mcapi_initialize by a process that is initialised, or after mcapi_finalize: whatever
\* it reads of entry 0, mcapi_trans_initialized answers FALSE, and the call goes on with
\* the c_db it has.  A process that finalize has detached dies of using c_db; when
\* finalize returned early the process is still attached and goes on.
InitializeAgain(p) ==
  /\ \/ Go(p, "in", "lock") /\ p \in Repeaters
     \/ Go(p, "finalized", "lock")
  /\ attached[p] # NoSegment
  /\ UNCHANGED <<kernelVars, dataVars, shmid, db, entry, historyVars>>

-----------------------------------------------------------------------------
\* A process that would relink the request list of no database, which it dies of.
NoDatabase(p) == pc[p] = "link" /\ db[p] = NoSegment

\* Mutant: the kernel raises the semaphore, as it would with SEM_UNDO.
DieUndoes(p) ==
  /\ pc[p] # "out"
  /\ \/ NoDatabase(p) /\ UNCHANGED deaths
     \/ ~ NoDatabase(p) /\ deaths < MaxDeaths /\ deaths' = deaths + 1
  /\ pc' = [pc EXCEPT ![p] = "out"]
  /\ attached' = [attached EXCEPT ![p] = NoSegment]
  /\ shmid' = [shmid EXCEPT ![p] = NoSegment]
  /\ db' = [db EXCEPT ![p] = NoSegment]
  /\ entry' = [entry EXCEPT ![p] = 0]
  /\ lost' = (lost \/ pc[p] \in (Locked \union {"setval"}))
  /\ semaphore' = IF pc[p] \in Locked THEN semaphore + 1 ELSE semaphore
  /\ UNCHANGED <<key, dataVars, overlapped>>

\* The process ends, at any point: it exits, is killed, or reads through a c_db
\* that is NULL or not mapped any more.  The kernel detaches it; the semaphore,
\* taken without SEM_UNDO, stays as it is.  MaxDeaths bounds all deaths but those
\* of NoDatabase.
Die(p) ==
  /\ pc[p] # "out"
  /\ \/ NoDatabase(p) /\ UNCHANGED deaths
     \/ ~ NoDatabase(p) /\ deaths < MaxDeaths /\ deaths' = deaths + 1
  /\ pc' = [pc EXCEPT ![p] = "out"]
  /\ attached' = [attached EXCEPT ![p] = NoSegment]
  /\ shmid' = [shmid EXCEPT ![p] = NoSegment]
  /\ db' = [db EXCEPT ![p] = NoSegment]
  /\ entry' = [entry EXCEPT ![p] = 0]
  /\ lost' = (lost \/ pc[p] \in (Locked \union {"setval"}))
  /\ UNCHANGED <<semaphore, key, dataVars, overlapped>>

\* What a process does in initialize, apart from waiting for the semaphore.
Step(p) ==
  \/ CreateSemaphore(p) \/ SetSemaphore(p) \/ FindSemaphore(p)
  \/ GetSegment(p) \/ Attach(p) \/ AttachFails(p) \/ Stat(p) \/ Unlock(p)
  \/ Link(p) \/ AddNodeFails(p) \/ Register(p)
  \/ \E n \in Entries : ChooseEntry(p, n)

Leave(p) == Finalize(p) \/ Detach(p) \/ Recount(p) \/ Remove(p)

Next ==
  \E p \in Nodes :
    Initialize(p) \/ Lock(p) \/ Step(p) \/ Leave(p) \/ InitializeAgain(p) \/ Die(p)

Spec == Init /\ [][Next]_vars

\* A process that is in mcapi_initialize goes on; the kernel wakes the processes
\* that wait for a semaphore in the order they came; a process with no database
\* dies of using it.
FairSpec ==
  /\ Spec
  /\ \A p \in Nodes :
       /\ WF_vars(Step(p) \/ (NoDatabase(p) /\ Die(p)))
       /\ SF_vars(Lock(p))

-----------------------------------------------------------------------------
Places == {"out", "semget", "setval", "lock", "shmget", "attach", "stat", "unlock",
           "link", "choose", "register", "in", "detach", "recount", "remove", "finalized"}

\* The kernel, the database and the processes keep their types.
TypeOK ==
  /\ semaphore \in {Absent, 0, 1}
  /\ key \in Segments \union {NoSegment}
  /\ {attached, shmid, db} \subseteq [Nodes -> Segments \union {NoSegment}]
  /\ nodes \in [Segments -> [Entries -> Nodes \union {NoNode}]]
  /\ num_nodes \in [Segments -> Nat]
  /\ pc \in [Nodes -> Places]
  /\ entry \in [Nodes -> Entries]
  /\ {lost, overlapped} \subseteq BOOLEAN
  /\ deaths \in 0 .. MaxDeaths

\* Only one process at a time attaches and zeroes, although the semaphore is
\* created, set and found in steps that interleave, and processes die.
MutualExclusion ==
  \A p, q \in Nodes : pc[p] \in Locked /\ pc[q] \in Locked => p = q

\* Once a process died that had the semaphore or had created it and not yet set it,
\* no process gets the lock again: none goes on with a database that the dead one was
\* attaching or zeroing.
LostLockIsForGood ==
  [][lost => \A p \in Nodes : pc[p] = "lock" => pc'[p] \in {"lock", "out"}]_vars

\* A process that is told MCAPI_SUCCESS, or is about to be.
Using(p) == pc[p] \in {"link", "choose", "register", "in"}

\* Processes share one database, mapped while they use it, unless a finalize that
\* counted no users removed the segment under a process that had come since.
OneDatabase ==
  ~ overlapped =>
    \A p, q \in Nodes : Using(p) /\ Using(q) =>
      attached[p] = db[p] /\ db[p] = db[q] /\ db[p] # NoSegment

\* The database is never zeroed under a process that uses it, also when the count
\* of users goes down in a finalize or a crash while another process attaches.
ZeroedOnlyAlone ==
  [][\A s \in Segments, p \in Nodes :
       Using(p) /\ db[p] = s /\ nodes[s] # Empty => nodes'[s] # Empty]_vars

\* A node has one entry at most, although a process that died leaves its entry behind
\* and mcapi_initialize can be called again without a finalize.
RegisteredOnce ==
  \A s \in Segments : \A m, n \in Entries :
    nodes[s][m] = nodes[s][n] /\ nodes[s][n] # NoNode => m = n

Taken(s) == {n \in Entries : nodes[s][n] # NoNode}

\* A process that is told MCAPI_SUCCESS and has no entry in the database found the
\* database full, or two processes have taken one entry, which num_nodes has counted
\* twice.  A process that nothing interferes with is never left out.
LeftOutOnlyWhenFull ==
  \A p \in Nodes :
    pc[p] = "in" /\ ~ Registered(p) =>
      LET s == db[p] IN
      num_nodes[s] >= MaxNodes \/ num_nodes[s] > Cardinality(Taken(s))

\* A process is a member once it is attached and has counted the users.
Members ==
  IF overlapped THEN {} ELSE {p \in Nodes : attached[p] # NoSegment /\ pc[p] # "stat"}

SharedTable == IF overlapped \/ key = NoSegment THEN Empty ELSE nodes[key]

\* The processes share one table: the first to come finds it empty, also when those
\* before it died and left it behind, later ones find it as it is, and it changes only
\* when one that is not in it registers itself.  What overlapped names is the only
\* thing that breaks it.
Table == INSTANCE NodeTable WITH
  members <- Members, table <- SharedTable, broken <- overlapped

ImplementsTable == Table!Spec

\* Whatever other processes do, mcapi_initialize returns, or the process dies,
\* unless a process died while it had the semaphore.
InitializeEnds ==
  \A p \in Nodes : pc[p] \in {"semget", "lock"} ~> (pc[p] \in {"in", "out"} \/ lost)

\* "lock the database ... add the caller to the database" (stub lines 302 and 361,
\* with no call between): a process that is told MCAPI_SUCCESS is in the database,
\* as the assertion of mcapi_trans_get_node_index demands (line 262).
OwnEntry == \A p \in Nodes : pc[p] = "in" => Registered(p)
=============================================================================
