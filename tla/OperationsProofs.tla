--------------------------- MODULE OperationsProofs --------------------------
(***************************************************************************)
(* Proofs about NonBlocking that rest on OwnRecord: success is reported    *)
(* only of what is done, the interface implements Operations, and without  *)
(* errors and deletions no request leaks while there are more requests     *)
(* than operations.                                                        *)
(***************************************************************************)
EXTENDS NonBlockingProofs

Finished == {"completed", "done"}

\* SuccessMeansDone for one operation, without CASE.
Result(o) ==
  /\ kind[o] = "RECV" => mem[o] \in Msgs
  /\ kind[o] = "GET_ENDPT" => mem[o] = Filled
  /\ kind[o] = "SEND" => sent[o] = "acked"

\* What makes it inductive: an unfinished operation has an empty buffer, and a blocked
\* call passed its own record.
Sane(o) ==
  /\ phase[o] # "idle" => kind[o] \in Kinds
  /\ phase[o] \in Finished => Result(o)
  /\ phase[o] \notin Finished => mem[o] = Nothing
  /\ phase[o] = "blocked" => args[o].op = o /\ args[o].type = kind[o]

AllSane == \A o \in Ops : Sane(o)

-----------------------------------------------------------------------------
(* One step                                                                *)

LEMMA SaneInit ==
  ASSUME Init
  PROVE  AllSane
BY DEF Init, AllSane, Sane, Finished

\* A step of o alone.
LEMMA SaneFrame ==
  ASSUME AllSane, NEW o,
         \A q \in Ops \ {o} : /\ phase'[q] = phase[q] /\ kind'[q] = kind[q]
                              /\ mem'[q] = mem[q] /\ sent'[q] = sent[q] /\ args'[q] = args[q],
         o \in Ops => Sane(o)'
  PROVE  AllSane'
<1> SUFFICES ASSUME NEW q \in Ops
             PROVE  Sane(q)'
  BY DEF AllSane
<1>1. CASE q = o
  BY <1>1
<1>2. CASE q # o
  BY <1>2 DEF AllSane, Sane, Result
<1> QED
  BY <1>1, <1>2

\* An answer of the driver to a record of o gives o its result and nobody else one.
LEMMA TransferResult ==
  ASSUME TypeOK, NEW o \in Ops, NEW a \in Records, a.op = o, a.type \in Kinds,
         Transfer(a, a)
  PROVE  /\ \A q \in Ops \ {o} : mem'[q] = mem[q]
         /\ a.type = "RECV" => mem'[o] \in Msgs
         /\ a.type = "GET_ENDPT" => mem'[o] = Filled
         /\ a.type = "SEND" => sent[o] = "acked"
<1>1. mem' = [q \in Ops |->
        IF a.type = "GET_ENDPT" /\ a.op = q THEN Filled
        ELSE IF a.type = "RECV" /\ a.op = q THEN Head(inbox[a.port])
        ELSE mem[q]]
  BY DEF Transfer
<1>2. \A q \in Ops \ {o} : mem'[q] = mem[q]
  BY <1>1
<1>3. CASE a.type = "RECV"
  <2>1. a.port \in ports /\ inbox[a.port] # <<>>
    BY <1>3 DEF Transfer, DriverReady
  <2>2. inbox[a.port] \in Seq(Msgs)
    BY <2>1 DEF TypeOK
  <2>3. Head(inbox[a.port]) \in Msgs
    BY <2>1, <2>2
  <2> QED
    BY <1>1, <1>2, <1>3, <2>3
<1>4. CASE a.type # "RECV"
  BY <1>1, <1>2, <1>4 DEF Transfer, DriverReady
<1> QED
  BY <1>3, <1>4

\* The record of an open operation.
LEMMA OpenRecord ==
  ASSUME IInv, AllSane, NEW o \in Open
  PROVE  /\ requests[request[o]] \in Records /\ requests[request[o]].op = o
         /\ requests[request[o]].type = kind[o] /\ kind[o] \in Kinds
         /\ requests[request[o]].completed = (phase[o] = "completed")
         /\ phase[o] = "waiting" => args[o] = requests[request[o]]
         /\ request[o] \in Requests /\ valid[request[o]] /\ o \in Ops
BY DEF IInv, OwnRecord, HasRecord, ValidHandle, TypeOK, Open, AllSane, Sane

\* The start of an operation, in a call that blocks or not.
LEMMA BeginSane ==
  ASSUME IInv, AllSane, ~ LocalGets, NEW o \in Ops, Begin(o)
  PROVE  AllSane'
<1>t. TypeOK
  BY DEF IInv
<1>d. DOMAIN phase = Ops /\ DOMAIN kind = Ops /\ DOMAIN mem = Ops /\ DOMAIN sent = Ops
      /\ DOMAIN args = Ops
  BY <1>t DEF TypeOK
<1>s. Sane(o)
  BY DEF AllSane
<1>k. Kinds = {"SEND", "RECV", "GET_ENDPT"}
  BY DEF Kinds
<1>1. CASE UNCHANGED <<phase, kind, mem, sent, args>>
  BY <1>1 DEF AllSane, Sane, Result
<1>2. CASE RequestLimit(o) \/ \E r \in Requests, p \in Ports : EndpointInvalid(o, r, p)
  BY <1>1, <1>2 DEF RequestLimit, EndpointInvalid, clientVars, driverVars
<1>3. ASSUME NEW r \in Requests, NEW p \in Ports, MsgSendI(o, r, p)
      PROVE  AllSane'
  <2>1. CASE UNCHANGED <<sent, phase, kind, request>>
    BY <1>1, <1>3, <2>1 DEF MsgSendI
  <2>2. CASE sent' = [sent EXCEPT ![o] = "acked"] /\ Become(o, "completed", "SEND", r)
    <3>1. /\ phase'[o] = "completed" /\ kind'[o] = "SEND" /\ sent'[o] = "acked"
          /\ \A q \in Ops \ {o} : /\ phase'[q] = phase[q] /\ kind'[q] = kind[q]
                                  /\ mem'[q] = mem[q] /\ sent'[q] = sent[q] /\ args'[q] = args[q]
      BY <1>3, <1>d, <2>2 DEF MsgSendI, Become
    <3>2. Sane(o)'
      BY <3>1, <1>k DEF Sane, Result, Finished
    <3> QED
      BY <3>1, <3>2, SaneFrame
  <2>3. CASE sent' = [sent EXCEPT ![o] = "inflight"] /\ Become(o, "pending", "SEND", r)
    <3>1. /\ phase'[o] = "pending" /\ kind'[o] = "SEND" /\ mem' = mem
          /\ \A q \in Ops \ {o} : /\ phase'[q] = phase[q] /\ kind'[q] = kind[q]
                                  /\ mem'[q] = mem[q] /\ sent'[q] = sent[q] /\ args'[q] = args[q]
      BY <1>3, <1>d, <2>3 DEF MsgSendI, Become
    <3>2. Sane(o)'
      BY <3>1, <1>k, <1>s, <1>3 DEF Sane, Finished, MsgSendI
    <3> QED
      BY <3>1, <3>2, SaneFrame
  <2> QED
    BY <1>3, <2>1, <2>2, <2>3 DEF MsgSendI
<1>4. ASSUME NEW r \in Requests, NEW k \in {"RECV", "GET_ENDPT"}, NEW p \in Ports \union {NoPort},
             phase[o] = "idle", Ask(o, r, Record(FALSE, k, o, p)), UNCHANGED <<sent, args>>
      PROVE  AllSane'
  <2> DEFINE rec == Record(FALSE, k, o, p)
  <2>1. /\ rec \in Records /\ rec.type = k /\ rec.op = o
        /\ rec.type \in Kinds /\ k \in Kinds
    BY RecordTypes, <1>k DEF Types, Record
  <2> HIDE DEF rec
  <2>2. CASE UNCHANGED <<inbox, mem, phase, kind, request>>
    BY <1>1, <1>4, <2>2
  <2>3. CASE Transfer(rec, rec) /\ Become(o, "completed", rec.type, r)
    <3>1. /\ \A q \in Ops \ {o} : mem'[q] = mem[q]
          /\ rec.type = "RECV" => mem'[o] \in Msgs
          /\ rec.type = "GET_ENDPT" => mem'[o] = Filled
      BY <2>1, <2>3, <1>t, TransferResult
    <3>2. /\ phase'[o] = "completed" /\ kind'[o] = k
          /\ \A q \in Ops \ {o} : /\ phase'[q] = phase[q] /\ kind'[q] = kind[q]
                                  /\ sent'[q] = sent[q] /\ args'[q] = args[q]
      BY <1>4, <1>d, <2>1, <2>3 DEF Become
    <3>3. Sane(o)'
      BY <2>1, <3>1, <3>2 DEF Sane, Result, Finished
    <3> QED
      BY <3>1, <3>2, <3>3, SaneFrame
  <2>4. CASE Become(o, "pending", rec.type, r) /\ UNCHANGED <<inbox, mem>>
    <3>1. /\ phase'[o] = "pending" /\ kind'[o] = k
          /\ \A q \in Ops \ {o} : /\ phase'[q] = phase[q] /\ kind'[q] = kind[q]
                                  /\ mem'[q] = mem[q] /\ sent'[q] = sent[q] /\ args'[q] = args[q]
      BY <1>4, <1>d, <2>1, <2>4 DEF Become
    <3>2. Sane(o)'
      BY <2>1, <2>4, <3>1, <1>s, <1>4 DEF Sane, Finished
    <3> QED
      BY <3>1, <3>2, SaneFrame
  <2> QED
    BY <1>4, <2>2, <2>3, <2>4 DEF Ask, rec
<1>5. CASE \E r \in Requests, p \in Ports : MsgRecvI(o, r, p)
  BY <1>4, <1>5 DEF MsgRecvI
<1>6. CASE \E r \in Requests : EndpointGetI(o, r)
  BY <1>4, <1>6 DEF EndpointGetI
<1>7. CASE \E r \in Requests : EndpointGetILocal(o, r)
  BY <1>7 DEF EndpointGetILocal
<1>8. ASSUME NEW k \in Kinds, NEW p \in Ports \union {NoPort}, CallBlocks(o, k, p)
      PROVE  AllSane'
  <2>1. /\ phase'[o] = "blocked" /\ kind'[o] = k /\ args'[o] = Record(FALSE, k, o, p)
        /\ mem' = mem /\ phase[o] = "idle"
        /\ \A q \in Ops \ {o} : /\ phase'[q] = phase[q] /\ kind'[q] = kind[q]
                                /\ mem'[q] = mem[q] /\ sent'[q] = sent[q] /\ args'[q] = args[q]
    BY <1>8, <1>d DEF CallBlocks, Become
  <2>2. Sane(o)'
    BY <2>1, <1>s DEF Sane, Finished, Record
  <2> QED
    BY <2>1, <2>2, SaneFrame
<1>9. CASE EndpointGetLocal(o)
  <2>1. /\ phase'[o] = "done" /\ kind'[o] = "GET_ENDPT" /\ mem'[o] = Filled
        /\ \A q \in Ops \ {o} : /\ phase'[q] = phase[q] /\ kind'[q] = kind[q]
                                /\ mem'[q] = mem[q] /\ sent'[q] = sent[q] /\ args'[q] = args[q]
    BY <1>9, <1>d DEF EndpointGetLocal, Become, driverVars
  <2>2. Sane(o)'
    BY <2>1, <1>k DEF Sane, Result, Finished
  <2> QED
    BY <2>1, <2>2, SaneFrame
<1> QED
  BY <1>2, <1>3, <1>5, <1>6, <1>7, <1>8, <1>9 DEF Begin

\* mcapi_test: only a record that is not complete is asked about.
LEMMA TestSane ==
  ASSUME IInv, AllSane, NEW o \in Ops, Test(o)
  PROVE  AllSane'
<1>t. TypeOK
  BY DEF IInv
<1>d. DOMAIN phase = Ops /\ DOMAIN kind = Ops
  BY <1>t DEF TypeOK
<1>o. CASE TestFails(o)
  BY <1>o DEF TestFails, vars, driverVars, clientVars, AllSane, Sane, Result
<1>1. CASE ~ TestFails(o)
  <2>1. o \in Open
    BY <1>1 DEF Test, TestCompleted, TestCompletes, Waitable, Open
  <2> DEFINE rec == requests[request[o]]
  <2>2. /\ rec \in Records /\ rec.op = o /\ rec.type = kind[o] /\ kind[o] \in Kinds
        /\ rec.completed = (phase[o] = "completed")
    BY <2>1, OpenRecord
  <2> HIDE DEF rec
  <2>3. /\ phase'[o] = "completed" /\ kind'[o] = kind[o] /\ UNCHANGED <<sent, args>>
        /\ \A q \in Ops \ {o} : phase'[q] = phase[q] /\ kind'[q] = kind[q]
    BY <1>1, <1>d DEF Test, TestCompleted, TestCompletes, Become, driverVars
  <2>4. CASE TestCompleted(o)
    <3>1. phase[o] = "completed" /\ mem' = mem
      BY <2>2, <2>4 DEF TestCompleted, rec
    <3>2. Sane(o)'
      BY <2>3, <3>1 DEF AllSane, Sane, Result, Finished
    <3> QED
      BY <2>3, <3>1, <3>2, SaneFrame
  <2>5. CASE TestCompletes(o)
    <3>1. Transfer(rec, rec)
      BY <2>5 DEF TestCompletes, rec
    <3>2. /\ \A q \in Ops \ {o} : mem'[q] = mem[q]
          /\ rec.type = "RECV" => mem'[o] \in Msgs
          /\ rec.type = "GET_ENDPT" => mem'[o] = Filled
          /\ rec.type = "SEND" => sent[o] = "acked"
      BY <2>2, <3>1, <1>t, TransferResult
    <3>3. Sane(o)'
      BY <2>2, <2>3, <3>2 DEF Sane, Result, Finished
    <3> QED
      BY <2>3, <3>2, <3>3, SaneFrame
  <2> QED
    BY <1>1, <2>4, <2>5 DEF Test
<1> QED
  BY <1>o, <1>1

\* mcapi_wait, the driver's answer to a blocked call, and the end of an operation.
LEMMA WaitSane ==
  ASSUME IInv, AllSane, ~ RetryAfterTimeout, NEW o \in Ops, Wait(o) \/ Unblock(o) \/ Consume(o)
  PROVE  AllSane'
<1>t. TypeOK
  BY DEF IInv
<1>d. DOMAIN phase = Ops /\ DOMAIN kind = Ops /\ DOMAIN mem = Ops /\ DOMAIN sent = Ops
      /\ DOMAIN args = Ops
  BY <1>t DEF TypeOK
<1>s. Sane(o)
  BY DEF AllSane
\* The client gives up an operation that has not finished, or has had its result.
<1>1. ASSUME GiveUp(o), mem'[o] = Nothing, \A q \in Ops \ {o} : mem'[q] = mem[q],
             \A q \in Ops \ {o} : args'[q] = args[q]
      PROVE  AllSane'
  <2>1. /\ phase'[o] = "idle"
        /\ \A q \in Ops \ {o} : phase'[q] = phase[q] /\ kind'[q] = kind[q] /\ sent'[q] = sent[q]
    BY <1>1, <1>d DEF GiveUp, Become
  <2>2. Sane(o)'
    BY <1>1, <2>1 DEF Sane, Finished
  <2> QED
    BY <1>1, <2>1, <2>2, SaneFrame
\* The client has its result, of now or of before.
<1>2. ASSUME Done(o), UNCHANGED sent, \A q \in Ops \ {o} : mem'[q] = mem[q] /\ args'[q] = args[q],
             kind[o] \in Kinds,
             /\ kind[o] = "RECV" => mem'[o] \in Msgs
             /\ kind[o] = "GET_ENDPT" => mem'[o] = Filled
             /\ kind[o] = "SEND" => sent[o] = "acked"
      PROVE  AllSane'
  <2>1. /\ phase'[o] = "done" /\ kind'[o] = kind[o]
        /\ \A q \in Ops \ {o} : phase'[q] = phase[q] /\ kind'[q] = kind[q]
    BY <1>2, <1>d DEF Done, Become
  <2>2. Sane(o)'
    BY <1>2, <2>1 DEF Sane, Result, Finished
  <2> QED
    BY <1>2, <2>1, <2>2, SaneFrame
<1>3. CASE WaitRejected(o)
  <2>1. phase[o] \in {"pending", "completed"} /\ UNCHANGED <<mem, args>>
    BY <1>3 DEF WaitRejected, Waitable
  <2>2. CASE phase[o] = "completed"
    BY <1>2, <1>3, <1>s, <2>1, <2>2 DEF WaitRejected, Sane, Result, Finished
  <2>3. CASE phase[o] # "completed"
    BY <1>1, <1>3, <1>s, <2>1, <2>3 DEF WaitRejected, Sane, Finished
  <2> QED
    BY <2>2, <2>3
<1>4. CASE WaitCompleted(o)
  <2>1. o \in Open
    BY <1>4 DEF WaitCompleted, Waitable, Open
  <2>2. requests[request[o]].completed /\ UNCHANGED <<mem, args, sent>> /\ Done(o)
    BY <1>4 DEF WaitCompleted, driverVars
  <2>3. phase[o] = "completed" /\ kind[o] \in Kinds
    BY <2>1, <2>2, OpenRecord
  <2> QED
    BY <1>2, <1>s, <2>2, <2>3 DEF Sane, Result, Finished
<1>5. CASE WaitBlocks(o)
  <2>1. o \in Open /\ ~ requests[request[o]].completed
    BY <1>5 DEF WaitBlocks, Waitable, Open
  <2>2. phase[o] \notin Finished /\ kind[o] \in Kinds
    BY <2>1, OpenRecord DEF Open, Finished
  <2>3. /\ phase'[o] = "waiting" /\ kind'[o] = kind[o] /\ UNCHANGED <<mem, sent>>
        /\ \A q \in Ops \ {o} : phase'[q] = phase[q] /\ kind'[q] = kind[q] /\ args'[q] = args[q]
    BY <1>5, <1>d DEF WaitBlocks, Become, driverVars
  <2>4. Sane(o)'
    BY <1>s, <2>2, <2>3 DEF Sane, Finished
  <2> QED
    BY <2>3, <2>4, SaneFrame
<1>6. CASE WaitSucceeds(o)
  <2>1. o \in Open /\ phase[o] = "waiting"
    BY <1>6 DEF WaitSucceeds, Open
  <2>2. /\ args[o] = requests[request[o]] /\ args[o] \in Records
        /\ args[o].op = o /\ args[o].type = kind[o] /\ kind[o] \in Kinds
    BY <2>1, OpenRecord
  <2>3. Transfer(args[o], args[o])
    BY <1>6, <2>2 DEF WaitSucceeds
  <2>4. /\ \A q \in Ops \ {o} : mem'[q] = mem[q]
        /\ kind[o] = "RECV" => mem'[o] \in Msgs
        /\ kind[o] = "GET_ENDPT" => mem'[o] = Filled
        /\ kind[o] = "SEND" => sent[o] = "acked"
    BY <2>2, <2>3, <1>t, TransferResult
  <2>5. Done(o) /\ UNCHANGED sent /\ \A q \in Ops \ {o} : args'[q] = args[q]
    BY <1>6, <1>d DEF WaitSucceeds, Returned
  <2> QED
    BY <1>2, <2>2, <2>4, <2>5
<1>7. CASE CallSucceeds(o)
  <2>1. /\ args[o] \in Records /\ Transfer(args[o], args[o])
        /\ args[o].op = o /\ args[o].type = kind[o] /\ kind[o] \in Kinds
    BY <1>7, <1>s, <1>t DEF CallSucceeds, Sane, TypeOK
  <2>2. /\ \A q \in Ops \ {o} : mem'[q] = mem[q]
        /\ kind[o] = "RECV" => mem'[o] \in Msgs
        /\ kind[o] = "GET_ENDPT" => mem'[o] = Filled
        /\ kind[o] = "SEND" => sent[o] = "acked"
    BY <2>1, <1>t, TransferResult
  <2>3. Done(o) /\ UNCHANGED sent /\ \A q \in Ops \ {o} : args'[q] = args[q]
    BY <1>7, <1>d DEF CallSucceeds, Returned
  <2> QED
    BY <1>2, <2>1, <2>2, <2>3
<1>8. CASE WaitFails(o) \/ CallFails(o)
  <2>1. /\ GiveUp(o) /\ UNCHANGED mem /\ phase[o] \in {"waiting", "blocked"}
        /\ \A q \in Ops \ {o} : args'[q] = args[q]
    BY <1>8, <1>d DEF WaitFails, CallFails, Returned
  <2> QED
    BY <1>1, <1>s, <2>1 DEF Sane, Finished
<1>9. CASE Consume(o)
  <2>1. /\ GiveUp(o) /\ UNCHANGED args
        /\ mem'[o] = Nothing /\ \A q \in Ops \ {o} : mem'[q] = mem[q]
    BY <1>9, <1>d DEF Consume
  <2> QED
    BY <1>1, <2>1
<1> QED
  BY <1>3, <1>4, <1>5, <1>6, <1>7, <1>8, <1>9 DEF Wait, Unblock

\* The driver, endpoints and stuttering.
LEMMA OtherSane ==
  ASSUME AllSane, TypeOK,
         \/ Driver \/ UNCHANGED vars
         \/ \E p \in Ports : EndpointDelete(p) \/ EndpointCreate(p)
  PROVE  AllSane'
<1>1. UNCHANGED clientVars
  BY DEF Driver, Arrive, Ack, RemoteChanges, vars, EndpointDelete, EndpointCreate
<1>2. \A o \in Ops : sent[o] = "acked" => sent'[o] = "acked"
  BY DEF Driver, Arrive, Ack, RemoteChanges, vars, driverVars, EndpointDelete, EndpointCreate,
         TypeOK
<1> QED
  BY <1>1, <1>2 DEF clientVars, AllSane, Sane, Result

LEMMA SaneStep ==
  ASSUME ~ LocalGets, ~ RetryAfterTimeout, IInv, AllSane, [Next]_vars
  PROVE  AllSane'
<1>1. TypeOK
  BY DEF IInv
<1> QED
  BY <1>1, BeginSane, TestSane, WaitSane, OtherSane DEF Next

-----------------------------------------------------------------------------
(* The steps of Operations                                                 *)

Phases == {"idle", "pending", "completed", "waiting", "blocked", "done"}

Active == {"pending", "waiting", "blocked"}

\* The refinement mapping of Promise.
StateOf(p) ==
  CASE p = "idle" -> "idle"
    [] p \in {"pending", "waiting", "blocked"} -> "active"
    [] p \in {"completed", "done"} -> "finished"

State == [o \in Ops |-> StateOf(phase[o])]

LEMMA StateValues ==
  /\ StateOf("idle") = "idle"
  /\ \A p \in Active : StateOf(p) = "active"
  /\ \A p \in Finished : StateOf(p) = "finished"
BY DEF StateOf, Active, Finished

\* The phase of o becomes q.
LEMMA StateBecomes ==
  ASSUME NEW o \in Ops, DOMAIN phase = Ops, NEW q, phase' = [phase EXCEPT ![o] = q]
  PROVE  State' = [State EXCEPT ![o] = StateOf(q)]
BY DEF State

LEMMA StutterStep ==
  ASSUME TypeOK, NEW o \in Ops, NEW q, phase' = [phase EXCEPT ![o] = q],
         UNCHANGED <<inbox, mem>>,
         \/ phase[o] \in Active /\ q \in Active
         \/ phase[o] \in Finished /\ q \in Finished
  PROVE  UNCHANGED Promise!vars
<1>1. State' = [State EXCEPT ![o] = StateOf(q)]
  BY StateBecomes DEF TypeOK
<1>2. StateOf(q) = State[o]
  BY StateValues DEF State
<1>3. State' = State
  BY <1>1, <1>2 DEF State
<1> QED
  BY <1>3 DEF Promise!vars, State, StateOf

LEMMA StartStep ==
  ASSUME TypeOK, NEW o \in Ops, phase[o] = "idle", NEW q \in Active,
         phase' = [phase EXCEPT ![o] = q], UNCHANGED <<inbox, mem>>
  PROVE  Promise!Start(o)
<1>1. State' = [State EXCEPT ![o] = "active"] /\ State[o] = "idle"
  BY StateBecomes, StateValues DEF TypeOK, State
<1> QED
  BY <1>1 DEF Promise!Start, State, StateOf

LEMMA AbandonStep ==
  ASSUME TypeOK, NEW o \in Ops, phase[o] \in Active, mem[o] = Nothing,
         phase' = [phase EXCEPT ![o] = "idle"], UNCHANGED <<inbox, mem>>
  PROVE  Promise!Abandon(o)
<1>1. State' = [State EXCEPT ![o] = "idle"] /\ State[o] = "active"
  BY StateBecomes, StateValues DEF TypeOK, State
<1> QED
  BY <1>1 DEF Promise!Abandon, State, StateOf

LEMMA ConsumeStep ==
  ASSUME TypeOK, NEW o \in Ops, phase[o] = "done", UNCHANGED inbox,
         phase' = [phase EXCEPT ![o] = "idle"], mem' = [mem EXCEPT ![o] = Nothing]
  PROVE  Promise!Consume(o)
<1>1. State' = [State EXCEPT ![o] = "idle"] /\ State[o] = "finished"
  BY StateBecomes, StateValues DEF TypeOK, State, Finished
<1> QED
  BY <1>1 DEF Promise!Consume, State, StateOf

LEMMA FinishStep ==
  ASSUME TypeOK, NEW o \in Ops, phase[o] \in Active \union {"idle"}, mem[o] = Nothing,
         NEW q \in Finished, phase' = [phase EXCEPT ![o] = q],
         \/ \E p \in Ports : /\ inbox[p] # <<>>
                             /\ mem' = [mem EXCEPT ![o] = Head(inbox[p])]
                             /\ inbox' = [inbox EXCEPT ![p] = Tail(@)]
         \/ mem' \in {mem, [mem EXCEPT ![o] = Filled]} /\ UNCHANGED inbox
  PROVE  Promise!Finish(o)
<1>1. State' = [State EXCEPT ![o] = "finished"] /\ State[o] # "finished"
  BY StateBecomes, StateValues DEF TypeOK, State
<1> QED
  BY <1>1 DEF Promise!Finish, State, StateOf

\* The driver's answer to a record of o finishes o.
LEMMA TransferStep ==
  ASSUME TypeOK, NEW o \in Ops, phase[o] \in Active \union {"idle"}, mem[o] = Nothing,
         NEW q \in Finished, phase' = [phase EXCEPT ![o] = q],
         NEW a \in Records, a.op = o, Transfer(a, a)
  PROVE  Promise!Finish(o)
<1>1. mem' = [x \in Ops |->
        IF a.type = "GET_ENDPT" /\ a.op = x THEN Filled
        ELSE IF a.type = "RECV" /\ a.op = x THEN Head(inbox[a.port])
        ELSE mem[x]]
  BY DEF Transfer
<1>m. mem = [x \in Ops |-> mem[x]]
  BY DEF TypeOK
<1>2. CASE a.type = "RECV"
  <2>1. a.port \in Ports /\ inbox[a.port] # <<>>
    BY <1>2 DEF Transfer, DriverReady, TypeOK
  <2>2. mem' = [mem EXCEPT ![o] = Head(inbox[a.port])]
    BY <1>1, <1>2, <1>m
  <2>3. inbox' = [inbox EXCEPT ![a.port] = Tail(@)]
    BY <1>2 DEF Transfer
  <2> QED
    BY <2>1, <2>2, <2>3, FinishStep
<1>3. CASE a.type = "GET_ENDPT"
  <2>1. mem' = [mem EXCEPT ![o] = Filled]
    BY <1>1, <1>3, <1>m
  <2> QED
    BY <1>3, <2>1, FinishStep DEF Transfer
<1>4. CASE a.type \notin {"RECV", "GET_ENDPT"}
  <2>1. mem' = mem
    BY <1>1, <1>4, <1>m
  <2> QED
    BY <1>4, <2>1, FinishStep DEF Transfer
<1> QED
  BY <1>2, <1>3, <1>4

LEMMA BeginImplements ==
  ASSUME IInv, AllSane, ~ LocalGets, NEW o \in Ops, Begin(o)
  PROVE  Promise!Next \/ UNCHANGED Promise!vars
<1>t. TypeOK
  BY DEF IInv
<1>1. CASE UNCHANGED <<phase, inbox, mem>>
  BY <1>1 DEF Promise!vars
<1>2. ASSUME phase[o] = "idle"
      PROVE  mem[o] = Nothing /\ phase[o] \in Active \union {"idle"}
  BY <1>2 DEF AllSane, Sane, Finished
<1>f. Promise!Start(o) \/ Promise!Finish(o) => Promise!Next
  BY DEF Promise!Next
<1>q. "completed" \in Finished /\ "done" \in Finished /\ "pending" \in Active
      /\ "blocked" \in Active
  BY DEF Finished, Active
<1>3. ASSUME phase[o] = "idle", phase' = [phase EXCEPT ![o] = "pending"], UNCHANGED <<inbox, mem>>
      PROVE  Promise!Next
  BY <1>3, <1>f, <1>q, <1>t, StartStep
<1>4. ASSUME NEW r \in Requests, NEW p \in Ports, MsgSendI(o, r, p)
      PROVE  Promise!Next \/ UNCHANGED Promise!vars
  <2>1. phase[o] = "idle" /\ UNCHANGED <<inbox, mem>>
    BY <1>4 DEF MsgSendI
  <2>2. CASE phase' = [phase EXCEPT ![o] = "completed"]
    BY <2>1, <2>2, <1>2, <1>f, <1>q, <1>t, FinishStep
  <2> QED
    BY <1>1, <1>3, <1>4, <2>1, <2>2 DEF MsgSendI, Become
<1>5. ASSUME NEW r \in Requests, NEW k \in {"RECV", "GET_ENDPT"}, NEW p \in Ports \union {NoPort},
             phase[o] = "idle", Ask(o, r, Record(FALSE, k, o, p))
      PROVE  Promise!Next \/ UNCHANGED Promise!vars
  <2> DEFINE rec == Record(FALSE, k, o, p)
  <2>1. rec \in Records /\ rec.op = o
    BY RecordTypes DEF Types, Record
  <2> HIDE DEF rec
  <2>2. CASE Transfer(rec, rec) /\ phase' = [phase EXCEPT ![o] = "completed"]
    BY <1>5, <2>1, <2>2, <1>2, <1>f, <1>q, <1>t, TransferStep
  <2> QED
    BY <1>1, <1>3, <1>5, <2>2 DEF Ask, rec, Become
<1>6. CASE \E k \in Kinds, p \in Ports \union {NoPort} : CallBlocks(o, k, p)
  <2>1. /\ phase[o] = "idle" /\ phase' = [phase EXCEPT ![o] = "blocked"]
        /\ UNCHANGED <<inbox, mem>>
    BY <1>6 DEF CallBlocks, Become
  <2> QED
    BY <2>1, <1>f, <1>q, <1>t, StartStep
<1>7. CASE EndpointGetLocal(o)
  <2>1. /\ phase[o] = "idle" /\ phase' = [phase EXCEPT ![o] = "done"]
        /\ UNCHANGED inbox /\ mem' = [mem EXCEPT ![o] = Filled]
    BY <1>7 DEF EndpointGetLocal, Become, driverVars
  <2> QED
    BY <2>1, <1>2, <1>f, <1>q, <1>t, FinishStep
<1>8. CASE RequestLimit(o) \/ \E r \in Requests, p \in Ports : EndpointInvalid(o, r, p)
  BY <1>1, <1>8 DEF RequestLimit, EndpointInvalid, clientVars, driverVars
<1>9. CASE \E r \in Requests, p \in Ports : MsgRecvI(o, r, p)
  BY <1>5, <1>9 DEF MsgRecvI
<1>10. CASE \E r \in Requests : EndpointGetI(o, r)
  BY <1>5, <1>10 DEF EndpointGetI
<1>11. CASE \E r \in Requests : EndpointGetILocal(o, r)
  BY <1>11 DEF EndpointGetILocal
<1> QED
  BY <1>4, <1>6, <1>7, <1>8, <1>9, <1>10, <1>11 DEF Begin

LEMMA TestImplements ==
  ASSUME IInv, AllSane, NEW o \in Ops, Test(o)
  PROVE  Promise!Next \/ UNCHANGED Promise!vars
<1>t. TypeOK
  BY DEF IInv
<1>1. CASE TestFails(o)
  BY <1>1 DEF TestFails, vars, driverVars, clientVars, Promise!vars
<1>2. CASE TestCompleted(o)
  <2>1. o \in Open /\ requests[request[o]].completed
    BY <1>2 DEF TestCompleted, Waitable, Open
  <2>2. phase[o] = "completed"
    BY <2>1, OpenRecord
  <2>3. phase' = [phase EXCEPT ![o] = "completed"] /\ UNCHANGED <<inbox, mem>>
    BY <1>2 DEF TestCompleted, Become, driverVars
  <2> QED
    BY <2>2, <2>3, <1>t, StutterStep DEF Finished
<1>3. CASE TestCompletes(o)
  <2> DEFINE rec == requests[request[o]]
  <2>1. o \in Open /\ ~ rec.completed /\ phase[o] \in {"pending", "completed"}
    BY <1>3 DEF TestCompletes, Waitable, Open
  <2>2. rec \in Records /\ rec.op = o /\ rec.completed = (phase[o] = "completed")
    BY <2>1, OpenRecord
  <2>3. phase[o] = "pending"
    BY <2>1, <2>2
  <2>4. mem[o] = Nothing
    BY <2>3 DEF AllSane, Sane, Finished
  <2>5. phase' = [phase EXCEPT ![o] = "completed"] /\ Transfer(rec, rec)
    BY <1>3 DEF TestCompletes, Become
  <2> HIDE DEF rec
  <2>6. Promise!Finish(o)
    BY <2>2, <2>3, <2>4, <2>5, <1>t, TransferStep DEF Active, Finished
  <2> QED
    BY <2>6 DEF Promise!Next
<1> QED
  BY <1>1, <1>2, <1>3 DEF Test

LEMMA WaitImplements ==
  ASSUME IInv, AllSane, ~ RetryAfterTimeout, NEW o \in Ops, Wait(o) \/ Unblock(o) \/ Consume(o)
  PROVE  Promise!Next \/ UNCHANGED Promise!vars
<1>t. TypeOK
  BY DEF IInv
<1>m. phase[o] \notin Finished => mem[o] = Nothing
  BY DEF AllSane, Sane
<1>n. Promise!Finish(o) \/ Promise!Abandon(o) \/ Promise!Consume(o) => Promise!Next
  BY DEF Promise!Next
<1>1. CASE WaitRejected(o)
  <2>1. phase[o] \in {"pending", "completed"} /\ UNCHANGED <<inbox, mem>>
    BY <1>1 DEF WaitRejected, Waitable
  <2>2. CASE phase[o] = "completed"
    <3>1. phase' = [phase EXCEPT ![o] = "done"]
      BY <1>1, <2>2 DEF WaitRejected, Done, Become
    <3> QED
      BY <2>1, <2>2, <3>1, <1>t, StutterStep DEF Finished
  <2>3. CASE phase[o] = "pending"
    <3>1. phase' = [phase EXCEPT ![o] = "idle"]
      BY <1>1, <2>3 DEF WaitRejected, GiveUp, Become
    <3> QED
      BY <2>1, <2>3, <3>1, <1>m, <1>n, <1>t, AbandonStep DEF Active, Finished
  <2> QED
    BY <2>1, <2>2, <2>3
<1>2. CASE WaitCompleted(o)
  <2>1. o \in Open /\ requests[request[o]].completed
    BY <1>2 DEF WaitCompleted, Waitable, Open
  <2>2. phase[o] = "completed"
    BY <2>1, OpenRecord
  <2>3. phase' = [phase EXCEPT ![o] = "done"] /\ UNCHANGED <<inbox, mem>>
    BY <1>2 DEF WaitCompleted, Done, Become, driverVars
  <2> QED
    BY <2>2, <2>3, <1>t, StutterStep DEF Finished
<1>3. CASE WaitBlocks(o)
  <2>1. o \in Open /\ ~ requests[request[o]].completed /\ phase[o] \in {"pending", "completed"}
    BY <1>3 DEF WaitBlocks, Waitable, Open
  <2>2. phase[o] = "pending"
    BY <2>1, OpenRecord
  <2>3. phase' = [phase EXCEPT ![o] = "waiting"] /\ UNCHANGED <<inbox, mem>>
    BY <1>3 DEF WaitBlocks, Become, driverVars
  <2> QED
    BY <2>2, <2>3, <1>t, StutterStep DEF Active
<1>4. CASE WaitSucceeds(o) \/ CallSucceeds(o)
  <2>1. /\ phase[o] \in {"waiting", "blocked"} /\ args[o] \in Records /\ args[o].op = o
        /\ Transfer(args[o], args[o])
    <3>1. CASE WaitSucceeds(o)
      <4>1. o \in Open /\ phase[o] = "waiting"
        BY <3>1 DEF WaitSucceeds, Open
      <4>2. args[o] = requests[request[o]] /\ args[o] \in Records /\ args[o].op = o
        BY <4>1, OpenRecord
      <4> QED
        BY <3>1, <4>1, <4>2 DEF WaitSucceeds
    <3>2. CASE CallSucceeds(o)
      BY <3>2, <1>t DEF CallSucceeds, AllSane, Sane, TypeOK
    <3> QED
      BY <1>4, <3>1, <3>2
  <2>2. phase' = [phase EXCEPT ![o] = "done"]
    BY <1>4 DEF WaitSucceeds, CallSucceeds, Done, Become
  <2>3. mem[o] = Nothing
    BY <2>1, <1>m DEF Finished
  <2> QED
    BY <2>1, <2>2, <2>3, <1>n, <1>t, TransferStep DEF Active, Finished
<1>5. CASE WaitFails(o) \/ CallFails(o)
  <2>1. /\ phase[o] \in {"waiting", "blocked"} /\ UNCHANGED <<inbox, mem>>
        /\ phase' = [phase EXCEPT ![o] = "idle"]
    BY <1>5 DEF WaitFails, CallFails, GiveUp, Become
  <2> QED
    BY <2>1, <1>m, <1>n, <1>t, AbandonStep DEF Active, Finished
<1>6. CASE Consume(o)
  <2>1. /\ phase[o] = "done" /\ phase' = [phase EXCEPT ![o] = "idle"]
        /\ mem' = [mem EXCEPT ![o] = Nothing] /\ UNCHANGED inbox
    BY <1>6 DEF Consume, GiveUp, Become
  <2> QED
    BY <2>1, <1>n, <1>t, ConsumeStep
<1> QED
  BY <1>1, <1>2, <1>3, <1>4, <1>5, <1>6 DEF Wait, Unblock

LEMMA OtherImplements ==
  ASSUME \/ Driver \/ UNCHANGED vars
         \/ \E p \in Ports : EndpointDelete(p) \/ EndpointCreate(p)
  PROVE  Promise!Next \/ UNCHANGED Promise!vars
<1>1. UNCHANGED <<phase, mem>>
  BY DEF Driver, Arrive, Ack, RemoteChanges, vars, EndpointDelete, EndpointCreate, clientVars
<1>2. CASE UNCHANGED inbox
  BY <1>1, <1>2 DEF Promise!vars
<1>3. ASSUME NEW p \in Ports, NEW m \in Msgs, Arrive(p, m)
      PROVE  Promise!Next
  <2>1. Promise!Arrive(p, m)
    BY <1>1, <1>3 DEF Arrive, Promise!Arrive
  <2> QED
    BY <2>1 DEF Promise!Next
<1>4. ASSUME NEW p \in Ports, EndpointDelete(p)
      PROVE  Promise!Next
  <2>1. Promise!Flush(p)
    BY <1>1, <1>4 DEF EndpointDelete, Promise!Flush
  <2> QED
    BY <2>1 DEF Promise!Next
<1> QED
  BY <1>2, <1>3, <1>4 DEF Driver, Ack, RemoteChanges, vars, driverVars, EndpointCreate

-----------------------------------------------------------------------------
\* The interface implements Operations: nothing is lost, duplicated or reordered
\* between the driver's inboxes and the buffers, and a buffer changes only in the
\* step that finishes its operation or when the client empties it.
THEOREM InterfaceImplementsOperations ==
  ASSUME ~ LocalGets, ~ RetryAfterTimeout
  PROVE  Spec => ImplementsOperations
<1>1. Init => Promise!Init
  BY DEF Init, Promise!Init
<1>2. IInv /\ AllSane /\ [Next]_vars => [Promise!Next]_(Promise!vars)
  BY BeginImplements, TestImplements, WaitImplements, OtherImplements DEF Next
<1>3. Init => IInv /\ AllSane
  BY IInvInit, SaneInit
<1>4. IInv /\ AllSane /\ [Next]_vars => (IInv /\ AllSane)'
  BY IInvStep, SaneStep
<1> QED
  BY <1>1, <1>2, <1>3, <1>4, PTL DEF Spec, ImplementsOperations, Promise!Spec

\* MCAPI_SUCCESS is told only of an operation that has its result.
THEOREM SuccessIsTrue ==
  ASSUME ~ LocalGets, ~ RetryAfterTimeout
  PROVE  Spec => []SuccessMeansDone
<1>1. AllSane => SuccessMeansDone
  <2> SUFFICES ASSUME AllSane, NEW o \in Ops, phase[o] \in {"completed", "done"}
               PROVE  CASE kind[o] = "RECV" -> mem[o] \in Msgs
                        [] kind[o] = "GET_ENDPT" -> mem[o] = Filled
                        [] kind[o] = "SEND" -> sent[o] = "acked"
    BY DEF SuccessMeansDone
  <2>1. kind[o] \in {"SEND", "RECV", "GET_ENDPT"} /\ Result(o)
    BY DEF AllSane, Sane, Finished, Kinds
  <2>2. CASE kind[o] = "RECV"
    BY <2>1, <2>2 DEF Result
  <2>3. CASE kind[o] = "GET_ENDPT"
    BY <2>1, <2>3 DEF Result
  <2>4. CASE kind[o] = "SEND"
    BY <2>1, <2>4 DEF Result
  <2> QED
    BY <2>1, <2>2, <2>3, <2>4
<1>2. Init => IInv /\ AllSane
  BY IInvInit, SaneInit
<1>3. IInv /\ AllSane /\ [Next]_vars => (IInv /\ AllSane)'
  BY IInvStep, SaneStep
<1> QED
  BY <1>1, <1>2, <1>3, PTL DEF Spec

-----------------------------------------------------------------------------
(* Requests do not leak                                                    *)

\* Without deletions the port of a record is always found.
Tight ==
  /\ NoLeak
  /\ ports = Ports
  /\ \A o \in Open : PortFound(requests[request[o]])
  /\ \A o \in Ops : phase[o] = "blocked" => PortFound(args[o])

Calm ==
  /\ ~ Faults /\ ~ Deletes /\ ~ LocalGets /\ ~ RetryAfterTimeout
  /\ IsFiniteSet(Ops) /\ Cardinality(Ops) < MaxRequests

LEMMA TightInit ==
  ASSUME Init
  PROVE  Tight
BY DEF Init, PoolInit, Tight, NoLeak, Held, Open

\* The open operations never hold the last request, so that no release is refused.
LEMMA ReleaseIsNotRefused ==
  ASSUME Calm, IInv, Tight, NEW r \in Requests, Release(r)
  PROVE  Remove(r)
<1> SUFFICES ASSUME curr_count = MaxRequests
             PROVE  FALSE
  BY MaxRequestsAssumption DEF IInv, TypeOK, PoolTypeOK, Release, RemoveRefused
<1>1. Held = Requests
  BY EmptyListMeansAllHeld DEF IInv, TypeOK
<1> DEFINE handles == {request[o] : o \in Open}
<1>2. IsFiniteSet(Open) /\ Cardinality(Open) <= Cardinality(Ops)
  BY FS_Subset DEF Calm, Open
<1>3. IsFiniteSet(handles) /\ Cardinality(handles) <= Cardinality(Open)
  <2> DEFINE f == [o \in Open |-> request[o]]
  <2>1. f \in [Open -> handles] /\ \A h \in handles : \E o \in Open : f[o] = h
    OBVIOUS
  <2> HIDE DEF f, handles
  <2>2. f \in Surjection(Open, handles)
    BY <2>1 DEF Surjection
  <2> QED
    BY <1>2, <2>2, FS_Surjection
<1>4. Cardinality(Requests) = MaxRequests
  <2>1. 0 \in Int /\ MaxRequests - 1 \in Int /\ MaxRequests >= 1
    BY MaxRequestsAssumption
  <2>2. Cardinality(0 .. MaxRequests - 1) =
          IF 0 > MaxRequests - 1 THEN 0 ELSE (MaxRequests - 1) - 0 + 1
    BY <2>1, FS_Interval, Zenon
  <2> QED
    BY <2>2, MaxRequestsAssumption DEF Requests
<1>5. handles = Requests
  BY <1>1 DEF Tight, NoLeak
<1> HIDE DEF handles
<1>6. Cardinality(Open) \in Nat /\ Cardinality(Ops) \in Nat /\ Cardinality(handles) \in Nat
  BY <1>2, <1>3, FS_CardinalityType DEF Calm
<1> QED
  BY <1>2, <1>3, <1>4, <1>5, <1>6, MaxRequestsAssumption DEF Calm

\* Nobody begins or ends to be open.
LEMMA TightFrame ==
  ASSUME Tight, UNCHANGED <<valid, ports>>, Open' = Open,
         \A o \in Open : request'[o] = request[o]
                         /\ (PortFound(requests[request[o]]) => PortFound(requests[request[o]])'),
         \A o \in Ops : phase'[o] = "blocked" => PortFound(args[o])'
  PROVE  Tight'
<1>1. {request[o] : o \in Open}' = {request[o] : o \in Open}
  OBVIOUS
<1>2. NoLeak'
  BY <1>1 DEF Tight, NoLeak, Held
<1> QED
  BY <1>2 DEF Tight

\* o becomes open with the head of the free list.
LEMMA TightReserve ==
  ASSUME IInv, Tight, NEW o \in Ops \ Open, NEW r \in Requests, Reserve(r),
         UNCHANGED <<ports, args>>,
         NEW q \in {"pending", "completed"}, NEW k, Become(o, q, k, r),
         NEW rec, PortFound(rec), requests' = [requests EXCEPT ![r] = rec]
  PROVE  Tight'
<1>t. PoolTypeOK /\ DOMAIN phase = Ops /\ DOMAIN request = Ops /\ DOMAIN requests = Requests
  BY DEF IInv, TypeOK
<1>1. /\ phase'[o] = q /\ request'[o] = r
      /\ \A x \in Ops \ {o} : phase'[x] = phase[x] /\ request'[x] = request[x]
  BY <1>t DEF Become
<1>2. Open' = Open \union {o} /\ Open \subseteq Ops
  BY <1>1 DEF Open
<1>3. Held' = Held \union {r}
  BY <1>t DEF Held, Reserve, PoolTypeOK
<1>4. {request[x] : x \in Open}' = {request[x] : x \in Open} \union {r}
  BY <1>1, <1>2
<1>5. \A x \in Open : request[x] # r
  BY ReservedHandleIsNew
<1>6. ASSUME NEW x \in Open'
      PROVE  PortFound(requests[request[x]])'
  <2>1. CASE x = o
    BY <1>1, <1>t, <2>1 DEF PortFound
  <2>2. CASE x # o
    <3>1. x \in Open /\ request'[x] = request[x] /\ requests'[request[x]] = requests[request[x]]
      BY <1>1, <1>2, <1>5, <1>t, <2>2
    <3> QED
      BY <3>1 DEF Tight, PortFound
  <2> QED
    BY <2>1, <2>2
<1>7. \A x \in Ops : phase'[x] = "blocked" => PortFound(args[x])'
  BY <1>1 DEF Tight, PortFound
<1> QED
  BY <1>3, <1>4, <1>6, <1>7 DEF Tight, NoLeak

\* o gives its request back.
LEMMA TightRemove ==
  ASSUME Calm, IInv, Tight, NEW o \in Open, Release(request[o]), UNCHANGED <<requests, ports>>,
         NEW q \in {"idle", "done"}, NEW k, Become(o, q, k, None),
         \A x \in Ops \ {o} : args'[x] = args[x]
  PROVE  Tight'
<1>t. /\ PoolTypeOK /\ DOMAIN phase = Ops /\ DOMAIN request = Ops
      /\ o \in Ops /\ Open \subseteq Ops
  BY DEF IInv, TypeOK, Open
<1>v. \A x \in Open : HasRecord(x) /\ request[x] \in Requests
  BY DEF IInv, OwnRecord, HasRecord, ValidHandle
<1>1. /\ phase'[o] = q
      /\ \A x \in Ops \ {o} : phase'[x] = phase[x] /\ request'[x] = request[x]
  BY <1>t DEF Become
<1>2. Open' = Open \ {o}
  BY <1>1, <1>t DEF Open
<1>3. Remove(request[o])
  BY <1>v, ReleaseIsNotRefused
<1>4. Held' = Held \ {request[o]}
  BY <1>3, <1>t, <1>v DEF Held, Remove, PoolTypeOK
<1>5. \A x \in Open \ {o} : request[x] # request[o]
  BY <1>v DEF HasRecord
<1>6. {request[x] : x \in Open}' = {request[x] : x \in Open} \ {request[o]}
  BY <1>1, <1>2, <1>5, <1>t
<1>7. \A x \in Open' : PortFound(requests[request[x]])'
  BY <1>1, <1>2, <1>t DEF Tight, PortFound
<1>8. \A x \in Ops : phase'[x] = "blocked" => PortFound(args[x])'
  BY <1>1 DEF Tight, PortFound
<1> QED
  BY <1>4, <1>6, <1>7, <1>8 DEF Tight, NoLeak

LEMMA BeginTight ==
  ASSUME Calm, IInv, Tight, NEW o \in Ops, Begin(o)
  PROVE  Tight'
<1>d. DOMAIN phase = Ops /\ DOMAIN request = Ops /\ DOMAIN args = Ops
  BY DEF IInv, TypeOK
<1>i. phase[o] = "idle" => o \in Ops \ Open
  BY DEF Open
<1>1. CASE RequestLimit(o)
  BY <1>1, TightFrame
     DEF RequestLimit, ReserveFails, poolVars, clientVars, Open, Tight, PortFound
<1>2. ~ \E r \in Requests, p \in Ports : EndpointInvalid(o, r, p)
  BY DEF Tight, EndpointInvalid
<1>3. ASSUME NEW r \in Requests, NEW p \in Ports, MsgSendI(o, r, p)
      PROVE  Tight'
  <2>1. PICK q \in {"pending", "completed"}, c \in BOOLEAN :
          Become(o, q, "SEND", r) /\ SetUp(r, c, "SEND", o, p)
    BY <1>3 DEF MsgSendI, Calm
  <2>2. /\ Reserve(r) /\ UNCHANGED <<ports, args>> /\ o \in Ops \ Open
        /\ PortFound(Record(c, "SEND", o, p))
    BY <1>3, <1>i DEF MsgSendI, PortFound, Record
  <2> QED
    BY <2>1, <2>2, TightReserve DEF SetUp
<1>4. ASSUME NEW r \in Requests, NEW k \in {"RECV", "GET_ENDPT"}, NEW p \in Ports \union {NoPort},
             phase[o] = "idle", Reserve(r), Ask(o, r, Record(FALSE, k, o, p)),
             UNCHANGED <<ports, args>>, k = "RECV" => p \in ports
      PROVE  Tight'
  <2>1. PICK q \in {"pending", "completed"}, c \in BOOLEAN :
          Become(o, q, k, r) /\ SetUp(r, c, k, o, p)
    BY <1>4 DEF Ask, Record, Calm
  <2>2. PortFound(Record(c, k, o, p))
    BY <1>4 DEF PortFound, Record
  <2> QED
    BY <1>4, <1>i, <2>1, <2>2, TightReserve DEF SetUp
<1>5. CASE \E r \in Requests, p \in Ports : MsgRecvI(o, r, p)
  BY <1>4, <1>5 DEF MsgRecvI
<1>6. CASE \E r \in Requests : EndpointGetI(o, r)
  BY <1>4, <1>6 DEF EndpointGetI
<1>7. ~ \E r \in Requests : EndpointGetILocal(o, r)
  BY DEF EndpointGetILocal, Calm
<1>8. ASSUME NEW k \in Kinds, NEW p \in Ports \union {NoPort}, CallBlocks(o, k, p)
      PROVE  Tight'
  <2>1. /\ phase[o] = "idle" /\ phase'[o] = "blocked" /\ UNCHANGED <<valid, ports, requests>>
        /\ \A x \in Ops \ {o} : /\ phase'[x] = phase[x] /\ request'[x] = request[x]
                                /\ args'[x] = args[x]
        /\ args'[o] = Record(FALSE, k, o, p) /\ PortFound(Record(FALSE, k, o, p))
    BY <1>8, <1>d DEF CallBlocks, Become, poolVars
  <2>2. Open' = Open /\ o \notin Open /\ Open \subseteq Ops
    BY <2>1 DEF Open
  <2>3. \A x \in Ops : phase'[x] = "blocked" => PortFound(args[x])'
    BY <2>1 DEF Tight, PortFound
  <2> QED
    BY <2>1, <2>2, <2>3, TightFrame DEF PortFound
<1>9. CASE EndpointGetLocal(o)
  <2>1. /\ phase[o] = "idle" /\ phase'[o] = "done" /\ UNCHANGED <<valid, ports, requests, args>>
        /\ \A x \in Ops \ {o} : phase'[x] = phase[x] /\ request'[x] = request[x]
    BY <1>9, <1>d DEF EndpointGetLocal, Become, poolVars
  <2>2. Open' = Open /\ o \notin Open /\ Open \subseteq Ops
    BY <2>1 DEF Open
  <2>3. \A x \in Ops : phase'[x] = "blocked" => PortFound(args[x])'
    BY <2>1 DEF Tight, PortFound
  <2> QED
    BY <2>1, <2>2, <2>3, TightFrame DEF PortFound
<1> QED
  BY <1>1, <1>2, <1>3, <1>5, <1>6, <1>7, <1>8, <1>9 DEF Begin

LEMMA TestTight ==
  ASSUME Calm, IInv, Tight, NEW o \in Ops, Test(o)
  PROVE  Tight'
<1>t. /\ DOMAIN phase = Ops /\ DOMAIN request = Ops /\ requests \in [Requests -> Records]
      /\ \A x \in Open : request[x] \in Requests
  BY DEF IInv, TypeOK, OwnRecord, HasRecord, ValidHandle
<1>1. CASE TestFails(o)
  BY <1>1, TightFrame DEF TestFails, vars, poolVars, clientVars, Open, Tight, PortFound
<1>2. CASE TestCompleted(o) \/ TestCompletes(o)
  <2>1. /\ o \in Open /\ phase'[o] = "completed" /\ request'[o] = request[o]
        /\ UNCHANGED <<valid, ports, args>>
        /\ \A x \in Ops \ {o} : phase'[x] = phase[x] /\ request'[x] = request[x]
    BY <1>2, <1>t DEF TestCompleted, TestCompletes, Become, Waitable, Open, poolVars
  <2>2. Open' = Open /\ Open \subseteq Ops
    BY <2>1 DEF Open
  <2>3. \A r \in Requests : requests'[r].type = requests[r].type /\ requests'[r].port = requests[r].port
    BY <1>2, <1>t DEF TestCompleted, TestCompletes, Records
  <2>4. \A x \in Ops : phase'[x] = "blocked" => PortFound(args[x])'
    BY <2>1 DEF Tight, PortFound
  <2>5. \A x \in Open : request'[x] = request[x]
          /\ (PortFound(requests[request[x]]) => PortFound(requests[request[x]])')
    BY <2>1, <2>2, <2>3, <1>t DEF PortFound
  <2> QED
    BY <2>1, <2>2, <2>4, <2>5, TightFrame
<1> QED
  BY <1>1, <1>2 DEF Test

LEMMA WaitTight ==
  ASSUME Calm, IInv, Tight, NEW o \in Ops, Wait(o) \/ Unblock(o) \/ Consume(o)
  PROVE  Tight'
<1>t. DOMAIN phase = Ops /\ DOMAIN request = Ops /\ DOMAIN args = Ops
  BY DEF IInv, TypeOK
<1>1. ~ WaitRejected(o)
  BY DEF WaitRejected, Waitable, Open, IInv, OwnRecord, HasRecord, Tight
<1>2. CASE WaitCompleted(o)
  <2>1. o \in Open /\ Release(request[o]) /\ UNCHANGED <<requests, ports, args>>
        /\ Become(o, "done", kind[o], None)
    BY <1>2 DEF WaitCompleted, Waitable, Open, Done
  <2> QED
    BY <2>1, TightRemove
<1>3. CASE WaitBlocks(o)
  <2>1. /\ o \in Open /\ phase'[o] = "waiting" /\ request'[o] = request[o]
        /\ UNCHANGED <<valid, ports, requests>>
        /\ \A x \in Ops \ {o} : /\ phase'[x] = phase[x] /\ request'[x] = request[x]
                                /\ args'[x] = args[x]
    BY <1>3, <1>t DEF WaitBlocks, Become, Waitable, Open, poolVars
  <2>2. Open' = Open /\ Open \subseteq Ops
    BY <2>1 DEF Open
  <2>3. \A x \in Ops : phase'[x] = "blocked" => PortFound(args[x])'
    BY <2>1 DEF Tight, PortFound
  <2> QED
    BY <2>1, <2>2, <2>3, TightFrame DEF PortFound
<1>4. CASE WaitSucceeds(o) \/ WaitFails(o)
  <2>1. /\ o \in Open /\ Release(request[o]) /\ UNCHANGED <<requests, ports>>
        /\ \A x \in Ops \ {o} : args'[x] = args[x]
    BY <1>4, <1>t DEF WaitSucceeds, WaitFails, Returned, Open
  <2>2. \/ Become(o, "done", kind[o], None)
        \/ Become(o, "idle", "OTHER", None)
    BY <1>4 DEF WaitSucceeds, WaitFails, Done, GiveUp, Calm
  <2> QED
    BY <2>1, <2>2, TightRemove
<1>5. CASE CallSucceeds(o) \/ CallFails(o) \/ Consume(o)
  <2>1. /\ o \notin Open /\ phase'[o] \in {"idle", "done"} /\ UNCHANGED <<valid, ports, requests>>
        /\ \A x \in Ops \ {o} : /\ phase'[x] = phase[x] /\ request'[x] = request[x]
                                /\ args'[x] = args[x]
    BY <1>5, <1>t DEF CallSucceeds, CallFails, Consume, Done, GiveUp, Become, Returned, Open, poolVars
  <2>2. Open' = Open /\ Open \subseteq Ops
    BY <2>1 DEF Open
  <2>3. \A x \in Ops : phase'[x] = "blocked" => PortFound(args[x])'
    BY <2>1 DEF Tight, PortFound
  <2> QED
    BY <2>1, <2>2, <2>3, TightFrame DEF PortFound
<1> QED
  BY <1>1, <1>2, <1>3, <1>4, <1>5 DEF Wait, Unblock

LEMMA OtherTight ==
  ASSUME Calm, Tight,
         \/ Driver \/ UNCHANGED vars
         \/ \E p \in Ports : EndpointDelete(p) \/ EndpointCreate(p)
  PROVE  Tight'
<1>1. UNCHANGED <<valid, ports, requests, phase, request, args>>
  BY DEF Driver, Arrive, Ack, RemoteChanges, vars, EndpointDelete, EndpointCreate, clientVars,
         poolVars, Calm
<1> QED
  BY <1>1, TightFrame DEF Open, Tight, PortFound

\* With more requests than operations, and without driver errors and deletions, the
\* reserved requests are always those of the operations that are still open.
THEOREM NothingLeaks ==
  ASSUME ~ Faults, ~ Deletes, ~ LocalGets, ~ RetryAfterTimeout,
         IsFiniteSet(Ops), Cardinality(Ops) < MaxRequests
  PROVE  Spec => []NoLeak
<1>1. Calm
  BY DEF Calm
<1>2. Init => IInv /\ Tight
  BY IInvInit, TightInit
<1>3. IInv /\ Tight /\ [Next]_vars => (IInv /\ Tight)'
  BY <1>1, IInvStep, BeginTight, TestTight, WaitTight, OtherTight DEF Next
<1>4. IInv /\ Tight => NoLeak
  BY DEF Tight
<1> QED
  BY <1>2, <1>3, <1>4, PTL DEF Spec
=============================================================================
