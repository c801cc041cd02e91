------------------------ MODULE LocalRunStoreProofs ------------------------
(***************************************************************************)
(* Safety of the in-process host for every finite set of steps, every set  *)
(* of dispatcher calls and every concurrency: IInv of module LocalRunStore *)
(* is inductive and implies its safety properties.                         *)
(***************************************************************************)
EXTENDS LocalRunStore, FiniteSetTheorems, TLAPS

USE StepsAssumption, BoundsAssumption

(***************************************************************************)
(* Type correctness                                                        *)
(***************************************************************************)

TaskType ==
  [pc : {"idle", "claimed", "held", "calling", "publish"},
   key : Steps \cup {0}, epoch : 0..MaxEpoch, result : Results \cup {"none"}]

CallType ==
  [pc : {"new", "send1", "send2", "watch", "done", "dropped"},
   key : Steps \cup {0}, invocation : AnyInvocation, sink : {"live", "dead"},
   reply : Answers \cup {"none", "collision", "unsent"}]

\* The records, the idle task and the new call that the host starts with.
LEMMA InitialValues ==
  /\ NoRecord \in StepRecords
  /\ IdleTask \in TaskType
  /\ NewCall \in CallType
  /\ \A c \in Calls : \A invocation \in Invocations[c] :
       PendingRecord(invocation) \in StepRecords
<1>1. NoRecord \in StepRecords
  <2>1. NoInvocation \in AnyInvocation /\ "absent" \in RecordStates
        /\ 0 \in 0..MaxEpoch
    BY DEF AnyInvocation, RecordStates
  <2>2. QED
    BY <2>1 DEF NoRecord, StepRecords
<1>2. IdleTask \in TaskType
  BY DEF IdleTask, TaskType
<1>3. NewCall \in CallType
  <2>1. NoInvocation \in AnyInvocation
    BY DEF AnyInvocation
  <2>2. QED
    BY <2>1 DEF NewCall, CallType
<1>4. ASSUME NEW c \in Calls, NEW invocation \in Invocations[c]
      PROVE  PendingRecord(invocation) \in StepRecords
  <2>1. invocation \in AnyInvocation
    BY DEF AnyInvocation
  <2>2. "pending" \in RecordStates
    BY DEF RecordStates
  <2>3. QED
    BY <1>1, <2>1, <2>2 DEF PendingRecord, StepRecords
<1>5. QED
  BY <1>1, <1>2, <1>3, <1>4

\* A record may be replaced by a record.
LEMMA RecordReplaced ==
  ASSUME TypeOK, NEW k \in Steps, NEW r \in StepRecords,
         records' = [records EXCEPT ![k] = r]
  PROVE  records' \in [Steps -> StepRecords]
BY DEF TypeOK

\* A step of a dispatcher call.
LEMMA DispatchTyped ==
  ASSUME IInv, NEW c \in Calls, Dispatch(c)
  PROVE  TypeOK'
<1> USE DEF IInv, store, transport
<1>1. ASSUME NEW k \in Steps, NEW invocation \in Invocations[c],
             NEW sink \in {"live", "dead"}, Register(c, k, invocation, sink)
      PROVE  TypeOK'
  <2>1. records' \in [Steps -> StepRecords]
    BY <1>1, InitialValues DEF Register, TypeOK
  <2>2. PICK pc \in {"done", "send1", "watch"},
             reply \in {"collision", "none"} :
          call' = [call EXCEPT ![c] =
            [pc |-> pc, key |-> k, invocation |-> invocation, sink |-> sink,
             reply |-> reply]]
    <3> DEFINE collides == Collides(k, invocation)
               pending == records'[k].state = "pending"
    <3>1. call' = [call EXCEPT ![c] =
            [pc |-> IF collides THEN "done"
                    ELSE IF pending THEN "send1" ELSE "watch",
             key |-> k, invocation |-> invocation, sink |-> sink,
             reply |-> IF collides THEN "collision" ELSE "none"]]
      BY <1>1 DEF Register
    <3> HIDE DEF collides, pending
    <3>2. CASE collides
      BY <3>1, <3>2
    <3>3. CASE ~collides /\ pending
      BY <3>1, <3>3
    <3>4. CASE ~collides /\ ~pending
      BY <3>1, <3>4
    <3>5. QED
      BY <3>2, <3>3, <3>4
  <2>3. invocation \in AnyInvocation
    BY DEF AnyInvocation
  <2>4. call' \in [Calls -> CallType]
    BY <2>2, <2>3 DEF TypeOK, CallType
  <2>5. QED
    BY <1>1, <2>1, <2>4 DEF Register, TypeOK, CallType
<1>2. CASE Send(c)
  <2>1. call' \in [Calls -> CallType]
    <3>1. CASE call[c].sink = "live"
      <4>1. [call[c] EXCEPT !.pc = IF @ = "send1" THEN "send2" ELSE "watch"]
              \in CallType
        BY DEF TypeOK, CallType
      <4>2. call' = [call EXCEPT ![c] =
              [call[c] EXCEPT !.pc = IF @ = "send1" THEN "send2" ELSE "watch"]]
        BY <1>2, <3>1 DEF Send
      <4>3. QED
        BY <4>1, <4>2 DEF TypeOK, CallType
    <3>2. CASE call[c].sink # "live"
      <4>1. [call[c] EXCEPT !.pc = "done", !.reply = "unsent"] \in CallType
        <5>1. call[c] \in CallType
          BY DEF TypeOK, CallType
        <5>2. QED
          BY <5>1 DEF CallType
      <4>2. call' = [call EXCEPT ![c] =
              [call[c] EXCEPT !.pc = "done", !.reply = "unsent"]]
        BY <1>2, <3>2 DEF Send, Reply
      <4>3. QED
        BY <4>1, <4>2 DEF TypeOK, CallType
    <3>3. QED
      BY <3>1, <3>2
  <2>2. queue' \in [Steps -> Nat]
    BY <1>2 DEF Send, TypeOK
  <2>3. QED
    BY <1>2, <2>1, <2>2 DEF Send, TypeOK, CallType
<1>3. CASE ObserveTerminal(c)
  <2>1. call' \in [Calls -> CallType]
    <3>1. call[c].key \in Steps
      BY <1>3 DEF ObserveTerminal, StoreInv, CallBound
    <3>2. records[call[c].key].terminal \in Answers
      <4>1. records[call[c].key].terminal # "none"
        BY <1>3 DEF ObserveTerminal
      <4>2. records[call[c].key].terminal \in Answers \cup {"none"}
        BY <3>1 DEF TypeOK, StepRecords
      <4>3. QED
        BY <4>1, <4>2
    <3>3. [call[c] EXCEPT !.pc = "done", !.reply = records[call[c].key].terminal]
            \in CallType
      <4>1. call[c] \in CallType
        BY DEF TypeOK, CallType
      <4>2. QED
        BY <3>2, <4>1 DEF CallType
    <3>4. QED
      BY <1>3, <3>3 DEF ObserveTerminal, Reply, TypeOK, CallType
  <2>2. QED
    BY <1>3, <2>1 DEF ObserveTerminal, TypeOK, CallType
<1>4. CASE DropCall(c)
  <2>1. call' \in [Calls -> CallType]
    BY <1>4, InitialValues DEF DropCall, TypeOK, CallType
  <2>2. QED
    BY <1>4, <2>1 DEF DropCall, TypeOK, CallType
<1>5. QED
  BY <1>1, <1>2, <1>3, <1>4 DEF Dispatch

\* A step of a task.
LEMMA TaskTyped ==
  ASSUME IInv, NEW t \in Tasks, Proceed(t) \/ \E k \in Steps : Claim(t, k)
  PROVE  TypeOK'
<1> USE InitialValues DEF IInv, store, transport
<1>1. ASSUME NEW k \in Steps, Claim(t, k)
      PROVE  TypeOK'
  <2>1. queue' \in [Steps -> Nat]
    <3>1. queue[k] \in Nat /\ queue[k] > 0
      BY <1>1 DEF Claim, TypeOK
    <3>2. queue' = [queue EXCEPT ![k] = queue[k] - 1]
      BY <1>1 DEF Claim
    <3>3. QED
      BY <3>1, <3>2 DEF TypeOK
  <2>2. CASE records[k].state = "pending"
    <3> DEFINE e == next_epoch + 1
    <3>1. /\ e <= MaxEpoch /\ next_epoch' = e
          /\ records' = [records EXCEPT ![k].state = "claimed",
                                        ![k].epoch = e]
          /\ task' = [task EXCEPT ![t] = [IdleTask EXCEPT !.pc = "claimed",
                                           !.key = k, !.epoch = e]]
      BY <1>1, <2>2 DEF Claim, FreshEpoch
    <3>2. e \in 1..MaxEpoch
      BY <3>1 DEF TypeOK
    <3>3. [records[k] EXCEPT !.state = "claimed", !.epoch = e] \in StepRecords
      <4>1. "claimed" \in RecordStates /\ e \in 0..MaxEpoch /\ e > 0
        BY <3>2 DEF RecordStates
      <4>2. records[k] \in StepRecords
        BY DEF TypeOK
      <4>3. QED
        BY <4>1, <4>2 DEF StepRecords
    <3>4. records' \in [Steps -> StepRecords]
      <4>1. records' = [records EXCEPT
              ![k] = [records[k] EXCEPT !.state = "claimed", !.epoch = e]]
        BY <3>1 DEF TypeOK
      <4> HIDE DEF e
      <4>2. QED
        BY <2>1, <3>3, <4>1, RecordReplaced
    <3>5. [IdleTask EXCEPT !.pc = "claimed", !.key = k, !.epoch = e]
            \in TaskType
      <4>1. e \in 0..MaxEpoch
        BY <3>2
      <4>2. QED
        BY <4>1, InitialValues DEF TaskType
    <3>6. task' \in [Tasks -> TaskType]
      BY <3>1, <3>5 DEF TypeOK, TaskType
    <3>7. UNCHANGED <<worker, started, call, settlements, provided>>
      BY <1>1 DEF Claim
    <3>8. QED
      BY <2>1, <3>1, <3>2, <3>4, <3>6, <3>7 DEF TypeOK, TaskType
  <2>3. CASE records[k].state # "pending"
    BY <1>1, <2>1, <2>3 DEF Claim, TypeOK
  <2>4. QED
    BY <2>2, <2>3
<1> DEFINE k == task[t].key
<1>k. task[t].pc # "idle" => k \in Steps
  BY DEF StoreInv, TaskOwns
<1>2. CASE Launch(t)
  <2>1. records' \in [Steps -> StepRecords]
    BY <1>2 DEF Launch, Holds, TypeOK, StepRecords, RecordStates
  <2>2. task' \in [Tasks -> TaskType]
    BY <1>2 DEF Launch, Advance, Finish, TypeOK, TaskType
  <2>3. QED
    BY <1>2, <2>1, <2>2 DEF Launch, TypeOK, TaskType
<1>3. CASE NoteProviderCall(t)
  <2>1. k \in Steps
    BY <1>3, <1>k DEF NoteProviderCall
  <2>2. [records[k] EXCEPT !.provider_call_recorded = TRUE] \in StepRecords
    <3>1. records[k] \in StepRecords
      BY <2>1 DEF TypeOK
    <3> HIDE DEF k
    <3>2. QED
      BY <3>1 DEF StepRecords
  <2>3. records' \in [Steps -> StepRecords]
    BY <1>3, <2>1, <2>2, RecordReplaced DEF NoteProviderCall, TypeOK
  <2>4. provided' \in [Steps -> Nat]
    BY <1>3, <2>1 DEF NoteProviderCall, TypeOK
  <2>5. task' \in [Tasks -> TaskType]
    BY <1>3 DEF NoteProviderCall, Advance, Finish, TypeOK, TaskType
  <2>6. QED
    BY <1>3, <2>3, <2>4, <2>5 DEF NoteProviderCall, TypeOK, TaskType
<1>4. ASSUME NEW result \in Results, Complete(t, result)
      PROVE  TypeOK'
  <2>1. k \in Steps
    BY <1>4, <1>k DEF Complete
  <2>2. MayComplete(t) =>
          [records[k] EXCEPT !.state = "terminal"] \in StepRecords
    BY <2>1 DEF MayComplete, Holds, TypeOK, StepRecords, RecordStates
  <2>3. records' \in [Steps -> StepRecords]
    BY <1>4, <2>1, <2>2, RecordReplaced DEF Complete, TypeOK
  <2>4. task' \in [Tasks -> TaskType]
    BY <1>4 DEF Complete, Finish, TypeOK, TaskType
  <2>5. QED
    BY <1>4, <2>3, <2>4 DEF Complete, TypeOK, TaskType
<1>5. CASE PublishResult(t)
  <2>1. k \in Steps
    BY <1>5, <1>k DEF PublishResult
  <2>2. [records[k] EXCEPT !.terminal = task[t].result] \in StepRecords
    BY <2>1 DEF TypeOK, StepRecords, Answers
  <2>3. records' \in [Steps -> StepRecords]
    BY <1>5, <2>1, <2>2, RecordReplaced DEF PublishResult
  <2>4. task' \in [Tasks -> TaskType]
    BY <1>5 DEF PublishResult, Finish, TypeOK, TaskType
  <2>5. QED
    BY <1>5, <2>3, <2>4 DEF PublishResult, TypeOK, TaskType
<1>6. QED
  BY <1>1, <1>2, <1>3, <1>4, <1>5 DEF Proceed

\* A step of the host.
LEMMA HostTyped ==
  ASSUME TypeOK, Host
  PROVE  TypeOK'
<1> USE InitialValues DEF store, transport
<1>1. CASE StartWorker
  BY <1>1 DEF StartWorker, TypeOK
<1>2. CASE StopWorker
  BY <1>2 DEF StopWorker, TypeOK
<1>3. ASSUME WorkerGone
      PROVE  /\ call' \in [Calls -> CallType]
             /\ queue' \in [Steps -> Nat]
             /\ worker' = "down"
  <2>1. ASSUME NEW c \in Calls
        PROVE  [call[c] EXCEPT !.sink = "dead"] \in CallType
    <3>1. call[c] \in CallType
      BY DEF TypeOK, CallType
    <3>2. QED
      BY <3>1 DEF CallType
  <2>2. call' = [c \in Calls |-> [call[c] EXCEPT !.sink = "dead"]]
    BY <1>3 DEF WorkerGone
  <2>3. call' \in [Calls -> CallType]
    BY <2>1, <2>2
  <2>4. queue' \in [Steps -> Nat] /\ worker' = "down"
    BY <1>3 DEF WorkerGone
  <2>5. QED
    BY <2>3, <2>4
<1>4. CASE WorkerJoined
  BY <1>3, <1>4 DEF WorkerJoined, TypeOK, CallType
<1>5. CASE AbortWorker
  BY <1>3, <1>5 DEF AbortWorker, TypeOK, CallType, TaskType
<1>6. CASE ReconcileWorkerLoss
  <2>1. records' \in [Steps -> StepRecords]
    <3>1. \A k \in Steps : Fenced(records[k]) \in StepRecords
      <4> TAKE k \in Steps
      <4>1. records[k] \in StepRecords
            /\ {"pending", "uncertain"} \subseteq RecordStates
        BY DEF TypeOK, RecordStates
      <4>2. CASE records[k].state = "claimed"
        BY <4>1, <4>2 DEF Fenced, StepRecords
      <4>3. CASE records[k].state = "launched"
        BY <4>1, <4>3 DEF Fenced, StepRecords
      <4>4. CASE records[k].state \notin {"claimed", "launched"}
        BY <4>1, <4>4 DEF Fenced
      <4>5. QED
        BY <4>2, <4>3, <4>4
    <3>2. QED
      BY <1>6, <3>1 DEF ReconcileWorkerLoss
  <2>2. QED
    BY <1>6, <2>1 DEF ReconcileWorkerLoss, SettlementsOf, TypeOK
<1>7. ASSUME NEW k \in Steps, PublishLoss(k)
      PROVE  TypeOK'
  <2>1. records' \in [Steps -> StepRecords]
    BY <1>7 DEF PublishLoss, TypeOK, StepRecords, Answers
  <2>2. QED
    BY <1>7, <2>1 DEF PublishLoss, TypeOK
<1>8. QED
  BY <1>1, <1>2, <1>4, <1>5, <1>6, <1>7 DEF Host

(***************************************************************************)
(* The invariant holds initially                                           *)
(***************************************************************************)

\* An empty store without a worker satisfies the invariant.
LEMMA InitIInv == Init => IInv
<1> SUFFICES ASSUME Init
             PROVE  IInv
  OBVIOUS
<1>1. TypeOK
  BY InitialValues DEF Init, TypeOK, TaskType, CallType
<1>2. CallRetained /\ \A k \in Steps : RecordAgrees(k)
  BY DEF Init, CallRetained, RecordAgrees, NoRecord, Results
<1>3. RepliesMatchRecord /\ \A c \in Calls : CallBound(c)
  BY DEF Init, RepliesMatchRecord, CallBound, NewCall, Answers, Results
<1>4. ClaimsApart /\ \A t \in Tasks : TaskOwns(t)
  BY DEF Init, ClaimsApart, TaskOwns, IdleTask
<1>5. QED
  BY <1>1, <1>2, <1>3, <1>4 DEF IInv, StoreInv

(***************************************************************************)
(* What a step may do to a record, a call and a task                       *)
(***************************************************************************)

\* A record that is there is not removed, keeps its invocation, and stays
\* settled once it is.
Kept(k) ==
  records[k].state # "absent" =>
    /\ records'[k].state # "absent"
    /\ records'[k].frozen = records[k].frozen
    /\ records[k].state \in {"terminal", "uncertain"} =>
         records'[k].state = records[k].state

\* A call that a step leaves alone, except for its sink, remains bound and
\* correctly answered when the records are kept.
LEMMA CallKept ==
  ASSUME IInv, NEW c \in Calls, \A k \in Steps : Kept(k),
         call'[c].pc = call[c].pc, call'[c].key = call[c].key,
         call'[c].invocation = call[c].invocation,
         call'[c].reply = call[c].reply
  PROVE  /\ CallBound(c)'
         /\ call'[c].reply \in Answers =>
              /\ records'[call'[c].key].frozen = call'[c].invocation
              /\ records'[call'[c].key].state =
                   IF call'[c].reply = "lost" THEN "uncertain" ELSE "terminal"
<1>1. CallBound(c)
  BY DEF IInv, StoreInv
<1>2. CallBound(c)'
  BY <1>1 DEF CallBound, Kept
<1>3. ASSUME call[c].reply \in Answers
      PROVE  /\ records'[call[c].key].frozen = call[c].invocation
             /\ records'[call[c].key].state =
                  IF call[c].reply = "lost" THEN "uncertain" ELSE "terminal"
  <2>1. call[c].key \in Steps
    BY <1>1, <1>3 DEF CallBound
  <2>2. /\ records[call[c].key].frozen = call[c].invocation
        /\ records[call[c].key].state =
             IF call[c].reply = "lost" THEN "uncertain" ELSE "terminal"
    BY <1>3 DEF IInv, StoreInv, RepliesMatchRecord
  <2>3. Kept(call[c].key)
    BY <2>1
  <2>4. QED
    BY <2>2, <2>3 DEF Kept
<1>4. QED
  BY <1>2, <1>3

\* The invariant, put together from its parts.
LEMMA StoreInvParts ==
  ASSUME CallRetained',
         \A k \in Steps : RecordAgrees(k)',
         \A t \in Tasks : TaskOwns(t)',
         ClaimsApart',
         \A c \in Calls : CallBound(c)',
         \A c \in Calls : call'[c].reply \in Answers =>
              /\ records'[call'[c].key].frozen = call'[c].invocation
              /\ records'[call'[c].key].state =
                   IF call'[c].reply = "lost" THEN "uncertain" ELSE "terminal"
  PROVE  StoreInv'
BY DEF StoreInv, RepliesMatchRecord

\* A step of the worker or of the host changes no call, except that a sink
\* may die.
LEMMA CallsUntouched ==
  ASSUME IInv, \A k \in Steps : Kept(k),
         \A c \in Calls :
           /\ call'[c].pc = call[c].pc /\ call'[c].key = call[c].key
           /\ call'[c].invocation = call[c].invocation
           /\ call'[c].reply = call[c].reply,
         CallRetained',
         \A k \in Steps : RecordAgrees(k)',
         \A t \in Tasks : TaskOwns(t)',
         ClaimsApart'
  PROVE  StoreInv'
<1>1. ASSUME NEW c \in Calls
      PROVE  /\ CallBound(c)'
             /\ call'[c].reply \in Answers =>
                  /\ records'[call'[c].key].frozen = call'[c].invocation
                  /\ records'[call'[c].key].state =
                       IF call'[c].reply = "lost" THEN "uncertain"
                       ELSE "terminal"
  BY CallKept
<1>2. QED
  BY <1>1, StoreInvParts

(***************************************************************************)
(* The invariant is preserved: dispatcher calls                            *)
(***************************************************************************)

\* A step that changes only a call must keep what the calls were told and
\* what they rely on.
LEMMA CallChanges ==
  ASSUME IInv, NEW c \in Calls,
         UNCHANGED <<records, next_epoch, task, settlements, provided>>,
         \A k \in Steps : queue'[k] > 0 => records[k].state # "absent",
         \A d \in Calls \ {c} : call'[d] = call[d],
         call'[c].pc \in {"send1", "send2", "watch"} =>
           /\ call'[c].key \in Steps
           /\ records[call'[c].key].state # "absent"
           /\ records[call'[c].key].frozen = call'[c].invocation,
         call'[c].reply \in Answers =>
           /\ call'[c].pc = "done" /\ call'[c].key \in Steps
           /\ records[call'[c].key].frozen = call'[c].invocation
           /\ records[call'[c].key].state =
                IF call'[c].reply = "lost" THEN "uncertain" ELSE "terminal"
  PROVE  StoreInv'
<1>1. \A k \in Steps : Kept(k)
  BY DEF Kept
<1>2. CallRetained'
  BY DEF IInv, StoreInv, CallRetained
<1>3. \A k \in Steps : RecordAgrees(k)'
  BY DEF IInv, StoreInv, RecordAgrees
<1>4. ClaimsApart' /\ \A t \in Tasks : TaskOwns(t)'
  BY DEF IInv, StoreInv, ClaimsApart, TaskOwns
<1>5. ASSUME NEW d \in Calls
      PROVE  /\ CallBound(d)'
             /\ call'[d].reply \in Answers =>
                  /\ records'[call'[d].key].frozen = call'[d].invocation
                  /\ records'[call'[d].key].state =
                       IF call'[d].reply = "lost" THEN "uncertain"
                       ELSE "terminal"
  <2>1. CASE d = c
    BY <2>1 DEF CallBound
  <2>2. CASE d # c
    BY <1>1, <2>2, CallKept
  <2>3. QED
    BY <2>1, <2>2
<1>6. QED
  BY <1>2, <1>3, <1>4, <1>5, StoreInvParts

\* A call is registered: its record is there or is inserted for it.
LEMMA RegisterInv ==
  ASSUME IInv, NEW c \in Calls, NEW k \in Steps,
         NEW invocation \in Invocations[c], NEW sink \in {"live", "dead"},
         Register(c, k, invocation, sink)
  PROVE  StoreInv'
<1> DEFINE collides == Collides(k, invocation)
<1>1. call' = [call EXCEPT ![c] =
        [pc |-> IF collides THEN "done"
                ELSE IF records'[k].state = "pending" THEN "send1"
                ELSE "watch",
         key |-> k, invocation |-> invocation, sink |-> sink,
         reply |-> IF collides THEN "collision" ELSE "none"]]
  BY DEF Register
<1>2. /\ call'[c].pc \in {"done", "send1", "watch"}
      /\ call'[c].pc # "done" => ~collides
      /\ call'[c].key = k /\ call'[c].invocation = invocation
      /\ call'[c].reply \in {"collision", "none"}
      /\ \A d \in Calls \ {c} : call'[d] = call[d]
  BY <1>1 DEF IInv, TypeOK
<1>3. call'[c].reply \notin Answers
  BY <1>2 DEF Answers, Results
<1>4. UNCHANGED <<next_epoch, queue, task, settlements, provided>>
  BY DEF Register, transport
<1>5. CASE records[k].state # "absent"
  <2>1. records' = records
    BY <1>5 DEF Register
  <2>2. ~collides => records[k].frozen = invocation
    BY <1>5 DEF Collides
  <2>3. \A j \in Steps : queue[j] > 0 => records[j].state # "absent"
    BY DEF IInv, StoreInv, CallRetained
  <2>4. QED
    BY <1>2, <1>3, <1>4, <1>5, <2>1, <2>2, <2>3, CallChanges
<1>6. CASE records[k].state = "absent"
  <2>1. records' = [records EXCEPT ![k] = PendingRecord(invocation)]
    BY <1>6 DEF Register
  <2>2. /\ records'[k].state = "pending" /\ records'[k].call = TRUE
        /\ records'[k].frozen = invocation
        /\ records'[k].provider_call_recorded = FALSE
        /\ records'[k].terminal = "none" /\ records'[k].epoch = 0
    BY <2>1 DEF PendingRecord, NoRecord, IInv, TypeOK
  <2>3. \A j \in Steps \ {k} : records'[j] = records[j]
    BY <2>1 DEF IInv, TypeOK
  <2>4. \A j \in Steps : Kept(j)
    BY <1>6, <2>3 DEF Kept
  <2>5. CallRetained'
    BY <1>4, <2>2, <2>3 DEF IInv, StoreInv, CallRetained
  <2>6. ASSUME NEW j \in Steps
        PROVE  RecordAgrees(j)'
    <3>1. RecordAgrees(j)
      BY DEF IInv, StoreInv
    <3>2. CASE j = k
      <4>1. j \notin settlements /\ provided[j] = 0 /\ next_epoch >= 0
        BY <1>6, <3>1, <3>2 DEF IInv, TypeOK, RecordAgrees
      <4>2. QED
        BY <1>4, <2>2, <3>2, <4>1 DEF RecordAgrees, Results
    <3>3. CASE j # k
      <4>1. records'[j] = records[j]
        BY <2>3, <3>3
      <4>2. QED
        BY <1>4, <3>1, <4>1 DEF RecordAgrees
    <3>4. QED
      BY <3>2, <3>3
  <2>7. ASSUME NEW t \in Tasks
        PROVE  TaskOwns(t)'
    <3>1. TaskOwns(t)
      BY DEF IInv, StoreInv
    <3>2. QED
      BY <1>4, <1>6, <2>3, <3>1 DEF TaskOwns
  <2>8. ClaimsApart'
    BY <1>4 DEF IInv, StoreInv, ClaimsApart
  <2>9. ASSUME NEW d \in Calls
        PROVE  /\ CallBound(d)'
               /\ call'[d].reply \in Answers =>
                    /\ records'[call'[d].key].frozen = call'[d].invocation
                    /\ records'[call'[d].key].state =
                         IF call'[d].reply = "lost" THEN "uncertain"
                         ELSE "terminal"
    <3>1. CASE d = c
      BY <1>2, <1>3, <2>2, <3>1 DEF CallBound
    <3>2. CASE d # c
      BY <1>2, <2>4, <3>2, CallKept
    <3>3. QED
      BY <3>1, <3>2
  <2>10. QED
    BY <2>5, <2>6, <2>7, <2>8, <2>9, StoreInvParts
<1>7. QED
  BY <1>5, <1>6

\* The other steps of a call.
LEMMA DispatchInv ==
  ASSUME IInv, NEW c \in Calls, Dispatch(c)
  PROVE  StoreInv'
<1> USE DEF store, transport
<1>1. \A k \in Steps : queue[k] > 0 => records[k].state # "absent"
  BY DEF IInv, StoreInv, CallRetained
<1>2. CASE Send(c)
  <2>1. /\ call[c].key \in Steps
        /\ records[call[c].key].state # "absent"
        /\ records[call[c].key].frozen = call[c].invocation
        /\ call[c].reply \notin Answers
    BY <1>2 DEF Send, IInv, StoreInv, CallBound
  <2>2. \A k \in Steps : queue'[k] > 0 => records[k].state # "absent"
    BY <1>1, <1>2, <2>1 DEF Send, IInv, TypeOK
  <2>3. /\ \A d \in Calls \ {c} : call'[d] = call[d]
        /\ call'[c].key = call[c].key
        /\ call'[c].invocation = call[c].invocation
        /\ call'[c].reply \in {call[c].reply, "unsent"}
    BY <1>2 DEF Send, Reply, IInv, TypeOK
  <2>4. call'[c].reply \notin Answers
    BY <2>1, <2>3 DEF Answers, Results
  <2>5. QED
    BY <1>2, <2>1, <2>2, <2>3, <2>4, CallChanges DEF Send
<1>3. CASE ObserveTerminal(c)
  <2> DEFINE r == records[call[c].key]
  <2>1. call[c].key \in Steps /\ r.frozen = call[c].invocation
    BY <1>3 DEF ObserveTerminal, IInv, StoreInv, CallBound
  <2>2. r.terminal \in Answers
    <3>1. r.terminal # "none"
      BY <1>3 DEF ObserveTerminal
    <3>2. r.terminal \in Answers \cup {"none"}
      BY <2>1 DEF IInv, TypeOK, StepRecords
    <3>3. QED
      BY <3>1, <3>2
  <2>3. r.state = IF r.terminal = "lost" THEN "uncertain" ELSE "terminal"
    BY <2>1, <2>2 DEF IInv, StoreInv, RecordAgrees, Answers
  <2>4. /\ \A d \in Calls \ {c} : call'[d] = call[d]
        /\ call'[c].pc = "done" /\ call'[c].key = call[c].key
        /\ call'[c].invocation = call[c].invocation
        /\ call'[c].reply = r.terminal
    BY <1>3 DEF ObserveTerminal, Reply, IInv, TypeOK
  <2>5. QED
    BY <1>1, <1>3, <2>1, <2>3, <2>4, CallChanges DEF ObserveTerminal
<1>4. CASE DropCall(c)
  <2>1. /\ \A d \in Calls \ {c} : call'[d] = call[d]
        /\ call'[c].pc = "dropped" /\ call'[c].reply = "none"
    BY <1>4 DEF DropCall, NewCall, IInv, TypeOK
  <2>2. "none" \notin Answers
    BY DEF Answers, Results
  <2>3. QED
    BY <1>1, <1>4, <2>1, <2>2, CallChanges DEF DropCall
<1>5. QED
  BY <1>2, <1>3, <1>4, RegisterInv DEF Dispatch

(***************************************************************************)
(* The invariant is preserved: tasks                                       *)
(***************************************************************************)

\* A task that settles, loses or gives up its claim: the record of one step
\* changes within what its state allows, and the task moves on or ends.
LEMMA TaskChanges ==
  ASSUME IInv, NEW t \in Tasks, NEW k \in Steps,
         UNCHANGED <<next_epoch, queue, call, settlements>>,
         \A j \in Steps \ {k} : records'[j] = records[j]
                                  /\ provided'[j] = provided[j],
         \A u \in Tasks \ {t} : task'[u] = task[u],
         Kept(k), RecordAgrees(k)',
         records'[k].state \in {"pending", "claimed"} <=> records'[k].call,
         queue[k] > 0 => records'[k].state # "absent",
         TaskOwns(t)',
         task'[t].pc # "idle" =>
           task[t].pc # "idle" /\ task'[t].epoch = task[t].epoch,
         \A u \in Tasks \ {t} :
           task[u].pc = "publish" /\ task[u].key = k =>
             /\ records'[k].state = "terminal" /\ records'[k].terminal = "none"
             /\ records'[k].epoch = records[k].epoch
  PROVE  StoreInv'
<1>1. \A j \in Steps : Kept(j)
  BY DEF Kept
<1>2. CallRetained'
  BY DEF IInv, StoreInv, CallRetained
<1>3. ASSUME NEW j \in Steps
      PROVE  RecordAgrees(j)'
  <2>1. CASE j = k
    BY <2>1
  <2>2. CASE j # k
    <3>1. records'[j] = records[j] /\ provided'[j] = provided[j]
      BY <2>2
    <3>2. RecordAgrees(j)
      BY DEF IInv, StoreInv
    <3>3. QED
      BY <3>1, <3>2 DEF RecordAgrees
  <2>3. QED
    BY <2>1, <2>2
<1>4. ASSUME NEW u \in Tasks
      PROVE  TaskOwns(u)'
  <2>1. CASE u = t
    BY <2>1
  <2>2. CASE u # t
    <3>1. TaskOwns(u) /\ task'[u] = task[u]
      BY <2>2 DEF IInv, StoreInv
    <3>2. CASE task[u].key = k
      BY <2>2, <3>1, <3>2 DEF TaskOwns
    <3>3. CASE task[u].key # k
      <4>1. CASE task[u].pc = "idle"
        BY <3>1, <4>1 DEF TaskOwns
      <4>2. CASE task[u].pc # "idle"
        <5>1. task[u].key \in Steps \ {k}
          BY <3>1, <3>3, <4>2 DEF TaskOwns
        <5>2. records'[task[u].key] = records[task[u].key]
          BY <5>1
        <5>3. QED
          BY <3>1, <5>2 DEF TaskOwns
      <4>3. QED
        BY <4>1, <4>2
    <3>4. QED
      BY <3>2, <3>3
  <2>3. QED
    BY <2>1, <2>2
<1>5. ClaimsApart'
  BY DEF IInv, StoreInv, ClaimsApart
<1>6. QED
  BY <1>1, <1>2, <1>3, <1>4, <1>5, CallsUntouched

\* A claim is won with an epoch nobody holds, or a delivery is skipped.
LEMMA ClaimInv ==
  ASSUME IInv, NEW t \in Tasks, NEW k \in Steps, Claim(t, k)
  PROVE  StoreInv'
<1> USE DEF store, transport
<1>1. /\ queue' = [queue EXCEPT ![k] = queue[k] - 1]
      /\ queue[k] > 0 /\ task[t].pc = "idle"
      /\ UNCHANGED <<call, settlements, provided>>
  BY DEF Claim
<1>2. \A j \in Steps : queue'[j] > 0 => queue[j] > 0
  BY <1>1 DEF IInv, TypeOK
<1>3. CASE records[k].state # "pending"
  <2>1. UNCHANGED <<records, next_epoch, task>>
    BY <1>3 DEF Claim
  <2>2. CallRetained'
    BY <1>2, <2>1 DEF IInv, StoreInv, CallRetained
  <2>3. \A j \in Steps : RecordAgrees(j)'
    BY <1>1, <2>1 DEF IInv, StoreInv, RecordAgrees
  <2>4. ClaimsApart' /\ \A u \in Tasks : TaskOwns(u)'
    BY <2>1 DEF IInv, StoreInv, ClaimsApart, TaskOwns
  <2>5. QED
    BY <1>1, <2>1, <2>2, <2>3, <2>4, CallsUntouched DEF Kept
<1>4. CASE records[k].state = "pending"
  <2> DEFINE e == next_epoch + 1
  <2>1. /\ next_epoch' = e
        /\ records' = [records EXCEPT ![k].state = "claimed", ![k].epoch = e]
        /\ task' = [task EXCEPT ![t] = [IdleTask EXCEPT !.pc = "claimed",
                                         !.key = k, !.epoch = e]]
    BY <1>4 DEF Claim, FreshEpoch
  <2>2. next_epoch \in Nat /\ next_epoch < e
    BY DEF IInv, TypeOK
  <2>3. /\ records'[k] = [records[k] EXCEPT !.state = "claimed", !.epoch = e]
        /\ \A j \in Steps \ {k} : records'[j] = records[j]
        /\ task'[t] = [IdleTask EXCEPT !.pc = "claimed", !.key = k, !.epoch = e]
        /\ \A u \in Tasks \ {t} : task'[u] = task[u]
    BY <2>1 DEF IInv, TypeOK
  <2>4. /\ records'[k].state = "claimed" /\ records'[k].epoch = e
        /\ records'[k].call = records[k].call
        /\ records'[k].frozen = records[k].frozen
        /\ records'[k].terminal = records[k].terminal
        /\ records'[k].provider_call_recorded
             = records[k].provider_call_recorded
    <3>1. records[k] \in StepRecords
      BY DEF IInv, TypeOK
    <3>2. QED
      BY <2>3, <3>1 DEF StepRecords
  <2>5. /\ task'[t].pc = "claimed" /\ task'[t].key = k /\ task'[t].epoch = e
    BY <2>3 DEF IdleTask
  <2>6. \A j \in Steps : Kept(j)
    BY <1>4, <2>3, <2>4 DEF Kept
  <2>7. CallRetained'
    <3>1. ASSUME NEW j \in Steps
          PROVE  /\ records'[j].state \in {"pending", "claimed"} <=> records'[j].call
                 /\ queue'[j] > 0 => records'[j].state # "absent"
      <4>1. /\ records[j].state \in {"pending", "claimed"} <=> records[j].call
            /\ queue[j] > 0 => records[j].state # "absent"
        BY DEF IInv, StoreInv, CallRetained
      <4>2. CASE j = k
        BY <1>4, <2>4, <4>1, <4>2
      <4>3. CASE j # k
        BY <1>2, <2>3, <4>1, <4>3
      <4>4. QED
        BY <4>2, <4>3
    <3>2. QED
      BY <3>1 DEF CallRetained
  <2>8. ASSUME NEW j \in Steps
        PROVE  RecordAgrees(j)'
    <3>1. RecordAgrees(j) /\ records[j].epoch \in Nat
      BY DEF IInv, StoreInv, TypeOK, StepRecords
    <3>2. CASE j = k
      BY <1>1, <1>4, <2>1, <2>2, <2>4, <3>1, <3>2 DEF RecordAgrees, Results
    <3>3. CASE j # k
      <4>1. records'[j] = records[j]
        BY <2>3, <3>3
      <4>2. QED
        <5>1. records'[j].epoch <= next_epoch'
          BY <2>1, <2>2, <3>1, <4>1 DEF RecordAgrees
        <5>2. settlements' = settlements /\ provided' = provided
          BY <1>1
        <5>3. QED
          BY <3>1, <4>1, <5>1, <5>2 DEF RecordAgrees
    <3>4. QED
      BY <3>2, <3>3
  <2>9. ASSUME NEW u \in Tasks
        PROVE  TaskOwns(u)'
    <3>1. CASE u = t
      BY <2>1, <2>2, <2>5, <3>1 DEF TaskOwns
    <3>2. CASE u # t
      <4>1. TaskOwns(u) /\ task'[u] = task[u] /\ task[u].epoch \in Nat
        BY <2>3, <3>2 DEF IInv, StoreInv, TypeOK
      <4>2. task[u].pc # "idle" => task[u].epoch <= next_epoch'
        BY <2>1, <2>2, <4>1 DEF TaskOwns
      <4>3. task[u].pc = "publish" => task[u].key # k /\ task[u].key \in Steps
        BY <1>4, <4>1 DEF TaskOwns
      <4>4. QED
        BY <2>3, <4>1, <4>2, <4>3 DEF TaskOwns
    <3>3. QED
      BY <3>1, <3>2
  <2>10. ASSUME NEW u \in Tasks \ {t}, task'[u].pc # "idle"
         PROVE  task'[u].epoch # e
    <3>1. TaskOwns(u) /\ task'[u] = task[u] /\ task[u].epoch \in Nat
      BY <2>3 DEF IInv, StoreInv, TypeOK
    <3>2. QED
      BY <2>2, <2>10, <3>1 DEF TaskOwns
  <2>11. ClaimsApart'
    <3> SUFFICES ASSUME NEW u \in Tasks, NEW v \in Tasks, u # v,
                        task'[u].pc # "idle", task'[v].pc # "idle"
                 PROVE  task'[u].epoch # task'[v].epoch
      BY DEF ClaimsApart
    <3>1. CASE u = t
      BY <2>5, <2>10, <3>1
    <3>2. CASE v = t
      BY <2>5, <2>10, <3>2
    <3>3. CASE u # t /\ v # t
      BY <2>3, <3>3 DEF IInv, StoreInv, ClaimsApart
    <3>4. QED
      BY <3>1, <3>2, <3>3
  <2>12. QED
    BY <1>1, <2>6, <2>7, <2>8, <2>9, <2>11, CallsUntouched
<1>5. QED
  BY <1>3, <1>4

\* A task whose record is no longer its own ends, and nothing else changes.
LEMMA FinishInv ==
  ASSUME IInv, NEW t \in Tasks, Finish(t),
         UNCHANGED <<records, next_epoch, queue, call, settlements, provided>>
  PROVE  StoreInv'
<1>1. /\ task'[t] = IdleTask
      /\ \A u \in Tasks \ {t} : task'[u] = task[u]
  BY DEF Finish, IInv, TypeOK
<1>2. CallRetained' /\ \A k \in Steps : RecordAgrees(k)'
  BY DEF IInv, StoreInv, CallRetained, RecordAgrees
<1>3. task'[t].pc = "idle"
  BY <1>1 DEF IdleTask
<1>4. \A u \in Tasks : TaskOwns(u)'
  BY <1>1, <1>3 DEF IInv, StoreInv, TaskOwns
<1>5. ClaimsApart'
  BY <1>1, <1>3 DEF IInv, StoreInv, ClaimsApart
<1>6. QED
  BY <1>2, <1>4, <1>5, CallsUntouched DEF Kept

\* A task that holds its claim changes its own record and its own program
\* counter; a record that is not terminal is about to be published by nobody.
LEMMA HolderChanges ==
  ASSUME IInv, NEW t \in Tasks, NEW k \in Steps, k = task[t].key,
         task[t].pc # "idle",
         NEW r \in StepRecords,
         records' = [records EXCEPT ![k] = r],
         records[k].state \in {"claimed", "launched"},
         r.epoch = records[k].epoch, r.frozen = records[k].frozen,
         r.terminal = records[k].terminal,
         r.state \in {"launched", "terminal"}, r.call = FALSE,
         \A j \in Steps \ {k} : provided'[j] = provided[j],
         provided'[k] = IF r.provider_call_recorded THEN 1 ELSE 0,
         UNCHANGED <<next_epoch, queue, call, settlements>>,
         \A u \in Tasks \ {t} : task'[u] = task[u],
         task'[t].pc # "idle", task'[t].key = k,
         task'[t].epoch = task[t].epoch,
         task'[t].pc = "publish" =>
           /\ task'[t].result \in Results /\ r.state = "terminal"
           /\ r.epoch = task[t].epoch
  PROVE  StoreInv'
<1>1. records'[k] = r /\ \A j \in Steps \ {k} : records'[j] = records[j]
  BY DEF IInv, TypeOK
<1>2. RecordAgrees(k) /\ TaskOwns(t) /\ records[k] \in StepRecords
  BY DEF IInv, StoreInv, TypeOK
<1>3. records[k].terminal = "none" /\ k \notin settlements
  BY <1>2 DEF RecordAgrees, StepRecords, Answers, Results
<1>4. RecordAgrees(k)'
  BY <1>1, <1>2, <1>3 DEF RecordAgrees, Results
<1>5. TaskOwns(t)'
  BY <1>1, <1>2, <1>3 DEF TaskOwns
<1>6. Kept(k)
  BY <1>1 DEF Kept
<1>7. \A u \in Tasks : task[u].pc = "publish" => task[u].key # k
  BY DEF IInv, StoreInv, TaskOwns
<1>8. QED
  BY <1>1, <1>4, <1>5, <1>6, <1>7, TaskChanges

\* The steps of a task between its claim and its end.
LEMMA ProceedInv ==
  ASSUME IInv, NEW t \in Tasks, Proceed(t)
  PROVE  StoreInv'
<1> USE DEF store, transport
<1>1. PICK k \in Steps : k = task[t].key /\ task[t].pc # "idle"
  <2>1. task[t].pc # "idle"
    BY DEF Proceed, Launch, NoteProviderCall, Complete, PublishResult
  <2>2. QED
    BY <2>1 DEF IInv, StoreInv, TaskOwns
<1> DEFINE r == records[k]
<1>2. r \in StepRecords /\ RecordAgrees(k) /\ task[t] \in TaskType
  BY <1>1 DEF IInv, StoreInv, TypeOK, TaskType
<1>3. CASE Launch(t)
  <2>1. CASE Holds(t, "claimed") /\ r.call
    <3> DEFINE n == [r EXCEPT !.state = "launched", !.call = FALSE]
    <3>1. records' = [records EXCEPT ![k] = n]
      BY <1>1, <1>3, <2>1 DEF Launch, IInv, TypeOK
    <3>2. task' = [task EXCEPT ![t].pc = "held"]
      BY <1>1, <1>3, <2>1 DEF Launch, Advance
    <3>3. /\ task'[t].pc = "held" /\ task'[t].key = k
          /\ task'[t].epoch = task[t].epoch
          /\ \A u \in Tasks \ {t} : task'[u] = task[u]
      BY <1>1, <3>2 DEF IInv, TypeOK
    <3>4. r.state = "claimed" /\ r.epoch > 0
      BY <1>1, <1>2, <2>1 DEF Holds, StepRecords
    <3>5. n \in StepRecords
      BY <1>2, <3>4 DEF StepRecords, RecordStates
    <3>6. /\ n.state = "launched" /\ n.call = FALSE /\ n.epoch = r.epoch
          /\ n.frozen = r.frozen /\ n.terminal = r.terminal
          /\ n.provider_call_recorded = r.provider_call_recorded
      BY <1>2 DEF StepRecords
    <3>7. provided' = provided /\ UNCHANGED <<next_epoch, queue, call, settlements>>
      BY <1>3 DEF Launch
    <3>8. provided'[k] = IF n.provider_call_recorded THEN 1 ELSE 0
      BY <1>2, <3>6, <3>7 DEF RecordAgrees
    <3> HIDE DEF n
    <3>9. QED
      BY <1>1, <3>1, <3>3, <3>4, <3>5, <3>6, <3>7, <3>8, HolderChanges
  <2>2. CASE ~(Holds(t, "claimed") /\ r.call)
    BY <1>1, <1>3, <2>2, FinishInv DEF Launch
  <2>3. QED
    BY <2>1, <2>2
<1>4. CASE NoteProviderCall(t)
  <2>1. CASE MayCallProvider(t)
    <3> DEFINE n == [r EXCEPT !.provider_call_recorded = TRUE]
    <3>1. records' = [records EXCEPT ![k] = n]
      BY <1>1, <1>4, <2>1 DEF NoteProviderCall
    <3>2. task' = [task EXCEPT ![t].pc = "calling"]
      BY <1>1, <1>4, <2>1 DEF NoteProviderCall, Advance
    <3>3. /\ task'[t].pc = "calling" /\ task'[t].key = k
          /\ task'[t].epoch = task[t].epoch
          /\ \A u \in Tasks \ {t} : task'[u] = task[u]
      BY <1>1, <3>2 DEF IInv, TypeOK
    <3>4. r.state = "launched" /\ ~r.provider_call_recorded
      BY <1>1, <2>1 DEF MayCallProvider, Holds
    <3>5. n \in StepRecords
      BY <1>2 DEF StepRecords
    <3>6. r.call = FALSE
      BY <1>1, <1>2, <3>4 DEF IInv, StoreInv, CallRetained, StepRecords
    <3>7. /\ n.state = "launched" /\ n.call = FALSE /\ n.epoch = r.epoch
          /\ n.frozen = r.frozen /\ n.terminal = r.terminal
          /\ n.provider_call_recorded = TRUE
      BY <1>2, <3>4, <3>6 DEF StepRecords
    <3>8. UNCHANGED <<next_epoch, queue, call, settlements>>
      BY <1>4 DEF NoteProviderCall
    <3>9. /\ provided'[k] = 1
          /\ \A j \in Steps \ {k} : provided'[j] = provided[j]
      <4>1. provided' = [provided EXCEPT ![k] = provided[k] + 1]
        BY <1>1, <1>4, <2>1 DEF NoteProviderCall
      <4>2. provided[k] = 0
        BY <1>2, <3>4 DEF RecordAgrees
      <4>3. QED
        BY <1>1, <4>1, <4>2 DEF IInv, TypeOK
    <3> HIDE DEF n
    <3>10. QED
      BY <1>1, <3>1, <3>3, <3>4, <3>5, <3>7, <3>8, <3>9, HolderChanges,
         ZenonT(30)
  <2>2. CASE ~MayCallProvider(t)
    BY <1>4, <2>2, FinishInv DEF NoteProviderCall
  <2>3. QED
    BY <2>1, <2>2
<1>5. ASSUME NEW result \in Results, Complete(t, result)
      PROVE  StoreInv'
  <2>1. CASE MayComplete(t)
    <3> DEFINE n == [r EXCEPT !.state = "terminal"]
    <3>1. records' = [records EXCEPT ![k] = n]
      BY <1>1, <1>5, <2>1 DEF Complete
    <3>2. task' = [task EXCEPT ![t].pc = "publish", ![t].result = result]
      BY <1>1, <1>5, <2>1 DEF Complete
    <3>3. /\ task'[t].pc = "publish" /\ task'[t].key = k
          /\ task'[t].result = result /\ task'[t].epoch = task[t].epoch
          /\ \A u \in Tasks \ {t} : task'[u] = task[u]
      BY <1>1, <3>2 DEF IInv, TypeOK
    <3>4. r.state = "launched" /\ r.epoch = task[t].epoch /\ r.epoch > 0
      BY <1>1, <1>2, <2>1 DEF MayComplete, Holds, StepRecords
    <3>5. n \in StepRecords
      BY <1>2, <3>4 DEF StepRecords, RecordStates
    <3>6. r.call = FALSE
      BY <1>1, <1>2, <3>4 DEF IInv, StoreInv, CallRetained, StepRecords
    <3>7. /\ n.state = "terminal" /\ n.call = FALSE /\ n.epoch = r.epoch
          /\ n.frozen = r.frozen /\ n.terminal = r.terminal
          /\ n.provider_call_recorded = r.provider_call_recorded
      BY <1>2, <3>6 DEF StepRecords
    <3>8. provided' = provided /\ UNCHANGED <<next_epoch, queue, call, settlements>>
      BY <1>5 DEF Complete
    <3>9. provided'[k] = IF n.provider_call_recorded THEN 1 ELSE 0
      BY <1>2, <3>7, <3>8 DEF RecordAgrees
    <3> HIDE DEF n
    <3>10. QED
      BY <1>1, <1>5, <3>1, <3>3, <3>4, <3>5, <3>7, <3>8, <3>9, HolderChanges,
         ZenonT(30)
  <2>2. CASE ~MayComplete(t)
    BY <1>5, <2>2, FinishInv DEF Complete
  <2>3. QED
    BY <2>1, <2>2
<1>6. CASE PublishResult(t)
  <2>1. /\ records' = [records EXCEPT ![k].terminal = task[t].result]
        /\ task' = [task EXCEPT ![t] = IdleTask]
        /\ UNCHANGED <<next_epoch, queue, call, settlements, provided>>
    BY <1>1, <1>6 DEF PublishResult, Finish
  <2>2. /\ task[t].result \in Results /\ r.state = "terminal"
        /\ r.terminal = "none" /\ r.epoch = task[t].epoch
    BY <1>1, <1>6 DEF PublishResult, IInv, StoreInv, TaskOwns
  <2>3. /\ task'[t].pc = "idle"
        /\ \A u \in Tasks \ {t} : task'[u] = task[u]
    BY <2>1 DEF IInv, TypeOK, IdleTask
  <2>4. /\ records'[k] = [r EXCEPT !.terminal = task[t].result]
        /\ \A j \in Steps \ {k} : records'[j] = records[j]
    BY <1>1, <2>1 DEF IInv, TypeOK
  <2>5. /\ records'[k].state = "terminal" /\ records'[k].epoch = r.epoch
        /\ records'[k].call = r.call /\ records'[k].frozen = r.frozen
        /\ records'[k].provider_call_recorded = r.provider_call_recorded
        /\ records'[k].terminal = task[t].result
    BY <1>2, <2>2, <2>4 DEF StepRecords
  <2>6. RecordAgrees(k)'
    <3>1. k \notin settlements' /\ provided' = provided /\ next_epoch' = next_epoch
      BY <1>2, <2>1, <2>2 DEF RecordAgrees
    <3>2. task[t].result # "lost"
      BY <2>2 DEF Results
    <3>3. QED
      BY <1>2, <2>5, <3>1, <3>2 DEF RecordAgrees
  <2>7. Kept(k) /\ TaskOwns(t)'
    BY <2>2, <2>3, <2>5 DEF Kept, TaskOwns
  <2>8. records'[k].state \in {"pending", "claimed"} <=> records'[k].call
    BY <1>1, <2>2, <2>5 DEF IInv, StoreInv, CallRetained
  <2>9. ASSUME NEW u \in Tasks \ {t}, task[u].pc = "publish", task[u].key = k
        PROVE  FALSE
    <3>1. records[k].epoch = task[u].epoch
      BY <2>9 DEF IInv, StoreInv, TaskOwns
    <3>2. task[u].epoch # task[t].epoch
      BY <1>1, <2>9 DEF IInv, StoreInv, ClaimsApart
    <3>3. QED
      BY <2>2, <3>1, <3>2
  <2>10. UNCHANGED <<next_epoch, queue, call, settlements, provided>>
    BY <2>1
  <2> HIDE DEF r
  <2>11. QED
    BY <1>1, <2>3, <2>4, <2>5, <2>6, <2>7, <2>8, <2>9, <2>10, TaskChanges
<1>7. QED
  BY <1>3, <1>4, <1>5, <1>6 DEF Proceed

(***************************************************************************)
(* The invariant is preserved: the host                                    *)
(***************************************************************************)

\* A worker that goes leaves the store as it is; what its tasks had claimed
\* or launched stays so until it is reconciled.
LEMMA WorkerSteps ==
  ASSUME IInv, UNCHANGED <<records, next_epoch, settlements, provided>>,
         task' = task \/ task' = [t \in Tasks |-> IdleTask],
         \A k \in Steps : queue'[k] > 0 => queue[k] > 0,
         \A c \in Calls :
           /\ call'[c].pc = call[c].pc /\ call'[c].key = call[c].key
           /\ call'[c].invocation = call[c].invocation
           /\ call'[c].reply = call[c].reply
  PROVE  StoreInv'
<1>1. CallRetained'
  BY DEF IInv, StoreInv, CallRetained
<1>2. \A k \in Steps : RecordAgrees(k)'
  BY DEF IInv, StoreInv, RecordAgrees
<1>3. ClaimsApart' /\ \A t \in Tasks : TaskOwns(t)'
  <2>1. CASE task' = task
    BY <2>1 DEF IInv, StoreInv, ClaimsApart, TaskOwns
  <2>2. CASE task' = [t \in Tasks |-> IdleTask]
    BY <2>2 DEF ClaimsApart, TaskOwns, IdleTask
  <2>3. QED
    BY <2>1, <2>2
<1>4. QED
  BY <1>1, <1>2, <1>3, CallsUntouched DEF Kept

\* Reconciliation moves claimed and launched records only, hence none that a
\* task is about to publish.
LEMMA ReconcileInv ==
  ASSUME IInv, ReconcileWorkerLoss
  PROVE  StoreInv'
<1>1. /\ records' = [k \in Steps |-> Fenced(records[k])]
      /\ settlements = {} /\ settlements' = SettlementsOf(records')
      /\ UNCHANGED <<next_epoch, queue, task, call, provided>>
  BY DEF ReconcileWorkerLoss, transport
<1>2. ASSUME NEW k \in Steps
      PROVE  /\ records'[k].state =
                  IF records[k].state = "claimed" THEN "pending"
                  ELSE IF records[k].state = "launched" THEN "uncertain"
                  ELSE records[k].state
             /\ records'[k].call = records[k].call
             /\ records'[k].frozen = records[k].frozen
             /\ records'[k].epoch = records[k].epoch
             /\ records'[k].terminal = records[k].terminal
             /\ records'[k].provider_call_recorded
                  = records[k].provider_call_recorded
  <2>1. records[k] \in StepRecords
    BY DEF IInv, TypeOK
  <2>2. records'[k] = Fenced(records[k])
    BY <1>1
  <2>3. CASE records[k].state = "claimed"
    BY <2>1, <2>2, <2>3 DEF Fenced, StepRecords
  <2>4. CASE records[k].state = "launched"
    BY <2>1, <2>2, <2>4 DEF Fenced, StepRecords
  <2>5. CASE records[k].state \notin {"claimed", "launched"}
    BY <2>2, <2>5 DEF Fenced
  <2>6. QED
    BY <2>3, <2>4, <2>5
<1>3. \A k \in Steps : Kept(k)
  BY <1>2 DEF Kept
<1>4. CallRetained'
  BY <1>1, <1>2 DEF IInv, StoreInv, CallRetained
<1>5. ASSUME NEW k \in Steps
      PROVE  RecordAgrees(k)'
  <2>1. RecordAgrees(k) /\ records[k] \in StepRecords
    BY DEF IInv, StoreInv, TypeOK
  <2>2. k \in settlements' => records[k].state = "launched"
    BY <1>1 DEF SettlementsOf
  <2>3. records[k].state = "launched" => records[k].terminal = "none"
    BY <2>1 DEF RecordAgrees, StepRecords, Answers, Results
  <2>4. next_epoch' = next_epoch /\ provided' = provided
    BY <1>1
  <2>5. CASE records[k].state \in {"claimed", "launched"}
    <3>1. records[k].terminal = "none"
      BY <2>1, <2>5 DEF RecordAgrees, StepRecords, Answers, Results
    <3>2. "none" \notin Results
      BY DEF Results
    <3>3. QED
      BY <1>2, <2>1, <2>2, <2>4, <2>5, <3>1, <3>2 DEF RecordAgrees
  <2>6. CASE records[k].state \notin {"claimed", "launched"}
    BY <1>2, <2>1, <2>2, <2>4, <2>6 DEF RecordAgrees
  <2>7. QED
    BY <2>5, <2>6
<1>6. ASSUME NEW t \in Tasks
      PROVE  TaskOwns(t)'
  <2>1. TaskOwns(t)
    BY DEF IInv, StoreInv
  <2>2. QED
    BY <1>1, <1>2, <2>1 DEF TaskOwns
<1>7. ClaimsApart'
  BY <1>1 DEF IInv, StoreInv, ClaimsApart
<1>8. QED
  BY <1>1, <1>3, <1>4, <1>5, <1>6, <1>7, CallsUntouched

\* A loss is published on a record that is uncertain and unpublished.
LEMMA PublishLossInv ==
  ASSUME IInv, NEW k \in Steps, PublishLoss(k)
  PROVE  StoreInv'
<1>1. /\ k \in settlements /\ settlements' = settlements \ {k}
      /\ records' = [records EXCEPT ![k].terminal = "lost"]
      /\ UNCHANGED <<next_epoch, queue, task, call, provided>>
  BY DEF PublishLoss, transport
<1>2. RecordAgrees(k) /\ records[k].state = "uncertain"
      /\ records[k] \in StepRecords
  BY <1>1 DEF IInv, StoreInv, RecordAgrees, TypeOK
<1>3. /\ records'[k].state = "uncertain"
      /\ records'[k].call = records[k].call
      /\ records'[k].frozen = records[k].frozen
      /\ records'[k].epoch = records[k].epoch
      /\ records'[k].terminal = "lost"
      /\ records'[k].provider_call_recorded
           = records[k].provider_call_recorded
      /\ \A j \in Steps \ {k} : records'[j] = records[j]
  <2>1. records'[k] = [records[k] EXCEPT !.terminal = "lost"]
        /\ \A j \in Steps \ {k} : records'[j] = records[j]
    BY <1>1 DEF IInv, TypeOK
  <2>2. QED
    BY <1>2, <2>1 DEF StepRecords
<1>4. \A j \in Steps : Kept(j)
  BY <1>2, <1>3 DEF Kept
<1>5. CallRetained'
  BY <1>1, <1>2, <1>3 DEF IInv, StoreInv, CallRetained
<1>6. ASSUME NEW j \in Steps
      PROVE  RecordAgrees(j)'
  <2>1. RecordAgrees(j) /\ "lost" \notin Results
    BY DEF IInv, StoreInv, Results
  <2>2. CASE j = k
    BY <1>1, <1>2, <1>3, <2>1, <2>2 DEF RecordAgrees
  <2>3. CASE j # k
    <3>1. records'[j] = records[j] /\ (j \in settlements' <=> j \in settlements)
      BY <1>1, <1>3, <2>3
    <3>2. QED
      BY <1>1, <2>1, <3>1 DEF RecordAgrees
  <2>4. QED
    BY <2>2, <2>3
<1>7. ASSUME NEW t \in Tasks
      PROVE  TaskOwns(t)'
  <2>1. TaskOwns(t)
    BY DEF IInv, StoreInv
  <2>2. QED
    BY <1>1, <1>2, <1>3, <2>1 DEF TaskOwns
<1>8. ClaimsApart'
  BY <1>1 DEF IInv, StoreInv, ClaimsApart
<1>9. QED
  BY <1>1, <1>4, <1>5, <1>6, <1>7, <1>8, CallsUntouched

\* The steps of the host.
LEMMA HostInv ==
  ASSUME IInv, Host
  PROVE  StoreInv'
<1> USE DEF store, transport
<1>1. CASE StartWorker
  BY <1>1, WorkerSteps DEF StartWorker
<1>2. CASE StopWorker
  BY <1>2, WorkerSteps DEF StopWorker
<1>3. ASSUME WorkerGone
      PROVE  /\ \A k \in Steps : queue'[k] > 0 => queue[k] > 0
             /\ \A c \in Calls :
                  /\ call'[c].pc = call[c].pc /\ call'[c].key = call[c].key
                  /\ call'[c].invocation = call[c].invocation
                  /\ call'[c].reply = call[c].reply
  BY <1>3 DEF WorkerGone, IInv, TypeOK
<1>4. CASE WorkerJoined
  BY <1>3, <1>4, WorkerSteps DEF WorkerJoined
<1>5. CASE AbortWorker
  BY <1>3, <1>5, WorkerSteps DEF AbortWorker
<1>6. CASE ReconcileWorkerLoss
  BY <1>6, ReconcileInv
<1>7. ASSUME NEW k \in Steps, PublishLoss(k)
      PROVE  StoreInv'
  BY <1>7, PublishLossInv
<1>8. QED
  BY <1>1, <1>2, <1>4, <1>5, <1>6, <1>7 DEF Host

\* Every step of the host, or a step that changes nothing.
LEMMA NextIInv == IInv /\ [Next]_vars => IInv'
<1> SUFFICES ASSUME IInv, [Next]_vars
             PROVE  IInv'
  OBVIOUS
<1>1. ASSUME NEW c \in Calls, Dispatch(c)
      PROVE  IInv'
  BY <1>1, DispatchTyped, DispatchInv DEF IInv
<1>2. ASSUME NEW t \in Tasks, Proceed(t) \/ \E k \in Steps : Claim(t, k)
      PROVE  IInv'
  BY <1>2, TaskTyped, ProceedInv, ClaimInv DEF IInv
<1>3. CASE Host
  BY <1>3, HostTyped, HostInv DEF IInv
<1>4. CASE UNCHANGED vars
  <2>1. TypeOK'
    BY <1>4 DEF vars, IInv, TypeOK
  <2>2. CallRetained' /\ \A k \in Steps : RecordAgrees(k)'
    BY <1>4 DEF vars, IInv, StoreInv, CallRetained, RecordAgrees
  <2>3. ClaimsApart' /\ \A t \in Tasks : TaskOwns(t)'
    BY <1>4 DEF vars, IInv, StoreInv, ClaimsApart, TaskOwns
  <2>4. StoreInv'
    BY <1>4, <2>2, <2>3, CallsUntouched DEF vars, Kept
  <2>5. QED
    BY <2>1, <2>4 DEF IInv
<1>5. QED
  BY <1>1, <1>2, <1>3, <1>4 DEF Next

(***************************************************************************)
(* The theorems                                                            *)
(***************************************************************************)

\* The inductive invariant holds in every reachable state of the host.
THEOREM Invariance == Spec => []IInv
BY InitIInv, NextIInv, PTL DEF Spec

\* `launch` and the deliveries never meet a record that is missing or that
\* has lost its call, through any claims, losses and replays.
THEOREM CallsAreRetained == Spec => []CallRetained
<1>1. IInv => CallRetained
  BY DEF IInv, StoreInv
<1>2. QED
  BY <1>1, Invariance, PTL

\* Every dispatcher call that was answered was told what the record of its
\* own invocation says, and the record still says it.
THEOREM RepliesAgree == Spec => []RepliesMatchRecord
<1>1. IInv => RepliesMatchRecord
  BY DEF IInv, StoreInv
<1>2. QED
  BY <1>1, Invariance, PTL

\* Claims of the tasks that are alive differ, although the store compares
\* epochs only, and an epoch is never handed out twice.
THEOREM ClaimsDistinct == Spec => []ClaimsApart
<1>1. IInv => ClaimsApart
  BY DEF IInv, StoreInv
<1>2. QED
  BY <1>1, Invariance, PTL

\* Only `note_provider_call` of a launched record without a call counts a
\* provider call.
LEMMA ProvidedStep ==
  ASSUME IInv, [Next]_vars, NEW k \in Steps, provided'[k] # provided[k]
  PROVE  records[k].state # "uncertain" /\ provided[k] = 0
<1> USE DEF store, transport
<1>1. PICK t \in Tasks : NoteProviderCall(t)
  BY DEF Next, vars, Dispatch, Register, Send, ObserveTerminal, DropCall,
         Proceed, Launch, Complete, PublishResult, Claim, Host, StartWorker,
         StopWorker, WorkerJoined, AbortWorker, ReconcileWorkerLoss,
         PublishLoss
<1>2. /\ MayCallProvider(t) /\ task[t].pc # "idle"
      /\ provided' = [provided EXCEPT ![task[t].key] = @ + 1]
  BY <1>1 DEF NoteProviderCall
<1>3. task[t].key = k
  BY <1>2 DEF IInv, TypeOK
<1>4. /\ records[k].state = "launched"
      /\ ~records[k].provider_call_recorded
  BY <1>2, <1>3 DEF MayCallProvider, Holds
<1>5. RecordAgrees(k)
  BY DEF IInv, StoreInv
<1>6. QED
  BY <1>4, <1>5 DEF RecordAgrees

\* A provider runs at most once for a step, whatever workers are lost and
\* however often the reference is delivered, and never after the step was
\* declared uncertain.
THEOREM ProviderOnce == Spec => NoCallAfterLoss
<1>1. IInv /\ [Next]_vars =>
        [\A k \in Steps : provided'[k] # provided[k] =>
           records[k].state # "uncertain" /\ provided[k] = 0]_vars
  BY ProvidedStep
<1>2. QED
  BY <1>1, Invariance, PTL DEF Spec, NoCallAfterLoss

\* What a record published is not replaced by any step.
LEMMA PublishedStep ==
  ASSUME IInv, [Next]_vars, NEW k \in Steps, records[k].terminal # "none"
  PROVE  records'[k].terminal = records[k].terminal
<1> USE DEF store, transport
<1>1. /\ RecordAgrees(k) /\ records[k] \in StepRecords
      /\ records \in [Steps -> StepRecords]
  BY DEF IInv, StoreInv, TypeOK
<1>2. records[k].state \in {"terminal", "uncertain"}
  BY <1>1 DEF RecordAgrees, StepRecords, Answers
<1>3. ASSUME NEW c \in Calls, Dispatch(c)
      PROVE  records'[k].terminal = records[k].terminal
  <2>1. records' = records \/
          \E j \in Steps, i \in Invocations[c] :
            /\ records[j].state = "absent"
            /\ records' = [records EXCEPT ![j] = PendingRecord(i)]
    BY <1>3 DEF Dispatch, Register, Send, ObserveTerminal, DropCall
  <2>2. QED
    BY <1>1, <1>2, <2>1
<1>4. ASSUME NEW t \in Tasks, NEW j \in Steps, Claim(t, j)
      PROVE  records'[k].terminal = records[k].terminal
  <2>1. records' = records \/
          /\ records[j].state = "pending"
          /\ records' = [records EXCEPT ![j].state = "claimed",
                                        ![j].epoch = FreshEpoch(j)]
    BY <1>4 DEF Claim
  <2>2. QED
    BY <1>1, <1>2, <2>1
<1>5. ASSUME NEW t \in Tasks, Proceed(t)
      PROVE  records'[k].terminal = records[k].terminal
  <2>1. task[t].key \in Steps
    <3>1. task[t].pc # "idle"
      BY <1>5 DEF Proceed, Launch, NoteProviderCall, Complete, PublishResult
    <3>2. QED
      BY <3>1 DEF IInv, StoreInv, TaskOwns
  <2>2. CASE Launch(t)
    BY <1>1, <2>1, <2>2 DEF Launch, StepRecords
  <2>3. CASE NoteProviderCall(t)
    BY <1>1, <2>1, <2>3 DEF NoteProviderCall, StepRecords
  <2>4. CASE \E result \in Results : Complete(t, result)
    BY <1>1, <2>1, <2>4 DEF Complete, StepRecords
  <2>5. CASE PublishResult(t)
    <3>1. task[t].pc = "publish"
          /\ records' = [records EXCEPT ![task[t].key].terminal = task[t].result]
      BY <2>5 DEF PublishResult
    <3>2. records[task[t].key].terminal = "none"
      BY <3>1 DEF IInv, StoreInv, TaskOwns
    <3>3. task[t].key # k
      BY <3>2
    <3>4. QED
      BY <1>1, <2>1, <3>1, <3>3
  <2>6. QED
    BY <1>5, <2>2, <2>3, <2>4, <2>5 DEF Proceed
<1>6. CASE Host
  <2>1. CASE ReconcileWorkerLoss
    <3>1. records'[k] = Fenced(records[k])
      BY <2>1 DEF ReconcileWorkerLoss
    <3>2. QED
      BY <1>2, <3>1 DEF Fenced
  <2>2. ASSUME NEW j \in Steps, PublishLoss(j)
        PROVE  records'[k].terminal = records[k].terminal
    <3>1. j \in settlements /\ records' = [records EXCEPT ![j].terminal = "lost"]
      BY <2>2 DEF PublishLoss
    <3>2. j # k
      BY <1>1, <3>1 DEF RecordAgrees
    <3>3. QED
      BY <1>1, <3>1, <3>2
  <2>3. CASE StartWorker \/ StopWorker \/ WorkerJoined \/ AbortWorker
    BY <2>3 DEF StartWorker, StopWorker, WorkerJoined, AbortWorker
  <2>4. QED
    BY <1>6, <2>1, <2>2, <2>3 DEF Host
<1>7. CASE UNCHANGED vars
  BY <1>7 DEF vars
<1>8. QED
  BY <1>3, <1>4, <1>5, <1>6, <1>7 DEF Next

\* All who wait for a step, whenever they begin to, are told the same: the
\* value on a record's watch channel is set once.
THEOREM WatchValueIsFinal == Spec => PublishedOnce
<1>1. IInv /\ [Next]_vars =>
        [\A k \in Steps : records[k].terminal # "none" =>
           records'[k].terminal = records[k].terminal]_vars
  BY PublishedStep
<1>2. QED
  BY <1>1, Invariance, PTL DEF Spec, PublishedOnce

=============================================================================
