------------------------ MODULE DurableStoreProofs ------------------------
(***************************************************************************)
(* Safety of the durable host for every finite set of steps and every set  *)
(* of processes. While a process opens the log only when no other one is   *)
(* up, IInv of module DurableStore is inductive, through any crash, any    *)
(* append that fails before or after its line was written, and any write   *)
(* that stops within a line, until a record is written behind such a line. *)
(* DurableTorn shows what becomes of a record behind it. Commits and calls *)
(* are those of the careful steps, of which old claims are not executed.   *)
(***************************************************************************)
EXTENDS DurableStore, TLAPS

USE StepsAssumption, BoundsAssumption, ModesAssumption

(***************************************************************************)
(* Types                                                                   *)
(***************************************************************************)

\* The jobs by their names.
LEMMA JobNames ==
  ASSUME NEW j \in Jobs
  PROVE  /\ j = Down <=> j.what = "down"
         /\ j = Idle <=> j.what = "idle"
         /\ j.what = "running" => j.key \in Steps /\ j.epoch \in Epochs
         /\ j.what = "recovering" =>
              j.todo \in SUBSET Steps /\ j.refenced \in SUBSET Steps
<1>1. CASE j \in {Down, Idle}
  BY <1>1 DEF Down, Idle, Job
<1>2. CASE j \in {Running(k, e) : k \in Steps, e \in Epochs}
  BY <1>2 DEF Down, Idle, Running, Job
<1>3. CASE j \in {Recovering(t, r) : t \in SUBSET Steps, r \in SUBSET Steps}
  <2>1. PICK t \in SUBSET Steps, r \in SUBSET Steps : j = Recovering(t, r)
    BY <1>3
  <2>2. j.what = "recovering" /\ j.todo = t /\ j.refenced = r
    BY <2>1 DEF Recovering, Job
  <2>3. Down.what = "down" /\ Idle.what = "idle"
    BY DEF Down, Idle, Job
  <2>4. QED
    BY <2>2, <2>3
<1>4. QED
  BY <1>1, <1>2, <1>3 DEF Jobs

\* The epochs of a step view.
LEMMA ViewEpochs ==
  ASSUME NEW v \in StepViews
  PROVE  /\ v.epoch \in Epochs /\ v.epoch \in Nat
         /\ v.highest \in Epochs /\ v.highest \in Nat
<1>1. v.epoch \in Epochs /\ v.highest \in Epochs
  BY DEF StepViews
<1>2. QED
  BY <1>1 DEF Epochs

\* A record leaves a step view a step view, whatever it meets.
LEMMA FoldType ==
  ASSUME NEW v \in StepViews, NEW rec \in Records
  PROVE  Folded(v, rec) \in StepViews
<1>1. /\ v \in [state : States, epoch : Epochs, highest : Epochs,
                answer : Answers]
      /\ v.state = "settled" <=> v.answer # "none"
      /\ rec.epoch \in Epochs
      /\ rec.kind \in Kinds
  BY DEF StepViews, Records
<1>2. CASE rec.kind = "frozen"
  BY <1>1, <1>2 DEF Folded, StepViews, States
<1>3. CASE rec.kind = "claimed"
  BY <1>1, <1>3 DEF Folded, Advanced, FencedOut, Terminal, Claimed, StepViews,
                    States
<1>4. CASE rec.kind = "launched"
  BY <1>1, <1>4 DEF Folded, Advanced, FencedOut, Terminal, StepViews, States
<1>5. CASE rec.kind = "settled"
  <2>1. rec.value \in Answers \ {"none"}
    BY <1>5 DEF Records
  <2>2. QED
    BY <1>1, <1>5, <2>1 DEF Folded, Advanced, FencedOut, Terminal, StepViews,
                            States
<1>6. CASE rec.kind = "uncertain"
  BY <1>1, <1>6 DEF Folded, Advanced, MarkedUncertain, Terminal, StepViews,
                    States
<1>7. CASE rec.kind = "reconciled"
  <2>1. rec.value \in Decisions
    BY <1>7 DEF Records
  <2>2. QED
    BY <1>1, <1>7, <2>1 DEF Folded, Advanced, Resolved, Decisions, StepViews,
                            States, Answers
<1>8. QED
  BY <1>1, <1>2, <1>3, <1>4, <1>5, <1>6, <1>7 DEF Kinds

\* What a record about a step does to a fold.
LEMMA ApplyStep ==
  ASSUME NEW f \in Folds, NEW rec \in Records
  PROVE  /\ Apply(f, rec) \in Folds
         /\ Apply(f, rec).cancelled = f.cancelled
         /\ Apply(f, rec).step[rec.key] = Folded(f.step[rec.key], rec)
         /\ \A j \in Steps : j # rec.key => Apply(f, rec).step[j] = f.step[j]
<1> DEFINE x == Folded(f.step[rec.key], rec)
<1>1. /\ rec.key \in Steps /\ rec.kind # "cancel"
      /\ f.step \in [Steps -> StepViews] /\ f.cancelled \in BOOLEAN
  BY DEF Records, Kinds, Folds
<1>2. x \in StepViews
  BY <1>1, FoldType
<1>3. Apply(f, rec) = [f EXCEPT !.step = [f.step EXCEPT ![rec.key] = x]]
  BY <1>1 DEF Apply
<1> HIDE DEF x
<1>4. QED
  BY <1>1, <1>2, <1>3 DEF Folds, x

\* What a cancellation does to a fold.
LEMMA ApplyCancel ==
  ASSUME NEW f \in Folds
  PROVE  /\ Apply(f, CancelRecord) \in Folds
         /\ Apply(f, CancelRecord).cancelled
         /\ Apply(f, CancelRecord).step = f.step
BY DEF Apply, CancelRecord, Rec, Folds

\* A record is told from a tail that is not one.
LEMMA NotTails ==
  ASSUME NEW rec \in Records \cup {CancelRecord}
  PROVE  rec \notin {Clean, Garbage}
BY DEF Records, Kinds, CancelRecord, Clean, Garbage, Rec

\* A restart reads a fold.
LEMMA ReplayType ==
  ASSUME disk \in Folds,
         tail \in {Clean, Garbage, CancelRecord} \cup Records
  PROVE  Replay \in Folds
BY ApplyStep, ApplyCancel DEF Replay

\* An append keeps the types, whatever it meets.
LEMMA AppendType ==
  ASSUME TypeOK, NEW p \in Processes, NEW rec \in Records \cup {CancelRecord},
         NEW outcome \in WriteOutcomes, Append(p, rec, outcome)
  PROVE  /\ disk' \in Folds /\ view' \in [Processes -> Folds]
         /\ tail' \in {Clean, Garbage, CancelRecord} \cup Records
         /\ spoiled' \in BOOLEAN
<1>1. /\ disk \in Folds /\ view \in [Processes -> Folds]
      /\ tail \in {Clean, Garbage, CancelRecord} \cup Records
      /\ spoiled \in BOOLEAN
  BY DEF TypeOK
<1>2. Apply(disk, rec) \in Folds /\ Apply(view[p], rec) \in Folds
  BY <1>1, ApplyStep, ApplyCancel
<1>3. outcome \in {"ok", "full", "nothing", "partial", "unterminated"}
  BY DEF WriteOutcomes
<1>4. QED
  BY <1>1, <1>2, <1>3 DEF Append, Written

\* Every action of a process keeps the types, and leaves the other processes
\* alone.
LEMMA ProcessType ==
  ASSUME TypeOK, NEW p \in Processes, Process(p)
  PROVE  /\ TypeOK'
         /\ \A q \in Processes \ {p} :
              job'[q] = job[q] /\ view'[q] = view[q] /\ claims'[q] = claims[q]
         /\ spoiled => spoiled'
<1> DEFINE Others == \A q \in Processes \ {p} :
             job'[q] = job[q] /\ view'[q] = view[q] /\ claims'[q] = claims[q]
           Typed == TypeOK' /\ Others /\ (spoiled => spoiled')
           LogTyped == /\ disk' \in Folds /\ view' \in [Processes -> Folds]
                       /\ tail' \in {Clean, Garbage, CancelRecord} \cup Records
                       /\ spoiled' \in BOOLEAN /\ (spoiled => spoiled')
                       /\ \A q \in Processes \ {p} : view'[q] = view[q]
<1>1. /\ disk \in Folds /\ view \in [Processes -> Folds]
      /\ tail \in {Clean, Garbage, CancelRecord} \cup Records
      /\ job \in [Processes -> Jobs] /\ claims \in [Processes -> SUBSET Claims]
      /\ expired \subseteq Steps
      /\ calls \in [Steps -> Nat] /\ cleared \in [Steps -> Nat]
      /\ granted \in [Steps -> Epochs]
      /\ stopped \in BOOLEAN /\ spoiled \in BOOLEAN
  BY DEF TypeOK
<1>2. /\ Down \in Jobs /\ Idle \in Jobs
      /\ \A k \in Steps, e \in Epochs : Running(k, e) \in Jobs
      /\ \A t \in SUBSET Steps, r \in SUBSET Steps : Recovering(t, r) \in Jobs
  BY DEF Jobs
<1>3. ASSUME NEW rec \in Records \cup {CancelRecord},
             NEW outcome \in WriteOutcomes, Append(p, rec, outcome)
      PROVE  LogTyped
  <2>1. /\ \A q \in Processes \ {p} : view'[q] = view[q]
        /\ spoiled => spoiled'
    BY <1>1, <1>3 DEF Append, Written
  <2>2. QED
    BY <1>3, <2>1, AppendType
<1>4. \A k \in Steps : view[p].step[k] \in StepViews
  BY <1>1 DEF Folds
<1>5. CASE Open(p)
  <2>1. Replay \in Folds
    BY <1>1, ReplayType
  <2>2. QED
    BY <1>1, <1>2, <1>5, <2>1 DEF Open, log, history, TypeOK
<1>6. CASE Crash(p)
  <2>1. Empty \in Folds
    BY DEF Empty, Absent, Folds, StepViews, States, Answers, Epochs
  <2>2. QED
    BY <1>1, <1>2, <1>6, <2>1 DEF Crash, log, history, TypeOK
<1>7. CASE Abandon(p)
  BY <1>1, <1>2, <1>7 DEF Abandon, log, history, TypeOK
<1>8. CASE Recover(p)
  <2> DEFINE lost == {k \in Steps :
                        view[p].step[k].state \in {"claimed", "launched"}}
  <2>1. Recovering(lost, {}) \in Jobs
    BY <1>2
  <2>2. /\ job' = [job EXCEPT ![p] = Recovering(lost, {})]
        /\ UNCHANGED <<disk, tail, spoiled, view, claims, expired, calls,
                       cleared, granted, stopped>>
    BY <1>8 DEF Recover, log, history
  <2> HIDE DEF lost
  <2>3. QED
    BY <1>1, <2>1, <2>2 DEF TypeOK
<1>9. ASSUME NEW outcome \in WriteOutcomes, RequestCancel(p, outcome)
      PROVE  Typed
  <2>1. LogTyped
    BY <1>3, <1>9 DEF RequestCancel
  <2>2. QED
    BY <1>1, <1>9, <2>1 DEF RequestCancel, TypeOK
<1>10. ASSUME NEW outcome \in WriteOutcomes, NEW c \in claims[p],
              Launch(p, c, outcome)
       PROVE  Typed
  <2>1. c.key \in Steps /\ c.epoch \in Epochs
    BY <1>1 DEF Claims
  <2>2. Rec("launched", c.key, c.epoch, "none") \in Records
    BY <2>1 DEF Rec, Records, Kinds, Answers
  <2>3. LogTyped
    BY <1>3, <1>10, <2>2 DEF Launch
  <2>4. /\ job' \in [Processes -> Jobs] /\ claims' \in [Processes -> SUBSET Claims]
        /\ calls' \in [Steps -> Nat]
        /\ \A q \in Processes \ {p} : job'[q] = job[q] /\ claims'[q] = claims[q]
    <3>1. CASE outcome = "ok"
      <4>1. /\ job' = [job EXCEPT ![p] = Running(c.key, c.epoch)]
            /\ claims' = [claims EXCEPT ![p] = claims[p] \ {c}]
            /\ calls' = [calls EXCEPT ![c.key] = calls[c.key] + 1]
        BY <1>10, <3>1 DEF Launch
      <4>2. Running(c.key, c.epoch) \in Jobs
        BY <1>2, <2>1
      <4>3. calls' \in [Steps -> Nat]
        <5>1. calls[c.key] \in Nat
          BY <1>1, <2>1
        <5>2. calls[c.key] + 1 \in Nat
          BY <5>1
        <5>3. QED
          BY <1>1, <4>1, <5>2
      <4>4. QED
        BY <1>1, <4>1, <4>2, <4>3
    <3>2. CASE outcome # "ok"
      BY <1>1, <1>10, <3>2 DEF Launch
    <3>3. QED
      BY <3>1, <3>2
  <2>5. QED
    BY <1>1, <1>10, <2>3, <2>4 DEF Launch, TypeOK
<1>11. ASSUME NEW outcome \in WriteOutcomes, NEW a \in {"succeeded", "failed"},
              Settle(p, a, outcome)
       PROVE  Typed
  <2>1. job[p].key \in Steps /\ job[p].epoch \in Epochs
    BY <1>1, <1>11, JobNames DEF Settle
  <2>2. Rec("settled", job[p].key, job[p].epoch, a) \in Records
    BY <2>1 DEF Rec, Records, Kinds, Answers
  <2>3. LogTyped
    BY <1>3, <1>11, <2>2 DEF Settle
  <2>4. QED
    BY <1>1, <1>2, <1>11, <2>3 DEF Settle, history, TypeOK
<1>12. ASSUME NEW outcome \in WriteOutcomes, RecoverNext(p, outcome)
       PROVE  Typed
  <2>1. job[p].todo \in SUBSET Steps /\ job[p].refenced \in SUBSET Steps
    BY <1>1, <1>12, JobNames DEF RecoverNext
  <2>2. PICK k \in job[p].todo :
          LET rec == RecoveryOf(view[p].step[k], k)
              rest == job[p].todo \ {k}
              refenced == job[p].refenced
                            \cup (IF rec.kind = "claimed" THEN {k} ELSE {})
              done == outcome = "ok" /\ rest = {}
          IN /\ rec.epoch <= MaxEpoch
             /\ Append(p, rec, outcome)
             /\ job' = [job EXCEPT ![p] =
                          IF outcome = "ok" /\ rest # {}
                            THEN Recovering(rest, refenced) ELSE Idle]
             /\ claims' = [claims EXCEPT ![p] =
                  CASE outcome # "ok" -> LeftAfterFailure(p, k)
                    [] done -> @ \cup ClaimsOf(view'[p], refenced)
                    [] OTHER -> @]
             /\ granted' = [j \in Steps |->
                  IF done /\ j \in refenced THEN view'[p].step[j].highest
                                            ELSE granted[j]]
    BY <1>12 DEF RecoverNext
  <2> DEFINE rec == RecoveryOf(view[p].step[k], k)
             rest == job[p].todo \ {k}
             refenced == job[p].refenced
                           \cup (IF rec.kind = "claimed" THEN {k} ELSE {})
             done == outcome = "ok" /\ rest = {}
  <2>3. rec \in Records
    <3>1. k \in Steps /\ view[p].step[k].epoch \in Nat
          /\ view[p].step[k].epoch \in Epochs
      BY <1>4, <2>1, ViewEpochs
    <3>2. rec.epoch \in Epochs
      BY <2>2, <3>1 DEF RecoveryOf, Rec, Epochs
    <3>3. QED
      BY <3>1, <3>2 DEF RecoveryOf, Rec, Records, Kinds, Answers
  <2>4. LogTyped
    BY <1>3, <2>2, <2>3
  <2>5. rest \in SUBSET Steps /\ refenced \in SUBSET Steps
    BY <2>1
  <2>6. \A j \in Steps : view'[p].step[j].highest \in Epochs
    BY <2>4 DEF Folds, StepViews
  <2>7. ClaimsOf(view'[p], refenced) \in SUBSET Claims
    <3>1. \A j \in Steps : Claim(j, view'[p].step[j].highest) \in Claims
      BY <2>6 DEF Claims, Claim
    <3>2. QED
      BY <2>5, <3>1 DEF ClaimsOf
  <2>8. LeftAfterFailure(p, k) \in SUBSET Claims
    BY <1>1 DEF LeftAfterFailure
  <2> HIDE DEF rec, rest, refenced, done
  <2>9. /\ job' \in [Processes -> Jobs]
        /\ \A q \in Processes \ {p} : job'[q] = job[q]
    <3>1. job' = [job EXCEPT ![p] = IF outcome = "ok" /\ rest # {}
                                      THEN Recovering(rest, refenced) ELSE Idle]
      BY <2>2 DEF rec, rest, refenced, done
    <3>2. Recovering(rest, refenced) \in Jobs
      BY <1>2, <2>5
    <3>3. QED
      BY <1>1, <1>2, <3>1, <3>2
  <2>10. /\ claims' \in [Processes -> SUBSET Claims]
         /\ \A q \in Processes \ {p} : claims'[q] = claims[q]
    <3>1. claims' = [claims EXCEPT ![p] =
                  CASE outcome # "ok" -> LeftAfterFailure(p, k)
                    [] done -> claims[p] \cup ClaimsOf(view'[p], refenced)
                    [] OTHER -> claims[p]]
      BY <2>2 DEF rec, rest, refenced, done
    <3> DEFINE new == CASE outcome # "ok" -> LeftAfterFailure(p, k)
                        [] done -> claims[p] \cup ClaimsOf(view'[p], refenced)
                        [] OTHER -> claims[p]
    <3>2. new \in SUBSET Claims
      <4>1. CASE outcome # "ok"
        BY <2>8, <4>1 DEF done
      <4>2. CASE outcome = "ok" /\ done
        BY <1>1, <2>7, <4>2
      <4>3. CASE outcome = "ok" /\ ~done
        BY <1>1, <4>3
      <4>4. QED
        BY <4>1, <4>2, <4>3
    <3>3. claims' = [claims EXCEPT ![p] = new]
      BY <3>1
    <3> HIDE DEF new
    <3>4. QED
      BY <1>1, <3>2, <3>3
  <2>11. granted' \in [Steps -> Epochs]
    <3>1. granted' = [j \in Steps |->
                  IF done /\ j \in refenced THEN view'[p].step[j].highest
                                            ELSE granted[j]]
      BY <2>2 DEF rec, rest, refenced, done
    <3>2. QED
      BY <1>1, <2>6, <3>1
  <2>12. QED
    BY <1>1, <1>12, <2>4, <2>9, <2>10, <2>11 DEF RecoverNext, TypeOK
<1>13. ASSUME NEW outcome \in WriteOutcomes, NEW k \in Steps,
              Freeze(p, k, outcome)
       PROVE  Typed
  <2>1. Rec("frozen", k, 0, "none") \in Records
    BY DEF Rec, Records, Kinds, Answers, Epochs
  <2>2. LogTyped
    BY <1>3, <1>13, <2>1 DEF Freeze
  <2>3. QED
    BY <1>1, <1>13, <2>2 DEF Freeze, history, TypeOK
<1>14. ASSUME NEW outcome \in WriteOutcomes, NEW k \in Steps,
              Admit(p, k, outcome)
       PROVE  Typed
  <2> DEFINE e == NextEpoch(p, k)
  <2>1. e \in Epochs
    <3>1. e = view[p].step[k].highest + 1 /\ e <= MaxEpoch
      BY <1>14 DEF Admit, NextEpoch
    <3>2. view[p].step[k].highest \in Nat
      BY <1>4, ViewEpochs
    <3>3. QED
      BY <3>1, <3>2 DEF Epochs
  <2>2. Rec("claimed", k, e, "none") \in Records
    BY <2>1 DEF Rec, Records, Kinds, Answers
  <2>3. LogTyped
    BY <1>3, <1>14, <2>2 DEF Admit
  <2>4. LeftAfterFailure(p, k) \in SUBSET Claims /\ Claim(k, e) \in Claims
    BY <1>1, <2>1 DEF LeftAfterFailure, Claim, Claims
  <2>5. /\ claims' \in [Processes -> SUBSET Claims]
        /\ granted' \in [Steps -> Epochs]
        /\ \A q \in Processes \ {p} : claims'[q] = claims[q]
    <3> HIDE DEF e
    <3>1. IF outcome = "ok"
            THEN /\ claims' = [claims EXCEPT ![p] = @ \cup {Claim(k, e)}]
                 /\ granted' = [granted EXCEPT ![k] = e]
            ELSE /\ claims' = [claims EXCEPT ![p] = LeftAfterFailure(p, k)]
                 /\ UNCHANGED granted
      BY <1>14 DEF Admit, e
    <3>2. QED
      BY <1>1, <2>1, <2>4, <3>1
  <2>6. QED
    BY <1>1, <1>14, <2>3, <2>5 DEF Admit, TypeOK
<1>15. ASSUME NEW outcome \in WriteOutcomes, NEW k \in Steps,
              NEW d \in Decisions, Reconcile(p, k, d, outcome)
       PROVE  Typed
  <2>1. Rec("reconciled", k, 0, d) \in Records
    BY DEF Rec, Records, Kinds, Decisions, Epochs
  <2>2. LogTyped
    BY <1>3, <1>15, <2>1 DEF Reconcile
  <2>3. cleared' \in [Steps -> Nat]
    BY <1>1, <1>15 DEF Reconcile
  <2>4. QED
    BY <1>1, <1>15, <2>2, <2>3 DEF Reconcile, TypeOK
<1> HIDE DEF Typed
<1>16. QED
  <2>1. Typed
    <3>1. Open(p) \/ Crash(p) \/ Abandon(p) \/ Recover(p) => Typed
      BY <1>5, <1>6, <1>7, <1>8 DEF Typed
    <3>2. QED
      BY <3>1, <1>9, <1>10, <1>11, <1>12, <1>13, <1>14, <1>15 DEF Process
  <2>2. QED
    BY <2>1 DEF Typed

(***************************************************************************)
(* Appending                                                               *)
(***************************************************************************)

\* Until the log is spoiled, a restart reads what it read before and the
\* record, unless nothing or only a part of the line was written, and only an
\* append that returned is in memory.
LEMMA AppendReads ==
  ASSUME TypeOK, NEW p \in Processes, NEW rec \in Records \cup {CancelRecord},
         NEW outcome \in WriteOutcomes, Append(p, rec, outcome), ~spoiled'
  PROVE  /\ ~spoiled
         /\ Replay' = IF outcome \in {"nothing", "partial"} THEN Replay
                      ELSE Apply(Replay, rec)
         /\ view' = IF outcome = "ok"
                    THEN [view EXCEPT ![p] = Apply(view[p], rec)] ELSE view
<1>1. /\ ~spoiled /\ (tail = Clean \/ outcome = "nothing")
  BY DEF Append, Written, TypeOK
<1>2. outcome \in {"ok", "full", "nothing", "partial", "unterminated"}
  BY DEF WriteOutcomes
<1>3. view' = IF outcome = "ok"
              THEN [view EXCEPT ![p] = Apply(view[p], rec)] ELSE view
  BY DEF Append
<1>4. CASE outcome = "nothing"
  <2>1. disk' = disk /\ tail' = tail
    BY <1>4 DEF Append, Written
  <2>2. QED
    BY <1>1, <1>3, <1>4, <2>1 DEF Replay
<1>5. CASE tail = Clean /\ outcome # "nothing"
  <2>1. Replay = disk
    BY <1>5 DEF Replay
  <2>2. CASE outcome \in {"ok", "full"}
    <3>1. disk' = Apply(disk, rec) /\ tail' = Clean
      BY <1>5, <2>2 DEF Append, Written
    <3>2. QED
      BY <1>1, <1>3, <2>1, <2>2, <3>1 DEF Replay
  <2>3. CASE outcome = "partial"
    <3>1. disk' = disk /\ tail' = Garbage
      BY <1>5, <2>3 DEF Append, Written
    <3>2. QED
      BY <1>1, <1>3, <2>1, <2>3, <3>1 DEF Replay
  <2>4. CASE outcome = "unterminated"
    <3>1. disk' = disk /\ tail' = rec
      BY <1>5, <2>4 DEF Append, Written
    <3>2. QED
      BY <1>1, <1>3, <2>1, <2>4, <3>1, NotTails DEF Replay
  <2>5. QED
    BY <1>2, <1>5, <2>2, <2>3, <2>4
<1>6. QED
  BY <1>1, <1>4, <1>5

\* The same, step by step: the record is on both sides, on the log's only, or
\* on neither.
LEMMA AppendAt ==
  ASSUME TypeOK, NEW p \in Processes, NEW rec \in Records,
         NEW outcome \in WriteOutcomes, Append(p, rec, outcome), ~spoiled'
  PROVE  /\ ~spoiled
         /\ Replay \in Folds /\ view[p] \in Folds
         /\ Replay'.cancelled = Replay.cancelled
         /\ view'[p].cancelled = view[p].cancelled
         /\ \A j \in Steps : j # rec.key =>
              Replay'.step[j] = Replay.step[j]
              /\ view'[p].step[j] = view[p].step[j]
         /\ Replay'.step[rec.key] = IF outcome \in {"nothing", "partial"}
                                    THEN Replay.step[rec.key]
                                    ELSE Folded(Replay.step[rec.key], rec)
         /\ view'[p].step[rec.key] = IF outcome = "ok"
                                     THEN Folded(view[p].step[rec.key], rec)
                                     ELSE view[p].step[rec.key]
<1>1. Replay \in Folds /\ view \in [Processes -> Folds] /\ view[p] \in Folds
  BY ReplayType DEF TypeOK
<1>2. /\ ~spoiled
      /\ Replay' = IF outcome \in {"nothing", "partial"} THEN Replay
                   ELSE Apply(Replay, rec)
      /\ view' = IF outcome = "ok"
                 THEN [view EXCEPT ![p] = Apply(view[p], rec)] ELSE view
  BY AppendReads
<1>3. view'[p] = IF outcome = "ok" THEN Apply(view[p], rec) ELSE view[p]
  BY <1>1, <1>2
<1>4. ASSUME NEW f \in Folds
      PROVE  /\ Apply(f, rec).cancelled = f.cancelled
             /\ Apply(f, rec).step[rec.key] = Folded(f.step[rec.key], rec)
             /\ \A j \in Steps : j # rec.key => Apply(f, rec).step[j] = f.step[j]
  BY ApplyStep
<1>5. QED
  BY <1>1, <1>2, <1>3, <1>4

(***************************************************************************)
(* What the records do to a step, in the log and in memory                 *)
(***************************************************************************)

\* What the invariant says of a step to the process that is up.
Holds(k, v, r, g, n, c) == LogHolds(k, r, g, n, c) /\ MemoryHolds(k, v, r, g, n, c)

\* A freeze makes a step that is not there, and nothing else.
LEMMA FrozenHolds ==
  ASSUME NEW v \in StepViews, NEW r \in StepViews, NEW k \in Steps,
         NEW g \in Nat, NEW n \in Nat, NEW c \in Nat, Holds(k, v, r, g, n, c)
  PROVE  LET rec == Rec("frozen", k, 0, "none")
             V == Folded(v, rec)
             R == Folded(r, rec)
         IN /\ Holds(k, v, R, g, n, c) /\ Holds(k, V, R, g, n, c)
            /\ V.highest = v.highest /\ R.highest = r.highest
            /\ v.state = "claimed" => V.state = "claimed"
<1> DEFINE rec == Rec("frozen", k, 0, "none")
           V == Folded(v, rec)
           R == Folded(r, rec)
<1>1. /\ V = IF v.state = "absent" THEN [v EXCEPT !.state = "pending"] ELSE v
      /\ R = IF r.state = "absent" THEN [r EXCEPT !.state = "pending"] ELSE r
  BY DEF Folded, Rec
<1> HIDE DEF V, R
<1>2. v.state \in States /\ r.state \in States
  BY DEF StepViews
<1>3. /\ V.state = IF v.state = "absent" THEN "pending" ELSE v.state
      /\ V.highest = v.highest /\ V.epoch = v.epoch
      /\ R.state = IF r.state = "absent" THEN "pending" ELSE r.state
      /\ R.highest = r.highest /\ R.epoch = r.epoch
  BY <1>1 DEF StepViews
<1>4. Fenced(v, g) /\ Fenced(r, g) /\ Lags(v, r)
  BY DEF Holds, LogHolds, MemoryHolds
<1>5. Fenced(V, g) /\ Fenced(R, g) /\ Lags(v, R) /\ Lags(V, R)
  BY <1>2, <1>3, <1>4 DEF Fenced, Lags
<1>6. ASSUME k \in Careful
      PROVE  /\ Sound(V, n, c) /\ Sound(R, n, c)
             /\ Behind(v, R) /\ Behind(V, R)
  <2>1. Sound(v, n, c) /\ Sound(r, n, c) /\ Behind(v, r)
    BY <1>6 DEF Holds, LogHolds, MemoryHolds
  <2>2. Sound(V, n, c) /\ Sound(R, n, c)
    BY <1>3, <2>1 DEF Sound
  <2>3. CASE v.state = "absent"
    <3>1. r = v \/ r = [v EXCEPT !.state = "pending"]
      BY <2>1, <2>3 DEF Behind
    <3>2. R = [v EXCEPT !.state = "pending"] /\ V = R
      BY <1>1, <2>3, <3>1 DEF StepViews
    <3>3. QED
      BY <2>2, <2>3, <3>2 DEF Behind
  <2>4. CASE v.state # "absent"
    <3>1. V = v /\ R = r
      BY <1>1, <1>4, <2>4 DEF Lags
    <3>2. QED
      BY <2>1, <2>2, <3>1
  <2>5. QED
    BY <2>3, <2>4
<1>7. QED
  BY <1>3, <1>5, <1>6 DEF Holds, LogHolds, MemoryHolds, V, R, rec

\* The next claim of a step that may be claimed raises the fence, in memory
\* and in the log; for a careful step the two read the same afterwards.
LEMMA ClaimedHolds ==
  ASSUME NEW v \in StepViews, NEW r \in StepViews, NEW k \in Steps,
         NEW g \in Nat, NEW n \in Nat, NEW c \in Nat, Holds(k, v, r, g, n, c),
         NEW e \in Epochs, e = v.highest + 1,
         v.state \in {"pending", "claimed"}
  PROVE  LET rec == Rec("claimed", k, e, "none")
             V == Folded(v, rec)
             R == Folded(r, rec)
         IN /\ Holds(k, v, R, g, n, c) /\ Holds(k, V, R, g, n, c)
            /\ Holds(k, V, R, e, n, c)
            /\ RefenceHolds(k, V, R, g)
            /\ V.highest = e /\ v.highest < e
<1> DEFINE rec == Rec("claimed", k, e, "none")
           V == Folded(v, rec)
           R == Folded(r, rec)
<1>1. /\ v.epoch \in Nat /\ v.highest \in Nat /\ r.epoch \in Nat
      /\ r.highest \in Nat /\ e \in Nat
  BY ViewEpochs DEF Epochs
<1>2. Fenced(v, g) /\ Fenced(r, g) /\ Lags(v, r)
  BY DEF Holds, LogHolds, MemoryHolds
<1>3. g <= v.highest /\ v.highest <= r.highest /\ v.highest < e /\ g < e
      /\ r.state \in {"pending", "claimed", "launched"}
  BY <1>1, <1>2 DEF Fenced, Lags
<1>4. /\ V = Claimed(v, e)
      /\ R = IF e < r.highest THEN r ELSE Claimed(r, e)
  BY <1>1, <1>3 DEF Folded, Advanced, FencedOut, Terminal, Rec
<1> HIDE DEF V, R
<1>5. /\ V.state = "claimed" /\ V.epoch = e /\ V.highest = e
      /\ e <= R.highest /\ R.highest \in Nat
      /\ R.state \in {"pending", "claimed", "launched"}
      /\ R.state \in {"claimed", "launched"} => R.epoch = R.highest
  <2>1. V.state = "claimed" /\ V.epoch = e /\ V.highest = e
    BY <1>4 DEF Claimed, StepViews
  <2>2. CASE e < r.highest
    BY <1>1, <1>2, <1>3, <1>4, <2>1, <2>2 DEF Fenced
  <2>3. CASE ~(e < r.highest)
    <3>1. R.state = "claimed" /\ R.epoch = e /\ R.highest = e
      BY <1>4, <2>3 DEF Claimed, StepViews
    <3>2. QED
      BY <1>1, <2>1, <3>1
  <2>4. QED
    BY <2>2, <2>3
<1>6. /\ Fenced(V, g) /\ Fenced(V, e) /\ Fenced(R, g) /\ Fenced(R, e)
      /\ Lags(v, R) /\ Lags(V, R)
  BY <1>1, <1>3, <1>5 DEF Fenced, Lags
<1>7. ASSUME k \in Careful
      PROVE  /\ Sound(V, n, c) /\ Sound(v, n, c) /\ n <= 1 + c
             /\ R = V /\ Behind(v, R) /\ Behind(V, R)
  <2>1. Sound(v, n, c) /\ Behind(v, r) /\ n <= 1 + c
    BY <1>7 DEF Holds, LogHolds, MemoryHolds
  <2>2. Sound(V, n, c)
    BY <1>5, <2>1 DEF Sound
  <2>3. R = V
    <3>1. r = v \/ r = Claimed(v, e) \/ r = [v EXCEPT !.state = "launched"]
      BY <2>1 DEF Behind
    <3>2. CASE r = v
      BY <1>1, <1>3, <1>4, <3>2
    <3>3. CASE r = Claimed(v, e)
      BY <1>4, <3>3 DEF Claimed, StepViews
    <3>4. CASE r = [v EXCEPT !.state = "launched"]
      <4>1. r.highest = v.highest
        BY <3>4 DEF StepViews
      <4>2. R = Claimed(r, e)
        BY <1>1, <1>3, <1>4, <4>1
      <4>3. QED
        BY <1>4, <3>4, <4>2 DEF Claimed, StepViews
    <3>5. QED
      BY <3>1, <3>2, <3>3, <3>4
  <2>4. Behind(v, R) /\ Behind(V, R)
    BY <1>4, <2>3 DEF Behind
  <2>5. QED
    BY <2>1, <2>2, <2>3, <2>4
<1>8. Holds(k, v, R, g, n, c) /\ Holds(k, V, R, g, n, c) /\ Holds(k, V, R, e, n, c)
  BY <1>2, <1>6, <1>7 DEF Holds, LogHolds, MemoryHolds
<1>9. RefenceHolds(k, V, R, g)
  BY <1>3, <1>5, <1>7 DEF RefenceHolds
<1>10. QED
  BY <1>3, <1>5, <1>8, <1>9 DEF V, R, rec

\* A launch counts where its claim is current, in memory and in the log.
LEMMA LaunchedHolds ==
  ASSUME NEW v \in StepViews, NEW r \in StepViews, NEW k \in Steps,
         NEW g \in Nat, NEW n \in Nat, NEW c \in Nat, Holds(k, v, r, g, n, c),
         NEW e \in Epochs, ClaimHolds(k, e, v, r),
         k \in Careful => v.state = "claimed" /\ v.epoch = e
  PROVE  LET rec == Rec("launched", k, e, "none")
             V == Folded(v, rec)
             R == Folded(r, rec)
         IN /\ Holds(k, v, R, g, n, c) /\ Holds(k, V, R, g, n + 1, c)
            /\ RunHolds(k, e, V, R)
            /\ V.highest = v.highest /\ R.highest = r.highest
            /\ v.state = "claimed" /\ e # v.highest => V.state = "claimed"
<1> DEFINE rec == Rec("launched", k, e, "none")
           V == Folded(v, rec)
           R == Folded(r, rec)
<1>1. /\ v.epoch \in Nat /\ v.highest \in Nat /\ r.epoch \in Nat
      /\ r.highest \in Nat /\ e \in Nat
  BY ViewEpochs DEF Epochs
<1>2. Fenced(v, g) /\ Fenced(r, g) /\ Lags(v, r)
  BY DEF Holds, LogHolds, MemoryHolds
<1>3. /\ e <= v.highest /\ v.highest <= r.highest
      /\ e = v.highest =>
           v.state = "claimed" /\ r.state \in {"pending", "claimed", "launched"}
  BY <1>2 DEF ClaimHolds, Lags
<1>4. /\ V = IF e = v.highest
               THEN [v EXCEPT !.state = "launched", !.epoch = e] ELSE v
      /\ R = IF e = r.highest
               THEN [r EXCEPT !.state = "launched", !.epoch = e] ELSE r
  <2>1. CASE e = v.highest
    <3>1. V = [v EXCEPT !.state = "launched", !.epoch = e]
      BY <1>1, <1>3, <2>1 DEF Folded, Advanced, FencedOut, Terminal, Rec
    <3>2. CASE e = r.highest
      <4>1. R = [r EXCEPT !.state = "launched", !.epoch = e]
        BY <1>1, <1>3, <2>1, <3>2 DEF Folded, Advanced, FencedOut, Terminal, Rec
      <4>2. QED
        BY <2>1, <3>1, <3>2, <4>1
    <3>3. CASE e # r.highest
      <4>1. R = r
        BY <1>1, <1>3, <2>1, <3>3 DEF Folded, Advanced, FencedOut, Terminal, Rec
      <4>2. QED
        BY <2>1, <3>1, <3>3, <4>1
    <3>4. QED
      BY <3>2, <3>3
  <2>2. CASE e # v.highest
    <3>1. e < v.highest /\ e < r.highest
      BY <1>1, <1>3, <2>2
    <3>2. V = v /\ R = r
      BY <1>1, <3>1 DEF Folded, Advanced, FencedOut, Terminal, Rec
    <3>3. QED
      BY <1>1, <2>2, <3>1, <3>2
  <2>3. QED
    BY <2>1, <2>2
<1> HIDE DEF V, R
<1>5. /\ V.state = IF e = v.highest THEN "launched" ELSE v.state
      /\ V.epoch = IF e = v.highest THEN e ELSE v.epoch
      /\ V.highest = v.highest
      /\ R.state = IF e = r.highest THEN "launched" ELSE r.state
      /\ R.epoch = IF e = r.highest THEN e ELSE r.epoch
      /\ R.highest = r.highest
  BY <1>4 DEF StepViews
<1>6. Fenced(V, g) /\ Fenced(R, g)
  BY <1>2, <1>5 DEF Fenced
<1>7. Lags(v, R) /\ Lags(V, R)
  <2>1. CASE e = r.highest
    <3>1. e = v.highest
      BY <1>1, <1>3, <2>1
    <3>2. QED
      BY <1>1, <1>2, <1>3, <1>5, <2>1, <3>1 DEF Lags
  <2>2. CASE e # r.highest
    BY <1>1, <1>2, <1>3, <1>5, <2>2 DEF Lags
  <2>3. QED
    BY <2>1, <2>2
<1>8. ASSUME k \in Careful
      PROVE  /\ Sound(v, n, c) /\ Sound(R, n, c) /\ n <= 1 + c
             /\ Sound(V, n + 1, c) /\ Sound(R, n + 1, c) /\ n + 1 <= 1 + c
             /\ Behind(v, R) /\ Behind(V, R)
             /\ R = V /\ V.state = "launched" /\ e = V.highest
  <2>1. Sound(v, n, c) /\ Behind(v, r) /\ n <= 1 + c
    BY <1>8 DEF Holds, LogHolds, MemoryHolds
  <2>2. v.state = "claimed" /\ v.epoch = e /\ e = v.highest /\ n <= c
        /\ r.highest = e
    BY <1>8, <2>1 DEF Sound, ClaimHolds
  <2>3. V = [v EXCEPT !.state = "launched"]
    BY <1>4, <2>2 DEF StepViews
  <2>4. r = v \/ r = V
    <3>1. Claimed(v, v.highest + 1).highest = v.highest + 1
      BY DEF Claimed, StepViews
    <3>2. r # Claimed(v, v.highest + 1)
      BY <1>1, <2>2, <3>1
    <3>3. QED
      BY <2>1, <2>2, <2>3, <3>2 DEF Behind
  <2>5. R = V
    <3>1. R = [r EXCEPT !.state = "launched", !.epoch = e]
      BY <1>4, <2>2
    <3>2. CASE r = v
      BY <1>4, <2>2, <3>1, <3>2
    <3>3. CASE r = V
      BY <2>2, <2>3, <3>1, <3>3 DEF StepViews
    <3>4. QED
      BY <2>4, <3>2, <3>3
  <2>6. Behind(v, R) /\ Behind(V, R)
    BY <2>2, <2>3, <2>5 DEF Behind
  <2>7. Sound(V, n, c) /\ Sound(V, n + 1, c)
    BY <1>5, <2>2 DEF Sound
  <2>8. n + 1 <= 1 + c
    BY <2>2
  <2>9. QED
    BY <1>5, <2>1, <2>2, <2>5, <2>6, <2>7, <2>8
<1>9. Holds(k, v, R, g, n, c) /\ Holds(k, V, R, g, n + 1, c)
  BY <1>2, <1>6, <1>7, <1>8 DEF Holds, LogHolds, MemoryHolds
<1>10. RunHolds(k, e, V, R)
  BY <1>1, <1>3, <1>5, <1>8 DEF RunHolds
<1>11. QED
  BY <1>5, <1>9, <1>10 DEF V, R, rec

\* A result becomes the answer where its claim is still the newest one.
LEMMA SettledHolds ==
  ASSUME NEW v \in StepViews, NEW r \in StepViews, NEW k \in Steps,
         NEW g \in Nat, NEW n \in Nat, NEW c \in Nat, Holds(k, v, r, g, n, c),
         NEW e \in Epochs, RunHolds(k, e, v, r),
         NEW a \in {"succeeded", "failed"}
  PROVE  LET rec == Rec("settled", k, e, a)
             V == Folded(v, rec)
             R == Folded(r, rec)
         IN /\ Holds(k, v, R, g, n, c) /\ Holds(k, V, R, g, n, c)
            /\ V.highest = v.highest /\ R.highest = r.highest
            /\ v.state = "claimed" => V.state = "claimed"
<1> DEFINE rec == Rec("settled", k, e, a)
           V == Folded(v, rec)
           R == Folded(r, rec)
<1>1. /\ v.epoch \in Nat /\ v.highest \in Nat /\ r.epoch \in Nat
      /\ r.highest \in Nat /\ e \in Nat
  BY ViewEpochs DEF Epochs
<1>2. Fenced(v, g) /\ Fenced(r, g) /\ Lags(v, r)
  BY DEF Holds, LogHolds, MemoryHolds
<1>3. /\ e <= v.highest /\ v.highest <= r.highest
      /\ e = v.highest => v.state = "launched"
      /\ e = r.highest => r.state = "launched"
  BY <1>1, <1>2 DEF RunHolds, Lags
<1>4. /\ V = IF e = v.highest
               THEN [v EXCEPT !.state = "settled", !.answer = a] ELSE v
      /\ R = IF e = r.highest
               THEN [r EXCEPT !.state = "settled", !.answer = a] ELSE r
  <2>1. ASSUME NEW x \in StepViews, x.highest \in Nat, e <= x.highest,
               e = x.highest => x.state = "launched"
        PROVE  Folded(x, rec) = IF e = x.highest
                 THEN [x EXCEPT !.state = "settled", !.answer = a] ELSE x
    BY <1>1, <2>1 DEF Folded, Advanced, FencedOut, Terminal, Rec
  <2>2. e <= r.highest
    BY <1>1, <1>3
  <2> HIDE DEF rec
  <2>3. QED
    BY <1>1, <1>3, <2>1, <2>2
<1> HIDE DEF V, R
<1>5. /\ V.state = IF e = v.highest THEN "settled" ELSE v.state
      /\ V.epoch = v.epoch /\ V.highest = v.highest
      /\ R.state = IF e = r.highest THEN "settled" ELSE r.state
      /\ R.epoch = r.epoch /\ R.highest = r.highest
  BY <1>4 DEF StepViews
<1>6. Fenced(V, g) /\ Fenced(R, g)
  BY <1>2, <1>5 DEF Fenced
<1>7. Lags(v, R) /\ Lags(V, R)
  <2>1. CASE e = r.highest
    <3>1. e = v.highest
      BY <1>1, <1>3, <2>1
    <3>2. QED
      BY <1>1, <1>2, <1>3, <1>5, <2>1, <3>1 DEF Lags
  <2>2. CASE e # r.highest
    BY <1>1, <1>2, <1>3, <1>5, <2>2 DEF Lags
  <2>3. QED
    BY <2>1, <2>2
<1>8. ASSUME k \in Careful
      PROVE  /\ Sound(V, n, c) /\ Sound(v, n, c) /\ n <= 1 + c
             /\ R = V /\ Behind(v, R) /\ Behind(V, R)
  <2>1. Sound(v, n, c) /\ n <= 1 + c
    BY <1>8 DEF Holds, LogHolds, MemoryHolds
  <2>2. r = v /\ v.state = "launched" /\ e = v.highest
    BY <1>8 DEF RunHolds
  <2>3. R = V /\ V = [v EXCEPT !.state = "settled", !.answer = a]
    BY <1>4, <2>2
  <2>4. a \in Answers \ {"none"}
    BY DEF Answers
  <2>5. Behind(v, R) /\ Behind(V, R)
    BY <2>2, <2>3, <2>4 DEF Behind
  <2>6. QED
    BY <1>5, <2>1, <2>2, <2>3, <2>5 DEF Sound
<1>9. Holds(k, v, R, g, n, c) /\ Holds(k, V, R, g, n, c)
  BY <1>2, <1>6, <1>7, <1>8 DEF Holds, LogHolds, MemoryHolds
<1>10. v.state = "claimed" => V.state = "claimed"
  BY <1>3, <1>5
<1>11. QED
  BY <1>5, <1>9, <1>10 DEF V, R, rec

\* An uncertainty about a launch; the log may have an answer, which it keeps.
LEMMA UncertainHolds ==
  ASSUME NEW v \in StepViews, NEW r \in StepViews, NEW k \in Steps,
         NEW g \in Nat, NEW n \in Nat, NEW c \in Nat, Holds(k, v, r, g, n, c),
         v.state = "launched"
  PROVE  LET rec == Rec("uncertain", k, v.epoch, "none")
             V == Folded(v, rec)
             R == Folded(r, rec)
         IN /\ Holds(k, v, R, g, n, c) /\ Holds(k, V, R, g, n, c)
            /\ V.highest = v.highest /\ R.highest = r.highest
            /\ R.state \in {"uncertain", "settled"}
<1> DEFINE rec == Rec("uncertain", k, v.epoch, "none")
           V == Folded(v, rec)
           R == Folded(r, rec)
<1>1. Fenced(v, g) /\ Fenced(r, g) /\ Lags(v, r)
  BY DEF Holds, LogHolds, MemoryHolds
<1>2. r.state # "absent" /\ v.epoch = v.highest
  BY <1>1 DEF Lags, Fenced
<1>3. /\ V = [v EXCEPT !.state = "uncertain"]
      /\ R = IF r.state = "settled" THEN r
             ELSE [r EXCEPT !.state = "uncertain", !.epoch = v.epoch]
  <2>1. V = [v EXCEPT !.state = "uncertain", !.epoch = v.epoch]
    BY DEF Folded, Advanced, MarkedUncertain, Terminal, Rec
  <2>2. V = [v EXCEPT !.state = "uncertain"]
    BY <2>1 DEF StepViews
  <2>3. R = IF r.state = "settled" THEN r
            ELSE [r EXCEPT !.state = "uncertain", !.epoch = v.epoch]
    BY <1>2 DEF Folded, Advanced, MarkedUncertain, Terminal, Rec
  <2>4. QED
    BY <2>2, <2>3
<1> HIDE DEF V, R
<1>4. /\ V.state = "uncertain" /\ V.epoch = v.epoch /\ V.highest = v.highest
      /\ R.state = IF r.state = "settled" THEN "settled" ELSE "uncertain"
      /\ R.highest = r.highest
      /\ R.epoch = IF r.state = "settled" THEN r.epoch ELSE v.epoch
  BY <1>3 DEF StepViews
<1>5. /\ Fenced(V, g) /\ Fenced(R, g) /\ Lags(v, R) /\ Lags(V, R)
  BY <1>1, <1>4 DEF Fenced, Lags
<1>6. ASSUME k \in Careful
      PROVE  /\ Sound(V, n, c) /\ Sound(v, n, c) /\ Sound(R, n, c)
             /\ n <= 1 + c /\ Behind(v, R) /\ Behind(V, R)
  <2>1. Sound(v, n, c) /\ Sound(r, n, c) /\ Behind(v, r) /\ n <= 1 + c
    BY <1>6 DEF Holds, LogHolds, MemoryHolds
  <2>2. Sound(V, n, c)
    BY <1>4, <2>1 DEF Sound
  <2>3. r = v \/ r = V \/ \E a \in Answers \ {"none"} :
          r = [v EXCEPT !.state = "settled", !.answer = a]
    BY <1>3, <2>1 DEF Behind
  <2>4. CASE r = v \/ r = V
    <3>1. R = V
      BY <1>3, <2>4 DEF StepViews
    <3>2. QED
      BY <1>3, <2>1, <2>2, <3>1 DEF Behind
  <2>5. ASSUME NEW a \in Answers \ {"none"},
               r = [v EXCEPT !.state = "settled", !.answer = a]
        PROVE  R = r /\ Behind(v, R) /\ Behind(V, R)
    <3>1. r.state = "settled"
      BY <2>5 DEF StepViews
    <3>2. R = r
      BY <1>3, <3>1
    <3>3. r = [V EXCEPT !.state = "settled", !.answer = a]
      BY <1>3, <2>5 DEF StepViews
    <3>4. QED
      BY <1>4, <2>1, <3>2, <3>3 DEF Behind
  <2>6. QED
    BY <2>1, <2>2, <2>3, <2>4, <2>5
<1>7. Holds(k, v, R, g, n, c) /\ Holds(k, V, R, g, n, c)
  BY <1>1, <1>5, <1>6 DEF Holds, LogHolds, MemoryHolds
<1>8. QED
  BY <1>4, <1>7 DEF V, R, rec

\* A decision about an uncertain step reads the same in the log, which may
\* have taken an earlier one already.
LEMMA ReconciledHolds ==
  ASSUME NEW v \in StepViews, NEW r \in StepViews, NEW k \in Steps,
         NEW g \in Nat, NEW n \in Nat, NEW c \in Nat, Holds(k, v, r, g, n, c),
         v.state = "uncertain", NEW d \in Decisions,
         NEW c2 \in Nat, c2 = IF d = "proved_no_effects" THEN n ELSE c
  PROVE  LET rec == Rec("reconciled", k, 0, d)
             V == Folded(v, rec)
             R == Folded(r, rec)
         IN /\ Holds(k, v, R, g, n, c2) /\ Holds(k, V, R, g, n, c2)
            /\ V.highest = v.highest /\ R.highest = r.highest
<1> DEFINE rec == Rec("reconciled", k, 0, d)
           V == Folded(v, rec)
           R == Folded(r, rec)
<1>1. Fenced(v, g) /\ Fenced(r, g) /\ Lags(v, r)
  BY DEF Holds, LogHolds, MemoryHolds
<1>2. r.state # "absent"
  BY <1>1 DEF Lags
<1>3. V = Resolved(v, d) /\ R = Resolved(r, d)
  BY <1>2 DEF Folded, Advanced, Rec
<1>4. d \in {"adopt_completed", "proved_no_effects", "abandoned"}
  BY DEF Decisions
<1> HIDE DEF V, R
<1>5. /\ V.state = IF d = "proved_no_effects" THEN "pending" ELSE "settled"
      /\ V.epoch = v.epoch /\ V.highest = v.highest
      /\ R.state = IF d = "proved_no_effects" THEN "pending" ELSE "settled"
      /\ R.epoch = r.epoch /\ R.highest = r.highest
  BY <1>3, <1>4 DEF Resolved, StepViews
<1>6. /\ Fenced(V, g) /\ Fenced(R, g) /\ Lags(v, R) /\ Lags(V, R)
  BY <1>1, <1>5 DEF Fenced, Lags
<1>7. ASSUME k \in Careful
      PROVE  /\ Sound(V, n, c2) /\ Sound(v, n, c2) /\ Sound(R, n, c2)
             /\ n <= 1 + c2 /\ Behind(v, R) /\ Behind(V, R)
  <2>1. Sound(v, n, c) /\ Sound(r, n, c) /\ Behind(v, r) /\ n <= 1 + c
    BY <1>7 DEF Holds, LogHolds, MemoryHolds
  <2>2. /\ Sound(V, n, c2) /\ Sound(v, n, c2) /\ Sound(R, n, c2)
        /\ n <= 1 + c2
    BY <1>5, <2>1 DEF Sound
  <2>3. r = v \/ r = [v EXCEPT !.state = "pending"]
          \/ \E a \in Answers \ {"none"} :
               r = [v EXCEPT !.state = "settled", !.answer = a]
    BY <2>1 DEF Behind
  <2>4. R = V
    BY <1>3, <1>4, <2>3 DEF Resolved, StepViews
  <2>5. Behind(v, R)
    <3>1. CASE d = "proved_no_effects"
      <4>1. V = [v EXCEPT !.state = "pending"]
        BY <1>3, <3>1 DEF Resolved, StepViews
      <4>2. QED
        BY <2>4, <4>1 DEF Behind
    <3>2. CASE d # "proved_no_effects"
      <4>1. \E a \in Answers \ {"none"} :
              V = [v EXCEPT !.state = "settled", !.answer = a]
        BY <1>3, <1>4, <3>2 DEF Resolved, Answers
      <4>2. QED
        BY <2>4, <4>1 DEF Behind
    <3>3. QED
      BY <3>1, <3>2
  <2>6. QED
    BY <2>2, <2>4, <2>5 DEF Behind
<1>8. Holds(k, v, R, g, n, c2) /\ Holds(k, V, R, g, n, c2)
  BY <1>1, <1>6, <1>7 DEF Holds, LogHolds, MemoryHolds
<1>9. QED
  BY <1>5, <1>8 DEF V, R, rec

(***************************************************************************)
(* The invariant is preserved                                              *)
(***************************************************************************)

\* A log that is empty and that nobody has opened satisfies the invariant.
LEMMA InitIInv == Init => IInv
<1> SUFFICES ASSUME Init
             PROVE  IInv
  OBVIOUS
<1>1. Absent \in StepViews
  BY DEF Absent, StepViews, States, Answers, Epochs
<1>2. Empty \in Folds /\ \A k \in Steps : Empty.step[k] = Absent
  BY <1>1 DEF Empty, Folds
<1>3. 0 \in Epochs /\ Down \in Jobs
  BY DEF Epochs, Jobs
<1>4. TypeOK
  BY <1>2, <1>3 DEF Init, TypeOK
<1>5. Replay = Empty
  BY DEF Init, Replay
<1>6. \A p \in Processes : ~Up(p) /\ job[p].what = "down" /\ claims[p] = {}
  BY DEF Init, Up, Down, Job
<1>7. \A k \in Steps :
        LogHolds(k, Replay.step[k], granted[k], calls[k], cleared[k])
  BY <1>2, <1>5 DEF Init, LogHolds, Fenced, Sound, Absent
<1>8. OneUp /\ StepsHold /\ CancelKnown
  BY <1>6, <1>7 DEF Init, OneUp, StepsHold, CancelKnown
<1>9. \A p \in Processes : JobHolds(p)
  BY <1>6 DEF JobHolds
<1>10. QED
  BY <1>4, <1>8, <1>9 DEF IInv, LogInv

\* What the invariant says of a step to the process that is up.
LEMMA AtStep ==
  ASSUME IInv, ~spoiled, NEW p \in Processes, Up(p), NEW k \in Steps
  PROVE  /\ view[p].step[k] \in StepViews /\ Replay.step[k] \in StepViews
         /\ Holds(k, view[p].step[k], Replay.step[k], granted[k], calls[k],
                  cleared[k])
         /\ granted[k] \in Nat /\ calls[k] \in Nat /\ cleared[k] \in Nat
<1>1. TypeOK /\ LogInv
  BY DEF IInv
<1>2. Replay \in Folds /\ view[p] \in Folds
  BY <1>1, ReplayType DEF TypeOK
<1>3. view[p].step[k] \in StepViews /\ Replay.step[k] \in StepViews
  BY <1>2 DEF Folds
<1>4. granted[k] \in Nat /\ calls[k] \in Nat /\ cleared[k] \in Nat
  <2>1. granted[k] \in Epochs /\ calls[k] \in Nat /\ cleared[k] \in Nat
    BY <1>1 DEF TypeOK
  <2>2. QED
    BY <2>1 DEF Epochs
<1>5. QED
  BY <1>1, <1>3, <1>4 DEF LogInv, StepsHold, Holds

\* The process that is up appends a record about a step. What is to be shown
\* of the step and of its job is what the record decides; the rest stays,
\* except that the recovery of other steps may be handed out.
LEMMA StepWritten ==
  ASSUME IInv, TypeOK', NEW p \in Processes, Up(p), Up(p)',
         NEW rec \in Records, NEW outcome \in WriteOutcomes,
         Append(p, rec, outcome), ~spoiled', UNCHANGED stopped,
         \A q \in Processes \ {p} : job'[q] = job[q] /\ claims'[q] = claims[q],
         \A j \in Steps : j # rec.key =>
           /\ calls'[j] = calls[j] /\ cleared'[j] = cleared[j]
           /\ granted'[j] \in {granted[j], view[p].step[j].highest},
         Holds(rec.key, view[p].step[rec.key], Replay.step[rec.key], granted[rec.key],
               calls[rec.key], cleared[rec.key])',
         JobHolds(p)'
  PROVE  LogInv'
<1>1. TypeOK /\ ~spoiled /\ LogInv
  BY AppendReads DEF IInv
<1>2. /\ Replay'.cancelled = Replay.cancelled
      /\ view'[p].cancelled = view[p].cancelled
      /\ \A j \in Steps : j # rec.key =>
           Replay'.step[j] = Replay.step[j]
           /\ view'[p].step[j] = view[p].step[j]
  BY <1>1, AppendAt
<1>3. \A q \in Processes \ {p} : ~Up(q) /\ ~Up(q)' /\ claims'[q] = {}
  BY <1>1 DEF LogInv, OneUp, Up
<1>4. OneUp'
  BY <1>3 DEF OneUp
<1>5. ASSUME NEW j \in Steps
      PROVE  Holds(j, view[p].step[j], Replay.step[j], granted[j], calls[j],
                   cleared[j])'
  <2>1. CASE j = rec.key
    BY <2>1
  <2>2. CASE j # rec.key
    <3> DEFINE v == view[p].step[j]
               r == Replay.step[j]
    <3>1. /\ v \in StepViews /\ r \in StepViews
          /\ Holds(j, v, r, granted[j], calls[j], cleared[j])
          /\ granted[j] \in Nat
      BY <1>1, AtStep
    <3>2. v.highest \in Nat /\ r.highest \in Nat
      BY <3>1, ViewEpochs
    <3>3. Holds(j, v, r, v.highest, calls[j], cleared[j])
      BY <3>1, <3>2 DEF Holds, LogHolds, MemoryHolds, Fenced, Lags
    <3>4. Holds(j, v, r, granted'[j], calls[j], cleared[j])
      BY <2>2, <3>1, <3>3
    <3>5. /\ view'[p].step[j] = v /\ Replay'.step[j] = r
          /\ calls'[j] = calls[j] /\ cleared'[j] = cleared[j]
      BY <1>2, <2>2
    <3> HIDE DEF v, r
    <3>6. QED
      BY <3>4, <3>5
  <2>3. QED
    BY <2>1, <2>2
<1>6. StepsHold'
  <2>1. \A j \in Steps :
          /\ LogHolds(j, Replay'.step[j], granted'[j], calls'[j], cleared'[j])
          /\ MemoryHolds(j, view'[p].step[j], Replay'.step[j], granted'[j],
                         calls'[j], cleared'[j])
    BY <1>5 DEF Holds
  <2>2. QED
    BY <1>3, <2>1 DEF StepsHold
<1>7. CancelKnown'
  BY <1>1, <1>2, <1>3 DEF LogInv, CancelKnown
<1>8. \A q \in Processes : JobHolds(q)'
  <2>1. ASSUME NEW q \in Processes \ {p}
        PROVE  JobHolds(q)'
    <3>1. job'[q].what = "down" /\ claims'[q] = {}
      BY <1>3 DEF Up, Down, Job
    <3>2. QED
      BY <3>1 DEF JobHolds
  <2>2. QED
    BY <2>1
<1>9. QED
  BY <1>4, <1>6, <1>7, <1>8 DEF LogInv

\* The claims that the process has keep up with the log and with memory when
\* the ones on the step that was written do.
LEMMA ClaimsStay ==
  ASSUME IInv, NEW p \in Processes, Up(p),
         NEW rec \in Records, NEW outcome \in WriteOutcomes,
         Append(p, rec, outcome), ~spoiled', NEW S \in SUBSET claims[p],
         \A c \in S : c.key = rec.key =>
           ClaimHolds(rec.key, c.epoch, view'[p].step[rec.key],
                      Replay'.step[rec.key])
  PROVE  \A c \in S :
           ClaimHolds(c.key, c.epoch, view'[p].step[c.key], Replay'.step[c.key])
<1>1. TypeOK /\ ~spoiled /\ LogInv
  BY AppendReads DEF IInv
<1>2. \A j \in Steps : j # rec.key =>
           Replay'.step[j] = Replay.step[j]
           /\ view'[p].step[j] = view[p].step[j]
  BY <1>1, AppendAt
<1>3. ASSUME NEW c \in S, c.key # rec.key
      PROVE  ClaimHolds(c.key, c.epoch, view'[p].step[c.key], Replay'.step[c.key])
  <2>1. c \in claims[p] /\ c.key \in Steps
    BY <1>1 DEF TypeOK, Claims
  <2>2. ClaimHolds(c.key, c.epoch, view[p].step[c.key], Replay.step[c.key])
    BY <1>1, <2>1 DEF LogInv, JobHolds
  <2>3. QED
    BY <1>2, <1>3, <2>1, <2>2
<1>4. QED
  BY <1>3

\* A claim keeps up with a record that moves no fence and spares a claim.
LEMMA ClaimKept ==
  ASSUME NEW v, NEW r, NEW V, NEW R, NEW k, NEW e, ClaimHolds(k, e, v, r),
         V.highest = v.highest, R.highest = r.highest,
         v.state = "claimed" => V.state = "claimed"
  PROVE  ClaimHolds(k, e, V, R)
BY DEF ClaimHolds

\* So do all claims of the process.
LEMMA QuietClaims ==
  ASSUME IInv, NEW p \in Processes, Up(p),
         NEW rec \in Records, NEW outcome \in WriteOutcomes,
         Append(p, rec, outcome), ~spoiled', NEW S \in SUBSET claims[p],
         LET v == view[p].step[rec.key]
             r == Replay.step[rec.key]
             V == Folded(v, rec)
             R == Folded(r, rec)
         IN /\ V.highest = v.highest /\ R.highest = r.highest
            /\ v.state = "claimed" => outcome # "ok" \/ V.state = "claimed"
  PROVE  \A c \in S :
           ClaimHolds(c.key, c.epoch, view'[p].step[c.key], Replay'.step[c.key])
<1> DEFINE v == view[p].step[rec.key]
           r == Replay.step[rec.key]
           V == Folded(v, rec)
           R == Folded(r, rec)
<1>1. TypeOK /\ ~spoiled /\ LogInv
  BY AppendReads DEF IInv
<1>2. /\ Replay'.step[rec.key] = IF outcome \in {"nothing", "partial"}
                                 THEN r ELSE R
      /\ view'[p].step[rec.key] = IF outcome = "ok" THEN V ELSE v
  BY <1>1, AppendAt
<1>3. ASSUME NEW c \in S, c.key = rec.key
      PROVE  ClaimHolds(rec.key, c.epoch, view'[p].step[rec.key],
                        Replay'.step[rec.key])
  <2>1. ClaimHolds(rec.key, c.epoch, v, r)
    BY <1>1, <1>3 DEF LogInv, JobHolds
  <2> HIDE DEF v, r, V, R
  <2>2. QED
    BY <1>2, <2>1, ClaimKept DEF v, r, V, R
<1>4. QED
  BY <1>3, ClaimsStay

\* One lemma per operation of a process that writes.
LEMMA FreezeInv ==
  ASSUME IInv, TypeOK', ~spoiled', NEW p \in Processes, NEW k \in Steps,
         NEW outcome \in WriteOutcomes, Freeze(p, k, outcome)
  PROVE  LogInv'
<1> DEFINE rec == Rec("frozen", k, 0, "none")
           v == view[p].step[k]
           r == Replay.step[k]
           V == Folded(v, rec)
           R == Folded(r, rec)
<1>1. /\ Append(p, rec, outcome) /\ job[p] = Idle
      /\ UNCHANGED <<job, claims, calls, cleared, granted, stopped>>
  BY DEF Freeze, history
<1>2. rec \in Records /\ rec.key = k
  BY DEF Rec, Records, Kinds, Answers, Epochs
<1>3. TypeOK /\ ~spoiled /\ Up(p) /\ Up(p)' /\ job'[p].what = "idle"
  BY <1>1, <1>2, AppendReads DEF IInv, Up, Idle, Down, Job
<1>4. /\ v \in StepViews /\ r \in StepViews
      /\ Holds(k, v, r, granted[k], calls[k], cleared[k])
      /\ granted[k] \in Nat /\ calls[k] \in Nat /\ cleared[k] \in Nat
  BY <1>3, AtStep
<1>5. /\ Holds(k, v, R, granted[k], calls[k], cleared[k])
      /\ Holds(k, V, R, granted[k], calls[k], cleared[k])
      /\ V.highest = v.highest /\ R.highest = r.highest
      /\ v.state = "claimed" => V.state = "claimed"
  BY <1>4, FrozenHolds
<1> HIDE DEF rec
<1>6. /\ Replay'.step[k] = IF outcome \in {"nothing", "partial"} THEN r ELSE R
      /\ view'[p].step[k] = IF outcome = "ok" THEN V ELSE v
  BY <1>1, <1>2, <1>3, AppendAt
<1>7. Holds(k, view[p].step[k], Replay.step[k], granted[k], calls[k], cleared[k])'
  BY <1>1, <1>4, <1>5, <1>6
<1>8. JobHolds(p)'
  <2>1. \A c \in claims[p] :
          ClaimHolds(c.key, c.epoch, view'[p].step[c.key], Replay'.step[c.key])
    BY <1>1, <1>2, <1>3, <1>5, QuietClaims
  <2>2. QED
    BY <1>1, <1>3, <2>1 DEF JobHolds
<1>9. QED
  BY <1>1, <1>2, <1>3, <1>7, <1>8, StepWritten

LEMMA ReconcileInv ==
  ASSUME IInv, TypeOK', ~spoiled', NEW p \in Processes, NEW k \in Steps,
         NEW d \in Decisions, NEW outcome \in WriteOutcomes,
         Reconcile(p, k, d, outcome)
  PROVE  LogInv'
<1> DEFINE rec == Rec("reconciled", k, 0, d)
           v == view[p].step[k]
           r == Replay.step[k]
           V == Folded(v, rec)
           R == Folded(r, rec)
           c2 == IF d = "proved_no_effects" THEN calls[k] ELSE cleared[k]
<1>1. /\ Append(p, rec, outcome) /\ job[p] = Idle /\ v.state = "uncertain"
      /\ UNCHANGED <<job, claims, calls, granted, stopped>>
      /\ cleared' = [cleared EXCEPT ![k] =
           IF d = "proved_no_effects" /\ outcome \notin {"nothing", "partial"}
             THEN calls[k] ELSE cleared[k]]
  BY DEF Reconcile
<1>2. rec \in Records /\ rec.key = k
  BY DEF Rec, Records, Kinds, Decisions, Epochs
<1>3. TypeOK /\ ~spoiled /\ Up(p) /\ Up(p)' /\ job'[p].what = "idle"
  BY <1>1, <1>2, AppendReads DEF IInv, Up, Idle, Down, Job
<1>4. /\ v \in StepViews /\ r \in StepViews
      /\ Holds(k, v, r, granted[k], calls[k], cleared[k])
      /\ granted[k] \in Nat /\ calls[k] \in Nat /\ cleared[k] \in Nat
  BY <1>3, AtStep
<1>5. /\ Holds(k, v, R, granted[k], calls[k], c2)
      /\ Holds(k, V, R, granted[k], calls[k], c2)
      /\ V.highest = v.highest /\ R.highest = r.highest
  BY <1>1, <1>4, ReconciledHolds
<1> HIDE DEF rec
<1>6. /\ Replay'.step[k] = IF outcome \in {"nothing", "partial"} THEN r ELSE R
      /\ view'[p].step[k] = IF outcome = "ok" THEN V ELSE v
  BY <1>1, <1>2, <1>3, AppendAt
<1>7. /\ cleared'[k] = IF outcome \in {"nothing", "partial"}
                       THEN cleared[k] ELSE c2
      /\ \A j \in Steps : j # k => cleared'[j] = cleared[j]
  BY <1>1, <1>3 DEF TypeOK
<1>8. Holds(k, view[p].step[k], Replay.step[k], granted[k], calls[k], cleared[k])'
  <2> HIDE DEF v, r, V, R, c2
  <2>1. CASE outcome \in {"nothing", "partial"}
    BY <1>1, <1>4, <1>6, <1>7, <2>1
  <2>2. CASE outcome \notin {"nothing", "partial"}
    BY <1>1, <1>5, <1>6, <1>7, <2>2
  <2>3. QED
    BY <2>1, <2>2
<1>9. JobHolds(p)'
  <2>1. \A c \in claims[p] :
          ClaimHolds(c.key, c.epoch, view'[p].step[c.key], Replay'.step[c.key])
    BY <1>1, <1>2, <1>3, <1>5, QuietClaims
  <2>2. QED
    BY <1>1, <1>3, <2>1 DEF JobHolds
<1>10. QED
  BY <1>1, <1>2, <1>3, <1>7, <1>8, <1>9, StepWritten

LEMMA SettleInv ==
  ASSUME IInv, TypeOK', ~spoiled', NEW p \in Processes,
         NEW a \in {"succeeded", "failed"}, NEW outcome \in WriteOutcomes,
         Settle(p, a, outcome)
  PROVE  LogInv'
<1>1. /\ Append(p, Rec("settled", job[p].key, job[p].epoch, a), outcome)
      /\ job[p].what = "running" /\ job' = [job EXCEPT ![p] = Idle]
      /\ UNCHANGED <<claims, calls, cleared, granted, stopped>>
  BY DEF Settle, history
<1>2. TypeOK /\ job[p] \in Jobs /\ Up(p)
  BY <1>1, JobNames DEF IInv, TypeOK, Up
<1>3. PICK k \in Steps, e \in Epochs : k = job[p].key /\ e = job[p].epoch
  BY <1>1, <1>2, JobNames
<1> DEFINE rec == Rec("settled", k, e, a)
           v == view[p].step[k]
           r == Replay.step[k]
           V == Folded(v, rec)
           R == Folded(r, rec)
<1>4. rec \in Records /\ rec.key = k /\ Append(p, rec, outcome)
  BY <1>1, <1>3 DEF Rec, Records, Kinds, Answers
<1>5. /\ ~spoiled /\ Up(p)' /\ job'[p].what = "idle"
      /\ \A q \in Processes \ {p} : job'[q] = job[q]
  <2>1. ~spoiled
    BY <1>2, <1>4, AppendReads
  <2>2. job'[p] = Idle /\ \A q \in Processes \ {p} : job'[q] = job[q]
    BY <1>1, <1>2 DEF TypeOK
  <2>3. QED
    BY <2>1, <2>2 DEF Up, Idle, Down, Job
<1>6. /\ v \in StepViews /\ r \in StepViews
      /\ Holds(k, v, r, granted[k], calls[k], cleared[k])
      /\ granted[k] \in Nat /\ calls[k] \in Nat /\ cleared[k] \in Nat
  BY <1>2, <1>5, AtStep
<1>7. RunHolds(k, e, v, r)
  BY <1>1, <1>3, <1>5 DEF IInv, LogInv, JobHolds
<1>8. /\ Holds(k, v, R, granted[k], calls[k], cleared[k])
      /\ Holds(k, V, R, granted[k], calls[k], cleared[k])
      /\ V.highest = v.highest /\ R.highest = r.highest
      /\ v.state = "claimed" => V.state = "claimed"
  BY <1>6, <1>7, SettledHolds
<1> HIDE DEF rec
<1>9. /\ Replay'.step[k] = IF outcome \in {"nothing", "partial"} THEN r ELSE R
      /\ view'[p].step[k] = IF outcome = "ok" THEN V ELSE v
  BY <1>2, <1>4, <1>5, AppendAt
<1>10. Holds(k, view[p].step[k], Replay.step[k], granted[k], calls[k], cleared[k])'
  BY <1>1, <1>6, <1>8, <1>9
<1>11. JobHolds(p)'
  <2>1. \A c \in claims[p] :
          ClaimHolds(c.key, c.epoch, view'[p].step[c.key], Replay'.step[c.key])
    BY <1>2, <1>4, <1>5, <1>8, QuietClaims
  <2>2. QED
    BY <1>1, <1>5, <2>1 DEF JobHolds
<1>12. QED
  BY <1>1, <1>2, <1>4, <1>5, <1>10, <1>11, StepWritten

LEMMA AdmitInv ==
  ASSUME IInv, TypeOK', ~spoiled', NEW p \in Processes, NEW k \in Steps,
         NEW outcome \in WriteOutcomes, Admit(p, k, outcome)
  PROVE  LogInv'
<1>1. /\ job[p] = Idle /\ view[p].step[k].state \in {"pending", "claimed"}
      /\ NextEpoch(p, k) <= MaxEpoch
      /\ Append(p, Rec("claimed", k, NextEpoch(p, k), "none"), outcome)
      /\ UNCHANGED <<job, calls, cleared, stopped>>
      /\ IF outcome = "ok"
           THEN /\ claims' = [claims EXCEPT ![p] =
                                claims[p] \cup {Claim(k, NextEpoch(p, k))}]
                /\ granted' = [granted EXCEPT ![k] = NextEpoch(p, k)]
           ELSE /\ claims' = [claims EXCEPT ![p] = LeftAfterFailure(p, k)]
                /\ UNCHANGED granted
  BY DEF Admit, Admissible
<1>2. TypeOK /\ Up(p) /\ Up(p)' /\ job'[p].what = "idle"
  BY <1>1 DEF IInv, Up, Idle, Down, Job
<1>3. PICK e \in Epochs : e = view[p].step[k].highest + 1
  <2>1. view[p].step[k] \in StepViews
    BY <1>2 DEF TypeOK, Folds
  <2>2. view[p].step[k].highest \in Nat
    BY <2>1, ViewEpochs
  <2>3. QED
    BY <1>1, <2>2 DEF NextEpoch, Epochs
<1> DEFINE rec == Rec("claimed", k, e, "none")
           v == view[p].step[k]
           r == Replay.step[k]
           V == Folded(v, rec)
           R == Folded(r, rec)
<1>4. /\ rec \in Records /\ rec.key = k /\ Append(p, rec, outcome)
      /\ IF outcome = "ok"
           THEN /\ claims' = [claims EXCEPT ![p] = claims[p] \cup {Claim(k, e)}]
                /\ granted' = [granted EXCEPT ![k] = e]
           ELSE /\ claims' = [claims EXCEPT ![p] = LeftAfterFailure(p, k)]
                /\ UNCHANGED granted
  BY <1>1, <1>3 DEF NextEpoch, Rec, Records, Kinds, Answers
<1>5. ~spoiled /\ LogInv
  BY <1>2, <1>4, AppendReads DEF IInv
<1>6. /\ v \in StepViews /\ r \in StepViews
      /\ Holds(k, v, r, granted[k], calls[k], cleared[k])
      /\ granted[k] \in Nat /\ calls[k] \in Nat /\ cleared[k] \in Nat
      /\ e \in Nat /\ v.highest \in Nat
  BY <1>2, <1>5, AtStep, ViewEpochs DEF Epochs
<1>7. /\ Holds(k, v, R, granted[k], calls[k], cleared[k])
      /\ Holds(k, V, R, e, calls[k], cleared[k])
      /\ RefenceHolds(k, V, R, granted[k])
      /\ V.highest = e /\ v.highest < e
  <2>1. e = v.highest + 1 /\ v.state \in {"pending", "claimed"}
    BY <1>1, <1>3
  <2> HIDE DEF v, r
  <2>2. QED
    BY <1>6, <2>1, ClaimedHolds
<1> HIDE DEF rec
<1>8. /\ Replay'.step[k] = IF outcome \in {"nothing", "partial"} THEN r ELSE R
      /\ view'[p].step[k] = IF outcome = "ok" THEN V ELSE v
  BY <1>2, <1>4, <1>5, AppendAt
<1>9. \A c \in claims[p] : c.key = k => ClaimHolds(k, c.epoch, v, r)
                                        /\ c.epoch \in Nat
  <2>1. \A c \in claims[p] : c.epoch \in Epochs
    BY <1>2 DEF TypeOK, Claims
  <2>2. QED
    BY <1>5, <2>1 DEF LogInv, JobHolds, Epochs
<1>10. CASE outcome = "ok"
  <2>1. /\ granted'[k] = e /\ \A j \in Steps : j # k => granted'[j] = granted[j]
        /\ claims'[p] = claims[p] \cup {Claim(k, e)}
        /\ \A q \in Processes \ {p} : claims'[q] = claims[q]
    BY <1>2, <1>4, <1>10 DEF TypeOK
  <2>2. view'[p].step[k] = V /\ Replay'.step[k] = R
    BY <1>8, <1>10
  <2> HIDE DEF v, r, V, R
  <2>3. Holds(k, view[p].step[k], Replay.step[k], granted[k], calls[k],
              cleared[k])'
    BY <1>1, <1>7, <2>1, <2>2
  <2>4. JobHolds(p)'
    <3>1. ASSUME NEW c \in claims[p], c.key = k
          PROVE  ClaimHolds(k, c.epoch, V, R)
      <4>1. c.epoch <= v.highest /\ c.epoch \in Nat
        BY <1>9, <3>1 DEF ClaimHolds
      <4>2. c.epoch < V.highest
        BY <1>6, <1>7, <4>1
      <4>3. QED
        BY <1>6, <1>7, <4>1, <4>2 DEF ClaimHolds
    <3>2. \A c \in claims[p] :
            ClaimHolds(c.key, c.epoch, view'[p].step[c.key], Replay'.step[c.key])
      BY <1>2, <1>4, <2>2, <3>1, ClaimsStay
    <3>3. ClaimHolds(k, e, V, R)
      BY <1>6, <1>7 DEF ClaimHolds, RefenceHolds
    <3>4. Claim(k, e).key = k /\ Claim(k, e).epoch = e
      BY DEF Claim
    <3>5. \A c \in claims'[p] :
            ClaimHolds(c.key, c.epoch, view'[p].step[c.key], Replay'.step[c.key])
      BY <2>1, <2>2, <3>2, <3>3, <3>4
    <3>6. QED
      BY <1>2, <3>5 DEF JobHolds
  <2>5. QED
    BY <1>1, <1>2, <1>4, <2>1, <2>3, <2>4, StepWritten
<1>11. CASE outcome # "ok"
  <2>1. /\ granted' = granted /\ claims'[p] = LeftAfterFailure(p, k)
        /\ \A q \in Processes \ {p} : claims'[q] = claims[q]
    BY <1>2, <1>4, <1>11 DEF TypeOK
  <2>2. view'[p].step[k] = v /\ (Replay'.step[k] = r \/ Replay'.step[k] = R)
    BY <1>8, <1>11
  <2> HIDE DEF v, r, V, R
  <2>3. Holds(k, view[p].step[k], Replay.step[k], granted[k], calls[k],
              cleared[k])'
    BY <1>1, <1>6, <1>7, <2>1, <2>2
  <2>4. JobHolds(p)'
    <3>1. LeftAfterFailure(p, k) \in SUBSET claims[p]
      BY DEF LeftAfterFailure
    <3>2. ASSUME NEW c \in LeftAfterFailure(p, k), c.key = k
          PROVE  ClaimHolds(k, c.epoch, view'[p].step[k], Replay'.step[k])
      <4>1. k \notin Careful /\ c \in claims[p]
        BY <3>2 DEF LeftAfterFailure
      <4>2. ClaimHolds(k, c.epoch, v, r)
        BY <1>9, <3>2, <4>1
      <4>3. QED
        BY <2>2, <4>1, <4>2 DEF ClaimHolds
    <3>3. \A c \in LeftAfterFailure(p, k) :
            ClaimHolds(c.key, c.epoch, view'[p].step[c.key], Replay'.step[c.key])
      BY <1>2, <1>4, <3>1, <3>2, ClaimsStay
    <3>4. QED
      BY <1>2, <2>1, <3>3 DEF JobHolds
  <2>5. QED
    BY <1>1, <1>2, <1>4, <2>1, <2>3, <2>4, StepWritten
<1>12. QED
  BY <1>10, <1>11

LEMMA LaunchInv ==
  ASSUME IInv, TypeOK', ~spoiled', NEW p \in Processes, NEW cl \in claims[p],
         NEW outcome \in WriteOutcomes, Launch(p, cl, outcome)
  PROVE  LogInv'
<1>1. TypeOK /\ job[p] = Idle /\ Up(p) /\ cl \in Claims
  BY DEF Launch, IInv, TypeOK, Up, Idle, Down, Job
<1>2. PICK k \in Steps, e \in Epochs : k = cl.key /\ e = cl.epoch /\ e \in Nat
  BY <1>1 DEF Claims, Epochs
<1> DEFINE rec == Rec("launched", k, e, "none")
           v == view[p].step[k]
           r == Replay.step[k]
           V == Folded(v, rec)
           R == Folded(r, rec)
<1>3. /\ Append(p, rec, outcome) /\ UNCHANGED <<cleared, granted, stopped>>
      /\ IF outcome = "ok"
           THEN /\ job' = [job EXCEPT ![p] = Running(k, e)]
                /\ claims' = [claims EXCEPT ![p] = claims[p] \ {cl}]
                /\ calls' = [calls EXCEPT ![k] = calls[k] + 1]
           ELSE UNCHANGED <<job, claims, calls>>
      /\ k \in Careful => v.state = "claimed" /\ v.epoch = e
  BY <1>2 DEF Launch, IsFresh
<1>4. rec \in Records /\ rec.key = k
  BY DEF Rec, Records, Kinds, Answers
<1>5. ~spoiled /\ LogInv
  BY <1>1, <1>3, <1>4, AppendReads DEF IInv
<1>6. /\ v \in StepViews /\ r \in StepViews
      /\ Holds(k, v, r, granted[k], calls[k], cleared[k])
      /\ granted[k] \in Nat /\ calls[k] \in Nat /\ cleared[k] \in Nat
  BY <1>1, <1>5, AtStep
<1>7. ClaimHolds(k, e, v, r)
  BY <1>2, <1>5 DEF LogInv, JobHolds
<1>8. /\ Holds(k, v, R, granted[k], calls[k], cleared[k])
      /\ Holds(k, V, R, granted[k], calls[k] + 1, cleared[k])
      /\ RunHolds(k, e, V, R)
      /\ V.highest = v.highest /\ R.highest = r.highest
      /\ v.state = "claimed" /\ e # v.highest => V.state = "claimed"
  BY <1>3, <1>6, <1>7, LaunchedHolds
<1> HIDE DEF rec
<1>9. /\ Replay'.step[k] = IF outcome \in {"nothing", "partial"} THEN r ELSE R
      /\ view'[p].step[k] = IF outcome = "ok" THEN V ELSE v
  BY <1>1, <1>3, <1>4, <1>5, AppendAt
<1>10. CASE outcome = "ok"
  <2>1. /\ job'[p] = Running(k, e) /\ claims'[p] = claims[p] \ {cl}
        /\ calls'[k] = calls[k] + 1
        /\ \A j \in Steps : j # k => calls'[j] = calls[j]
        /\ \A q \in Processes \ {p} : job'[q] = job[q] /\ claims'[q] = claims[q]
    BY <1>1, <1>3, <1>10 DEF TypeOK
  <2>2. /\ job'[p].what = "running" /\ job'[p].key = k /\ job'[p].epoch = e
        /\ Up(p)'
    BY <2>1 DEF Running, Job, Up, Down
  <2>3. view'[p].step[k] = V /\ Replay'.step[k] = R
    BY <1>9, <1>10
  <2> HIDE DEF v, r, V, R
  <2>4. Holds(k, view[p].step[k], Replay.step[k], granted[k], calls[k],
              cleared[k])'
    BY <1>3, <1>8, <2>1, <2>3
  <2>5. ASSUME NEW c \in claims[p] \ {cl}, c.key = k
        PROVE  ClaimHolds(k, c.epoch, V, R)
    <3>1. c \in Claims /\ c.epoch # e
      <4>1. c \in Claims
        BY <1>1 DEF TypeOK
      <4>2. QED
        BY <1>1, <1>2, <2>5, <4>1 DEF Claims
    <3>2. ClaimHolds(k, c.epoch, v, r)
      BY <1>5, <2>5 DEF LogInv, JobHolds, v, r
    <3>3. QED
      BY <1>8, <3>1, <3>2 DEF ClaimHolds
  <2>6. \A c \in claims[p] \ {cl} :
          ClaimHolds(c.key, c.epoch, view'[p].step[c.key], Replay'.step[c.key])
    <3> DEFINE S == claims[p] \ {cl}
    <3>1. S \in SUBSET claims[p]
      OBVIOUS
    <3>2. \A c \in S : c.key = rec.key =>
            ClaimHolds(rec.key, c.epoch, view'[p].step[rec.key],
                       Replay'.step[rec.key])
      BY <1>4, <2>3, <2>5
    <3> HIDE DEF S
    <3>3. \A c \in S :
            ClaimHolds(c.key, c.epoch, view'[p].step[c.key], Replay'.step[c.key])
      BY <1>1, <1>3, <1>4, <3>1, <3>2, ClaimsStay
    <3>4. QED
      BY <3>3 DEF S
  <2>7. JobHolds(p)'
    BY <1>8, <2>1, <2>2, <2>3, <2>6 DEF JobHolds
  <2>8. QED
    BY <1>1, <1>3, <1>4, <2>1, <2>2, <2>4, <2>7, StepWritten
<1>11. CASE outcome # "ok"
  <2>1. UNCHANGED <<job, claims, calls>> /\ Up(p)' /\ job'[p].what = "idle"
    BY <1>1, <1>3, <1>11 DEF Up, Idle, Job
  <2>2. view'[p].step[k] = v /\ (Replay'.step[k] = r \/ Replay'.step[k] = R)
    BY <1>9, <1>11
  <2>3. \A c \in claims[p] :
          ClaimHolds(c.key, c.epoch, view'[p].step[c.key], Replay'.step[c.key])
    BY <1>1, <1>3, <1>4, <1>8, <1>11, QuietClaims
  <2> HIDE DEF v, r, V, R
  <2>4. Holds(k, view[p].step[k], Replay.step[k], granted[k], calls[k],
              cleared[k])'
    BY <1>3, <1>6, <1>8, <2>1, <2>2
  <2>5. JobHolds(p)'
    BY <2>1, <2>3 DEF JobHolds
  <2>6. QED
    BY <1>1, <1>3, <1>4, <2>1, <2>4, <2>5, StepWritten
<1>12. QED
  BY <1>10, <1>11

\* An iteration of recover_lost leaves the step under its new claim, or
\* uncertain, and its other steps as they were.
LEMMA RecoveryHolds ==
  ASSUME NEW v \in StepViews, NEW r \in StepViews, NEW k \in Steps,
         NEW g \in Nat, NEW n \in Nat, NEW c \in Nat, Holds(k, v, r, g, n, c),
         v.state \in {"claimed", "launched"}, RecoveryOf(v, k).epoch <= MaxEpoch
  PROVE  LET rec == RecoveryOf(v, k)
             V == Folded(v, rec)
             R == Folded(r, rec)
         IN /\ rec \in Records /\ rec.key = k
            /\ Holds(k, v, R, g, n, c) /\ Holds(k, V, R, g, n, c)
            /\ rec.kind = "claimed" =>
                 /\ Holds(k, V, R, V.highest, n, c)
                 /\ RefenceHolds(k, V, R, g) /\ v.highest < V.highest
            /\ rec.kind # "claimed" =>
                 /\ v.state # "claimed"
                 /\ V.highest = v.highest /\ R.highest = r.highest
<1>1. v.epoch \in Nat /\ v.highest \in Nat /\ v.epoch \in Epochs
  BY ViewEpochs
<1>2. v.epoch = v.highest
  BY DEF Holds, MemoryHolds, Fenced
<1>3. CASE v.state = "claimed"
  <2> DEFINE e == v.epoch + 1
  <2>1. RecoveryOf(v, k) = Rec("claimed", k, e, "none") /\ e <= MaxEpoch
    BY <1>3 DEF RecoveryOf, Rec
  <2>2. e \in Epochs /\ e = v.highest + 1
    BY <1>1, <1>2, <2>1 DEF Epochs
  <2> DEFINE rec == Rec("claimed", k, e, "none")
  <2>3. rec \in Records /\ rec.key = k /\ rec.kind = "claimed"
    BY <2>2 DEF Rec, Records, Kinds, Answers
  <2> HIDE DEF e
  <2>4. /\ Holds(k, v, Folded(r, rec), g, n, c)
        /\ Holds(k, Folded(v, rec), Folded(r, rec), g, n, c)
        /\ Holds(k, Folded(v, rec), Folded(r, rec), e, n, c)
        /\ RefenceHolds(k, Folded(v, rec), Folded(r, rec), g)
        /\ Folded(v, rec).highest = e /\ v.highest < e
    BY <1>3, <2>2, ClaimedHolds
  <2> HIDE DEF rec
  <2>5. RecoveryOf(v, k) = rec
    BY <2>1 DEF rec
  <2>6. QED
    BY <2>3, <2>4, <2>5
<1>4. CASE v.state = "launched"
  <2> DEFINE rec == Rec("uncertain", k, v.epoch, "none")
  <2>1. rec \in Records /\ rec.key = k /\ rec.kind = "uncertain"
    BY <1>1 DEF Rec, Records, Kinds, Answers
  <2>2. /\ Holds(k, v, Folded(r, rec), g, n, c)
        /\ Holds(k, Folded(v, rec), Folded(r, rec), g, n, c)
        /\ Folded(v, rec).highest = v.highest
        /\ Folded(r, rec).highest = r.highest
    BY <1>4, UncertainHolds
  <2>3. RecoveryOf(v, k) = rec
    BY <1>4 DEF RecoveryOf
  <2> HIDE DEF rec
  <2>4. QED
    BY <1>4, <2>1, <2>2, <2>3
<1>5. QED
  BY <1>3, <1>4

LEMMA RecoverNextInv ==
  ASSUME IInv, TypeOK', ~spoiled', NEW p \in Processes,
         NEW outcome \in WriteOutcomes, RecoverNext(p, outcome),
         spoiled => spoiled'
  PROVE  LogInv'
<1>1. /\ TypeOK /\ ~spoiled /\ LogInv /\ Up(p) /\ job[p].what = "recovering"
      /\ job[p].todo \in SUBSET Steps /\ job[p].refenced \in SUBSET Steps
  BY JobNames DEF IInv, TypeOK, RecoverNext, Up
<1>2. PICK k \in job[p].todo :
        LET rec == RecoveryOf(view[p].step[k], k)
            rest == job[p].todo \ {k}
            refenced == job[p].refenced
                          \cup (IF rec.kind = "claimed" THEN {k} ELSE {})
            done == outcome = "ok" /\ rest = {}
        IN /\ rec.epoch <= MaxEpoch
           /\ Append(p, rec, outcome)
           /\ job' = [job EXCEPT ![p] =
                        IF outcome = "ok" /\ rest # {}
                          THEN Recovering(rest, refenced) ELSE Idle]
           /\ claims' = [claims EXCEPT ![p] =
                CASE outcome # "ok" -> LeftAfterFailure(p, k)
                  [] done -> @ \cup ClaimsOf(view'[p], refenced)
                  [] OTHER -> @]
           /\ granted' = [j \in Steps |->
                IF done /\ j \in refenced THEN view'[p].step[j].highest
                                          ELSE granted[j]]
  BY DEF RecoverNext
<1>3. k \in Steps /\ UNCHANGED <<calls, cleared, stopped>>
  BY <1>1 DEF RecoverNext
<1> DEFINE v == view[p].step[k]
           r == Replay.step[k]
<1>4. /\ v \in StepViews /\ r \in StepViews
      /\ Holds(k, v, r, granted[k], calls[k], cleared[k])
      /\ granted[k] \in Nat /\ calls[k] \in Nat /\ cleared[k] \in Nat
  BY <1>1, <1>3, AtStep
<1>5. /\ job[p].todo \cap job[p].refenced = {}
      /\ \A j \in job[p].todo : view[p].step[j].state \in {"claimed", "launched"}
      /\ \A j \in job[p].refenced :
           RefenceHolds(j, view[p].step[j], Replay.step[j], granted[j])
      /\ \A c \in claims[p] :
           ClaimHolds(c.key, c.epoch, view[p].step[c.key], Replay.step[c.key])
  BY <1>1 DEF LogInv, JobHolds
<1>6. PICK rec \in Records : rec = RecoveryOf(v, k) /\ rec.key = k
  <2>1. RecoveryOf(v, k).epoch <= MaxEpoch
        /\ v.state \in {"claimed", "launched"}
    BY <1>2, <1>5
  <2> HIDE DEF v, r
  <2>2. RecoveryOf(v, k) \in Records /\ RecoveryOf(v, k).key = k
    BY <1>3, <1>4, <2>1, RecoveryHolds
  <2>3. QED
    BY <2>2
<1> DEFINE V == Folded(v, rec)
           R == Folded(r, rec)
           rest == job[p].todo \ {k}
           refenced == job[p].refenced
                         \cup (IF rec.kind = "claimed" THEN {k} ELSE {})
<1>7. /\ Holds(k, v, R, granted[k], calls[k], cleared[k])
      /\ Holds(k, V, R, granted[k], calls[k], cleared[k])
      /\ rec.kind = "claimed" =>
           /\ Holds(k, V, R, V.highest, calls[k], cleared[k])
           /\ RefenceHolds(k, V, R, granted[k]) /\ v.highest < V.highest
      /\ rec.kind # "claimed" =>
           /\ v.state # "claimed"
           /\ V.highest = v.highest /\ R.highest = r.highest
  <2>1. RecoveryOf(v, k).epoch <= MaxEpoch
        /\ v.state \in {"claimed", "launched"}
    BY <1>2, <1>5
  <2> HIDE DEF v, r
  <2>2. QED
    BY <1>3, <1>4, <1>6, <2>1, RecoveryHolds
<1>8. Append(p, rec, outcome)
  BY <1>2, <1>6
<1>9. /\ Replay'.step[k] = IF outcome \in {"nothing", "partial"} THEN r ELSE R
      /\ view'[p].step[k] = IF outcome = "ok" THEN V ELSE v
      /\ \A j \in Steps : j # k => Replay'.step[j] = Replay.step[j]
                                   /\ view'[p].step[j] = view[p].step[j]
  BY <1>1, <1>6, <1>8, AppendAt
<1>10. v.highest \in Nat /\ \A c \in claims[p] : c.epoch \in Nat /\ c.key \in Steps
  <2>1. v.highest \in Nat
    BY <1>4, ViewEpochs
  <2>2. \A c \in claims[p] : c.epoch \in Epochs /\ c.key \in Steps
    BY <1>1 DEF TypeOK, Claims
  <2>3. QED
    BY <2>1, <2>2 DEF Epochs
<1>11. CASE outcome = "ok"
  <2>1. view'[p].step[k] = V /\ Replay'.step[k] = R
    BY <1>9, <1>11
  <2>2. \A c \in claims[p] :
          ClaimHolds(c.key, c.epoch, view'[p].step[c.key], Replay'.step[c.key])
    <3>1. ASSUME NEW c \in claims[p], c.key = k
          PROVE  ClaimHolds(k, c.epoch, V, R)
      <4>1. ClaimHolds(k, c.epoch, v, r) /\ c.epoch \in Nat
        BY <1>5, <1>10, <3>1
      <4> HIDE DEF v, r, V, R
      <4>2. CASE rec.kind = "claimed"
        <5>1. v.highest < V.highest /\ V.highest \in Nat
          <6>1. V \in StepViews
            BY <1>4, FoldType DEF V
          <6>2. QED
            BY <1>7, <4>2, <6>1, ViewEpochs
        <5>2. c.epoch < V.highest
          BY <1>10, <4>1, <5>1 DEF ClaimHolds
        <5>3. QED
          BY <4>1, <5>1, <5>2 DEF ClaimHolds
      <4>3. CASE rec.kind # "claimed"
        BY <1>7, <4>1, <4>3 DEF ClaimHolds
      <4>4. QED
        BY <4>2, <4>3
    <3>2. QED
      BY <1>1, <1>6, <1>8, <2>1, <3>1, ClaimsStay
  <2>3. \A j \in refenced :
          /\ RefenceHolds(j, view'[p].step[j], Replay'.step[j], granted[j])
          /\ j \in Steps
    <3>1. ASSUME NEW j \in job[p].refenced
          PROVE  /\ RefenceHolds(j, view'[p].step[j], Replay'.step[j], granted[j])
                 /\ j \in Steps
      <4>1. j # k /\ j \in Steps
        BY <1>1, <1>5
      <4>2. QED
        BY <1>5, <1>9, <4>1
    <3>2. CASE rec.kind = "claimed"
      <4>1. RefenceHolds(k, view'[p].step[k], Replay'.step[k], granted[k])
        BY <1>7, <2>1, <3>2
      <4>2. QED
        BY <1>3, <3>1, <3>2, <4>1
    <3>3. CASE rec.kind # "claimed"
      BY <3>1, <3>3
    <3>4. QED
      BY <3>2, <3>3
  <2>4. \A j \in rest : view'[p].step[j].state \in {"claimed", "launched"}
    BY <1>1, <1>5, <1>9
  <2>5. rest \cap refenced = {} /\ (k \in refenced <=> rec.kind = "claimed")
    BY <1>5
  <2> HIDE DEF V, R, v, r, rest, refenced
  <2>6. CASE rest # {}
    <3>1. /\ job' = [job EXCEPT ![p] = Recovering(rest, refenced)]
          /\ claims' = claims /\ granted' = granted
      <4>1. job' = [job EXCEPT ![p] = Recovering(rest, refenced)]
        BY <1>2, <1>6, <1>11, <2>6 DEF rest, refenced, v
      <4>2. claims' = [claims EXCEPT ![p] = claims[p]]
        BY <1>2, <1>11, <2>6 DEF rest
      <4>3. granted' = [j \in Steps |-> granted[j]]
        BY <1>2, <2>6 DEF rest
      <4>4. QED
        BY <1>1, <4>1, <4>2, <4>3 DEF TypeOK
    <3>2. /\ job'[p] = Recovering(rest, refenced)
          /\ \A q \in Processes \ {p} : job'[q] = job[q]
      BY <1>1, <3>1 DEF TypeOK
    <3>3. /\ job'[p].what = "recovering" /\ job'[p].todo = rest
          /\ job'[p].refenced = refenced /\ Up(p)'
      BY <3>2 DEF Recovering, Job, Up, Down
    <3>4. JobHolds(p)'
      BY <2>2, <2>3, <2>4, <2>5, <3>1, <3>3 DEF JobHolds
    <3>5. Holds(k, view[p].step[k], Replay.step[k], granted[k], calls[k],
                cleared[k])'
      BY <1>3, <1>7, <2>1, <3>1
    <3>6. QED
      BY <1>1, <1>3, <1>6, <1>8, <3>1, <3>2, <3>3, <3>4, <3>5, StepWritten
  <2>7. CASE rest = {}
    <3>1. /\ job' = [job EXCEPT ![p] = Idle]
          /\ claims' = [claims EXCEPT ![p] =
                          claims[p] \cup ClaimsOf(view'[p], refenced)]
          /\ granted' = [j \in Steps |->
                IF j \in refenced THEN view'[p].step[j].highest
                                  ELSE granted[j]]
      <4>1. job' = [job EXCEPT ![p] = Idle]
        BY <1>2, <2>7 DEF rest
      <4>2. claims' = [claims EXCEPT ![p] =
                         claims[p] \cup ClaimsOf(view'[p], refenced)]
        BY <1>2, <1>6, <1>11, <2>7 DEF rest, refenced, v
      <4>3. granted' = [j \in Steps |->
                IF j \in refenced THEN view'[p].step[j].highest
                                  ELSE granted[j]]
        BY <1>2, <1>6, <1>11, <2>7 DEF rest, refenced, v
      <4>4. QED
        BY <4>1, <4>2, <4>3
    <3>2. /\ job'[p] = Idle
          /\ claims'[p] = claims[p] \cup ClaimsOf(view'[p], refenced)
          /\ \A q \in Processes \ {p} : job'[q] = job[q]
                                        /\ claims'[q] = claims[q]
      BY <1>1, <3>1 DEF TypeOK
    <3>3. job'[p].what = "idle" /\ Up(p)'
      BY <3>2 DEF Idle, Job, Up, Down
    <3>4. ASSUME NEW c \in ClaimsOf(view'[p], refenced)
          PROVE  ClaimHolds(c.key, c.epoch, view'[p].step[c.key],
                            Replay'.step[c.key])
      <4>1. PICK j \in refenced : c = Claim(j, view'[p].step[j].highest)
        BY <3>4 DEF ClaimsOf
      <4>2. c.key = j /\ c.epoch = view'[p].step[j].highest
        BY <4>1 DEF Claim
      <4>3. view'[p].step[j].highest \in Nat
        <5>1. view'[p].step[j] \in StepViews
          <6>1. view' \in [Processes -> Folds] /\ j \in Steps
            BY <2>3 DEF TypeOK
          <6>2. view'[p].step \in [Steps -> StepViews]
            BY <6>1 DEF Folds
          <6>3. QED
            BY <6>1, <6>2
        <5>2. QED
          BY <5>1, ViewEpochs
      <4>4. QED
        BY <2>3, <4>2, <4>3 DEF RefenceHolds, ClaimHolds
    <3>5. JobHolds(p)'
      BY <2>2, <3>2, <3>3, <3>4 DEF JobHolds
    <3>6. Holds(k, view[p].step[k], Replay.step[k], granted[k], calls[k],
                cleared[k])'
      <4>1. granted'[k] = IF k \in refenced THEN V.highest ELSE granted[k]
        BY <1>3, <2>1, <3>1
      <4>2. QED
        BY <1>3, <1>7, <2>1, <2>5, <4>1
    <3>7. \A j \in Steps : j # k =>
            granted'[j] \in {granted[j], view[p].step[j].highest}
      BY <1>9, <3>1
    <3>8. QED
      BY <1>1, <1>3, <1>6, <1>8, <3>2, <3>3, <3>5, <3>6, <3>7, StepWritten
  <2>8. QED
    BY <2>6, <2>7
<1>12. CASE outcome # "ok"
  <2>1. /\ job' = [job EXCEPT ![p] = Idle]
        /\ claims' = [claims EXCEPT ![p] = LeftAfterFailure(p, k)]
        /\ granted' = [j \in Steps |-> granted[j]]
    <3>1. claims' = [claims EXCEPT ![p] = LeftAfterFailure(p, k)]
      BY <1>2, <1>12
    <3>2. QED
      BY <1>2, <1>12, <3>1
  <2>2. /\ job'[p] = Idle /\ claims'[p] = LeftAfterFailure(p, k)
        /\ granted' = granted
        /\ \A q \in Processes \ {p} : job'[q] = job[q] /\ claims'[q] = claims[q]
    BY <1>1, <2>1 DEF TypeOK
  <2>3. job'[p].what = "idle" /\ Up(p)'
    BY <2>2 DEF Idle, Job, Up, Down
  <2>4. view'[p].step[k] = v /\ (Replay'.step[k] = r \/ Replay'.step[k] = R)
    BY <1>9, <1>12
  <2> HIDE DEF v, r, V, R
  <2>5. Holds(k, view[p].step[k], Replay.step[k], granted[k], calls[k],
              cleared[k])'
    BY <1>3, <1>4, <1>7, <2>2, <2>4
  <2>6. JobHolds(p)'
    <3>1. LeftAfterFailure(p, k) \in SUBSET claims[p]
      BY DEF LeftAfterFailure
    <3>2. ASSUME NEW c \in LeftAfterFailure(p, k), c.key = k
          PROVE  ClaimHolds(k, c.epoch, view'[p].step[k], Replay'.step[k])
      <4>1. k \notin Careful /\ c \in claims[p]
        BY <3>2 DEF LeftAfterFailure
      <4>2. ClaimHolds(k, c.epoch, v, r)
        BY <1>5, <3>2, <4>1 DEF v, r
      <4>3. QED
        BY <2>4, <4>1, <4>2 DEF ClaimHolds
    <3>3. \A c \in LeftAfterFailure(p, k) :
            ClaimHolds(c.key, c.epoch, view'[p].step[c.key], Replay'.step[c.key])
      BY <1>1, <1>6, <1>8, <3>1, <3>2, ClaimsStay
    <3>4. QED
      BY <2>2, <2>3, <3>3 DEF JobHolds
  <2>7. QED
    BY <1>1, <1>3, <1>6, <1>8, <2>2, <2>3, <2>5, <2>6, StepWritten
<1>13. QED
  BY <1>11, <1>12

LEMMA CancelInv ==
  ASSUME IInv, ~spoiled', NEW p \in Processes,
         NEW outcome \in WriteOutcomes, RequestCancel(p, outcome)
  PROVE  LogInv'
<1>1. /\ Append(p, CancelRecord, outcome) /\ job[p] = Idle
      /\ stopped' = (stopped \/ outcome = "ok")
      /\ UNCHANGED <<job, claims, calls, cleared, granted>>
  BY DEF RequestCancel
<1>2. TypeOK /\ Up(p)
  BY <1>1 DEF IInv, Up, Idle, Down, Job
<1>3. /\ ~spoiled
      /\ Replay' = IF outcome \in {"nothing", "partial"} THEN Replay
                   ELSE Apply(Replay, CancelRecord)
      /\ view' = IF outcome = "ok"
                 THEN [view EXCEPT ![p] = Apply(view[p], CancelRecord)] ELSE view
  BY <1>1, <1>2, AppendReads
<1>4. LogInv /\ Replay \in Folds /\ view \in [Processes -> Folds]
  BY <1>2, <1>3, ReplayType DEF IInv, TypeOK
<1>5. /\ Replay'.step = Replay.step /\ view'[p].step = view[p].step
      /\ Replay'.cancelled = (Replay.cancelled
                                \/ outcome \notin {"nothing", "partial"})
      /\ view'[p].cancelled = (view[p].cancelled \/ outcome = "ok")
      /\ \A q \in Processes : q # p => view'[q] = view[q]
  <2>1. view[p] \in Folds
    BY <1>4
  <2>2. /\ Apply(Replay, CancelRecord).step = Replay.step
        /\ Apply(Replay, CancelRecord).cancelled = TRUE
        /\ Apply(view[p], CancelRecord).step = view[p].step
        /\ Apply(view[p], CancelRecord).cancelled = TRUE
    BY <1>4, <2>1, ApplyCancel DEF Apply, CancelRecord, Rec, Folds
  <2>3. view'[p] = IF outcome = "ok" THEN Apply(view[p], CancelRecord)
                   ELSE view[p]
    BY <1>3, <1>4
  <2>4. Replay.cancelled \in BOOLEAN /\ view[p].cancelled \in BOOLEAN
    BY <1>4, <2>1 DEF Folds
  <2>5. QED
    BY <1>3, <1>4, <2>2, <2>3, <2>4
<1>6. \A q \in Processes : view'[q].step = view[q].step /\ (Up(q)' <=> Up(q))
  BY <1>1, <1>5 DEF Up
<1>7. \A q \in Processes : Up(q) => q = p
  BY <1>2, <1>4 DEF LogInv, OneUp
<1>8. OneUp' /\ StepsHold'
  BY <1>1, <1>4, <1>5, <1>6 DEF LogInv, OneUp, StepsHold
<1>9. CancelKnown'
  BY <1>1, <1>2, <1>4, <1>5, <1>6, <1>7 DEF LogInv, CancelKnown
<1>10. \A q \in Processes : JobHolds(q)'
  <2>1. ASSUME NEW q \in Processes
        PROVE  JobHolds(q)'
    <3>1. JobHolds(q)
      BY <1>4 DEF LogInv
    <3>2. view'[q].step = view[q].step
      BY <1>6
    <3>3. QED
      BY <1>1, <1>5, <3>1, <3>2 DEF JobHolds
  <2>2. QED
    BY <2>1
<1>11. QED
  BY <1>8, <1>9, <1>10 DEF LogInv

\* A step of process p that writes nothing.
LEMMA SilentInv ==
  ASSUME IInv, ~spoiled, NEW p \in Processes,
         UNCHANGED <<disk, tail, calls, cleared, granted, stopped>>,
         \A q \in Processes \ {p} :
           job'[q] = job[q] /\ view'[q] = view[q] /\ claims'[q] = claims[q],
         OneUp',
         Up(p)' =>
           /\ \A k \in Steps :
                MemoryHolds(k, view'[p].step[k], Replay.step[k], granted[k],
                            calls[k], cleared[k])
           /\ view'[p].cancelled => Replay.cancelled
           /\ stopped => view'[p].cancelled,
         JobHolds(p)'
  PROVE  LogInv'
<1>1. LogInv /\ Replay' = Replay
  BY DEF IInv, Replay
<1>2. \A q \in Processes \ {p} : Up(q)' <=> Up(q)
  BY DEF Up
<1>3. StepsHold'
  BY <1>1, <1>2 DEF LogInv, StepsHold
<1>4. CancelKnown'
  BY <1>1, <1>2 DEF LogInv, CancelKnown
<1>5. \A q \in Processes : JobHolds(q)'
  <2>1. ASSUME NEW q \in Processes \ {p}
        PROVE  JobHolds(q)'
    <3>1. JobHolds(q)
      BY <1>1 DEF LogInv
    <3>2. /\ job'[q] = job[q] /\ view'[q] = view[q] /\ claims'[q] = claims[q]
          /\ granted' = granted
      OBVIOUS
    <3>3. QED
      BY <1>1, <3>1, <3>2 DEF JobHolds
  <2>2. QED
    BY <2>1
<1>6. QED
  BY <1>3, <1>4, <1>5 DEF LogInv

\* A process that opens the log knows what is in it.
LEMMA OpenInv ==
  ASSUME Exclusive, IInv, ~spoiled, NEW p \in Processes, Open(p)
  PROVE  LogInv'
<1>1. /\ job' = [job EXCEPT ![p] = Idle] /\ view' = [view EXCEPT ![p] = Replay]
      /\ \A q \in Processes : ~Up(q)
      /\ UNCHANGED <<disk, tail, claims, calls, cleared, granted, stopped>>
  BY DEF Open, log, history, Up
<1>2. TypeOK /\ LogInv
  BY DEF IInv
<1>3. /\ job'[p] = Idle /\ view'[p] = Replay /\ claims' = claims
      /\ \A q \in Processes \ {p} : job'[q] = job[q] /\ view'[q] = view[q]
      /\ job'[p].what = "idle" /\ claims[p] = {}
  BY <1>1, <1>2 DEF TypeOK, Idle, Job, LogInv, OneUp
<1>4. OneUp'
  BY <1>1, <1>2, <1>3 DEF LogInv, OneUp, Up
<1>5. ASSUME NEW k \in Steps
      PROVE  MemoryHolds(k, Replay.step[k], Replay.step[k], granted[k], calls[k],
                         cleared[k])
  <2> DEFINE r == Replay.step[k]
  <2>1. LogHolds(k, r, granted[k], calls[k], cleared[k])
    BY <1>2 DEF LogInv, StepsHold
  <2>2. r.highest \in Nat
    <3>1. Replay \in Folds
      BY <1>2, ReplayType DEF TypeOK
    <3>2. r \in StepViews
      BY <3>1 DEF Folds
    <3>3. QED
      BY <3>2, ViewEpochs
  <2> HIDE DEF r
  <2>3. Lags(r, r) /\ Behind(r, r)
    BY <2>2 DEF Lags, Behind
  <2>4. QED
    BY <2>1, <2>3 DEF LogHolds, MemoryHolds, r
<1>6. stopped => Replay.cancelled
  BY <1>2 DEF LogInv, CancelKnown
<1>7. JobHolds(p)'
  BY <1>3 DEF JobHolds
<1>8. QED
  BY <1>1, <1>3, <1>4, <1>5, <1>6, <1>7, SilentInv

\* Nothing but the file is left of a process that dies.
LEMMA CrashInv ==
  ASSUME IInv, ~spoiled, NEW p \in Processes, Crash(p)
  PROVE  LogInv'
<1>1. /\ job' = [job EXCEPT ![p] = Down] /\ view' = [view EXCEPT ![p] = Empty]
      /\ claims' = [claims EXCEPT ![p] = {}]
      /\ UNCHANGED <<disk, tail, calls, cleared, granted, stopped>>
  BY DEF Crash, log, history
<1>2. TypeOK /\ LogInv
  BY DEF IInv
<1>3. /\ job'[p] = Down /\ claims'[p] = {} /\ job'[p].what = "down" /\ ~Up(p)'
      /\ \A q \in Processes \ {p} :
           job'[q] = job[q] /\ view'[q] = view[q] /\ claims'[q] = claims[q]
  BY <1>1, <1>2 DEF TypeOK, Down, Job, Up
<1>4. OneUp'
  BY <1>2, <1>3 DEF LogInv, OneUp, Up
<1>5. JobHolds(p)'
  BY <1>3 DEF JobHolds
<1>6. QED
  BY <1>1, <1>3, <1>4, <1>5, SilentInv

\* A process that is up turns to another job.
LEMMA TurnInv ==
  ASSUME IInv, ~spoiled, NEW p \in Processes, Up(p), NEW j,
         job' = [job EXCEPT ![p] = j], j # Down,
         UNCHANGED <<disk, tail, view, claims, calls, cleared, granted, stopped>>,
         \/ j.what = "idle"
         \/ /\ j.what = "recovering" /\ j.refenced = {}
            /\ \A k \in j.todo : view[p].step[k].state \in {"claimed", "launched"}
  PROVE  LogInv'
<1>1. TypeOK /\ LogInv /\ Replay' = Replay
  BY DEF IInv, Replay
<1>2. job'[p] = j /\ \A q \in Processes \ {p} : job'[q] = job[q]
  BY <1>1 DEF TypeOK
<1>3. OneUp'
  BY <1>1, <1>2 DEF LogInv, OneUp, Up
<1>4. JobHolds(p)'
  BY <1>1, <1>2 DEF LogInv, JobHolds
<1>5. /\ \A k \in Steps :
           MemoryHolds(k, view[p].step[k], Replay.step[k], granted[k], calls[k],
                       cleared[k])
      /\ view[p].cancelled => Replay.cancelled
      /\ stopped => view[p].cancelled
  BY <1>1 DEF LogInv, StepsHold, CancelKnown
<1>6. QED
  BY <1>2, <1>3, <1>4, <1>5, SilentInv

\* Every step of the system keeps the types, and what is spoiled is spoiled.
LEMMA NextType ==
  ASSUME TypeOK, [Next]_vars
  PROVE  TypeOK' /\ (spoiled => spoiled')
<1>1. CASE \E p \in Processes : Process(p)
  BY <1>1, ProcessType
<1>2. ASSUME NEW k \in Steps, Expire(k)
      PROVE  TypeOK' /\ (spoiled => spoiled')
  BY <1>2 DEF Expire, log, history, TypeOK
<1>3. CASE UNCHANGED vars
  BY <1>3 DEF vars, TypeOK
<1>4. QED
  BY <1>1, <1>2, <1>3 DEF Next

LEMMA NextIInv ==
  ASSUME Exclusive, IInv, [Next]_vars
  PROVE  IInv'
<1>1. TypeOK' /\ (spoiled => spoiled')
  BY NextType DEF IInv
<1> SUFFICES ASSUME ~spoiled'
             PROVE  LogInv'
  BY <1>1 DEF IInv
<1>2. ~spoiled /\ LogInv /\ TypeOK
  BY <1>1 DEF IInv
<1>3. ASSUME NEW p \in Processes, Process(p)
      PROVE  LogInv'
  <2>1. CASE Abandon(p)
    <3>1. /\ Up(p) /\ job' = [job EXCEPT ![p] = Idle]
          /\ UNCHANGED <<disk, tail, view, claims, calls, cleared, granted,
                         stopped>>
      BY <2>1 DEF Abandon, log, history, Up, Down, Job
    <3>2. Idle # Down /\ Idle.what = "idle"
      BY DEF Idle, Down, Job
    <3>3. QED
      BY <1>2, <3>1, <3>2, TurnInv
  <2>2. CASE Recover(p)
    <3> DEFINE lost == {k \in Steps :
                          view[p].step[k].state \in {"claimed", "launched"}}
    <3>1. /\ Up(p) /\ job' = [job EXCEPT ![p] = Recovering(lost, {})]
          /\ UNCHANGED <<disk, tail, view, claims, calls, cleared, granted,
                         stopped>>
      BY <2>2 DEF Recover, log, history, Up, Idle, Down, Job
    <3>2. /\ Recovering(lost, {}) # Down
          /\ Recovering(lost, {}).what = "recovering"
          /\ Recovering(lost, {}).refenced = {}
          /\ Recovering(lost, {}).todo = lost
      BY DEF Recovering, Down, Job
    <3>3. QED
      BY <1>2, <3>1, <3>2, TurnInv
  <2>3. QED
    BY <1>1, <1>2, <1>3, <2>1, <2>2, OpenInv, CrashInv, CancelInv, LaunchInv,
       SettleInv, RecoverNextInv, FreezeInv, AdmitInv, ReconcileInv DEF Process
<1>4. ASSUME UNCHANGED <<disk, tail, view, job, claims, calls, cleared, granted,
                         stopped>>
      PROVE  LogInv'
  <2>1. Replay' = Replay
    BY <1>4 DEF Replay
  <2>2. OneUp' /\ StepsHold' /\ CancelKnown'
    BY <1>2, <1>4, <2>1 DEF LogInv, OneUp, StepsHold, CancelKnown, Up
  <2>3. \A p \in Processes : JobHolds(p)'
    BY <1>2, <1>4, <2>1 DEF LogInv, JobHolds
  <2>4. QED
    BY <2>2, <2>3 DEF LogInv
<1>5. CASE \E k \in Steps : Expire(k)
  BY <1>4, <1>5 DEF Expire, log, history
<1>6. CASE UNCHANGED vars
  BY <1>4, <1>6 DEF vars
<1>7. QED
  BY <1>3, <1>5, <1>6 DEF Next

(***************************************************************************)
(* The theorems                                                            *)
(***************************************************************************)

\* The types hold of every log, torn and spoiled ones included, and of any
\* number of processes that write it at the same time.
THEOREM TypeCorrect == Spec => []TypeOK
<1>1. Init => TypeOK
  BY InitIInv DEF IInv
<1>2. TypeOK /\ [Next]_vars => TypeOK'
  BY NextType
<1>3. QED
  BY <1>1, <1>2, PTL DEF Spec

\* The inductive invariant holds in every state that one process at a time
\* reaches, whatever appends fail and wherever writes stop.
THEOREM Invariance ==
  ASSUME Exclusive
  PROVE  Spec => []IInv
<1>1. IInv /\ [Next]_vars => IInv'
  BY NextIInv
<1>2. QED
  BY InitIInv, <1>1, PTL DEF Spec

\* What `append` has returned for is what `open` will fold: a frozen step, a
\* fence, a launch, an uncertainty, an answer and a cancellation in memory are
\* in the log, or have been overtaken by a line of the same process. This is
\* so over torn writes as well, until a record is written behind one.
THEOREM CommitsSurvive ==
  ASSUME Exclusive
  PROVE  Spec => []CommitSurvives
<1>1. IInv => CommitSurvives
  <2> SUFFICES ASSUME IInv, ~spoiled, NEW p \in Processes, Up(p)
               PROVE  /\ \A k \in Careful :
                           Kept(view[p].step[k], Replay.step[k], k)
                      /\ view[p].cancelled => Replay.cancelled
    BY DEF CommitSurvives, Survives
  <2>1. view[p].cancelled => Replay.cancelled
    BY DEF IInv, LogInv, CancelKnown
  <2>2. ASSUME NEW k \in Careful
        PROVE  Kept(view[p].step[k], Replay.step[k], k)
    <3> DEFINE v == view[p].step[k]
               r == Replay.step[k]
    <3>1. /\ v \in StepViews /\ r \in StepViews
          /\ Holds(k, v, r, granted[k], calls[k], cleared[k])
      <4>1. k \in Steps
        OBVIOUS
      <4>2. QED
        BY <4>1, AtStep
    <3> HIDE DEF v, r
    <3>2. /\ Lags(v, r) /\ Behind(v, r) /\ Sound(r, calls[k], cleared[k])
      BY <3>1 DEF Holds, LogHolds, MemoryHolds
    <3>3. v.state = "settled" => r = v
      BY <3>2 DEF Behind
    <3>4. ASSUME NEW a \in Answers,
                 r = [v EXCEPT !.state = "settled", !.answer = a]
          PROVE  r.state = "settled"
      BY <3>1, <3>4 DEF StepViews
    <3>5. v.state = "launched" => r.state \in {"launched", "uncertain", "settled"}
      BY <3>1, <3>2, <3>4 DEF Behind, StepViews
    <3>6. v.state = "uncertain" =>
            r.state \in {"uncertain", "settled", "pending"}
      BY <3>1, <3>2, <3>4 DEF Behind, StepViews
    <3>7. Kept(v, r, k)
      BY <3>2, <3>3, <3>5, <3>6 DEF Kept, Lags, Sound
    <3>8. QED
      BY <3>7 DEF v, r
  <2>3. QED
    BY <2>1, <2>2
<1>2. QED
  BY <1>1, Invariance, PTL

\* A step costs one provider call until a recorded decision has cleared it.
THEOREM OneCallPerStep ==
  ASSUME Exclusive
  PROVE  Spec => []CallsOnce
<1>1. IInv => CallsOnce
  BY DEF IInv, LogInv, StepsHold, LogHolds, CallsOnce
<1>2. QED
  BY <1>1, Invariance, PTL

\* `admit` and a recovery that ends are the only steps that hand out epochs,
\* and these are above the fence, which no earlier grant exceeds.
LEMMA GrantStep ==
  ASSUME IInv, ~spoiled, [Next]_vars, NEW p \in Processes,
         NEW c \in claims'[p] \ claims[p]
  PROVE  granted[c.key] < c.epoch /\ (job[p] = Idle => ~stopped)
<1>1. TypeOK /\ LogInv
  BY DEF IInv
<1>2. Process(p)
  <2>1. claims'[p] # claims[p]
    OBVIOUS
  <2>2. claims' # claims
    BY <2>1
  <2>3. PICK q \in Processes : Process(q)
    BY <2>2 DEF Next, Expire, vars
  <2>4. q # p => claims'[p] = claims[p]
    BY <1>1, <2>3, ProcessType
  <2>5. QED
    BY <2>1, <2>3, <2>4
<1>3. \/ \E k \in Steps, outcome \in WriteOutcomes : Admit(p, k, outcome)
      \/ \E outcome \in WriteOutcomes : RecoverNext(p, outcome)
  <2>1. ~(Open(p) \/ Crash(p) \/ Abandon(p) \/ Recover(p))
    BY <1>1 DEF Open, Crash, Abandon, Recover, TypeOK
  <2>2. \A outcome \in WriteOutcomes :
          /\ ~RequestCancel(p, outcome)
          /\ \A a : ~Settle(p, a, outcome)
          /\ \A k \in Steps : ~Freeze(p, k, outcome)
          /\ \A k \in Steps : \A d : ~Reconcile(p, k, d, outcome)
    BY DEF RequestCancel, Settle, Freeze, Reconcile
  <2>3. \A outcome \in WriteOutcomes : \A b : ~Launch(p, b, outcome)
    BY <1>1 DEF Launch, TypeOK
  <2>4. QED
    BY <1>2, <2>1, <2>2, <2>3 DEF Process
<1>4. ASSUME NEW k \in Steps, NEW outcome \in WriteOutcomes,
             Admit(p, k, outcome)
      PROVE  granted[c.key] < c.epoch /\ (job[p] = Idle => ~stopped)
  <2>1. /\ job[p] = Idle /\ ~view[p].cancelled /\ Up(p)
    BY <1>4 DEF Admit, Admissible, Up, Idle, Down, Job
  <2>2. outcome = "ok"
    BY <1>1, <1>4 DEF Admit, LeftAfterFailure, TypeOK
  <2>3. claims' = [claims EXCEPT ![p] =
                     claims[p] \cup {Claim(k, NextEpoch(p, k))}]
    BY <1>4, <2>2 DEF Admit
  <2>4. c = Claim(k, NextEpoch(p, k))
    BY <1>1, <2>3 DEF TypeOK
  <2>5. c.key = k /\ c.epoch = view[p].step[k].highest + 1
    BY <2>4 DEF Claim, NextEpoch
  <2>6. /\ granted[k] <= view[p].step[k].highest
        /\ granted[k] \in Nat /\ view[p].step[k].highest \in Nat
    BY <2>1, AtStep, ViewEpochs DEF Holds, MemoryHolds, Fenced
  <2>7. ~stopped
    BY <1>1, <2>1 DEF LogInv, CancelKnown
  <2>8. QED
    BY <2>5, <2>6, <2>7
<1>5. ASSUME NEW outcome \in WriteOutcomes, RecoverNext(p, outcome)
      PROVE  granted[c.key] < c.epoch /\ (job[p] = Idle => ~stopped)
  <2>1. /\ job[p].what = "recovering" /\ Up(p) /\ job[p] # Idle
        /\ job[p].todo \in SUBSET Steps /\ job[p].refenced \in SUBSET Steps
    BY <1>1, <1>5, JobNames DEF TypeOK, RecoverNext, Up
  <2>2. PICK k \in job[p].todo :
          LET rec == RecoveryOf(view[p].step[k], k)
              rest == job[p].todo \ {k}
              refenced == job[p].refenced
                            \cup (IF rec.kind = "claimed" THEN {k} ELSE {})
              done == outcome = "ok" /\ rest = {}
          IN /\ rec.epoch <= MaxEpoch
             /\ Append(p, rec, outcome)
             /\ claims' = [claims EXCEPT ![p] =
                  CASE outcome # "ok" -> LeftAfterFailure(p, k)
                    [] done -> @ \cup ClaimsOf(view'[p], refenced)
                    [] OTHER -> @]
    BY <1>5 DEF RecoverNext
  <2> DEFINE v == view[p].step[k]
             rest == job[p].todo \ {k}
             rec == RecoveryOf(v, k)
             refenced == job[p].refenced
                           \cup (IF rec.kind = "claimed" THEN {k} ELSE {})
  <2>3. outcome = "ok"
    <3>1. CASE outcome # "ok"
      <4>1. claims' = [claims EXCEPT ![p] = LeftAfterFailure(p, k)]
        BY <2>2, <3>1
      <4>2. QED
        BY <1>1, <4>1 DEF LeftAfterFailure, TypeOK
    <3>2. QED
      BY <3>1
  <2>4. claims'[p] = IF rest = {} THEN claims[p] \cup ClaimsOf(view'[p], refenced)
                     ELSE claims[p]
    <3>1. CASE rest = {}
      <4>1. claims' = [claims EXCEPT ![p] =
                         claims[p] \cup ClaimsOf(view'[p], refenced)]
        BY <2>2, <2>3, <3>1
      <4>2. QED
        BY <1>1, <3>1, <4>1 DEF TypeOK
    <3>2. CASE rest # {}
      <4>1. claims' = [claims EXCEPT ![p] = claims[p]]
        BY <2>2, <2>3, <3>2
      <4>2. QED
        BY <1>1, <3>2, <4>1 DEF TypeOK
    <3>3. QED
      BY <3>1, <3>2
  <2>5. PICK j \in refenced : c = Claim(j, view'[p].step[j].highest)
    BY <2>4 DEF ClaimsOf
  <2>6. c.key = j /\ c.epoch = view'[p].step[j].highest
    BY <2>5 DEF Claim
  <2>7. k \in Steps /\ v.state \in {"claimed", "launched"} /\ rec.epoch <= MaxEpoch
    BY <1>1, <2>1, <2>2 DEF LogInv, JobHolds
  <2>8. /\ rec \in Records /\ rec.key = k
        /\ rec.kind = "claimed" =>
             RefenceHolds(k, Folded(v, rec),
                          Folded(Replay.step[k], rec), granted[k])
    <3> DEFINE r == Replay.step[k]
    <3>1. /\ v \in StepViews /\ r \in StepViews
          /\ Holds(k, v, r, granted[k], calls[k], cleared[k])
          /\ granted[k] \in Nat /\ calls[k] \in Nat /\ cleared[k] \in Nat
      BY <2>1, <2>7, AtStep
    <3> HIDE DEF v, r
    <3>2. QED
      BY <2>7, <3>1, RecoveryHolds DEF r
  <2> HIDE DEF rec
  <2>9. /\ view'[p].step[k] = Folded(v, rec)
        /\ \A i \in Steps : i # k => view'[p].step[i] = view[p].step[i]
    <3>1. view[p] \in Folds /\ view'[p] = Apply(view[p], rec)
      BY <1>1, <2>2, <2>3 DEF TypeOK, Append, rec
    <3>2. QED
      BY <2>8, <3>1, ApplyStep
  <2>10. CASE j = k
    <3>1. rec.kind = "claimed"
      <4>1. k \notin job[p].refenced
        BY <1>1, <2>1 DEF LogInv, JobHolds
      <4>2. QED
        BY <2>10, <4>1
    <3>2. QED
      BY <2>1, <2>6, <2>8, <2>9, <2>10, <3>1 DEF RefenceHolds
  <2>11. CASE j # k
    <3>1. j \in job[p].refenced /\ j \in Steps
      BY <2>1, <2>11
    <3>2. RefenceHolds(j, view[p].step[j], Replay.step[j], granted[j])
      BY <1>1, <2>1, <3>1 DEF LogInv, JobHolds
    <3>3. QED
      BY <2>1, <2>6, <2>9, <2>11, <3>1, <3>2 DEF RefenceHolds
  <2>12. QED
    BY <2>10, <2>11
<1>6. QED
  BY <1>3, <1>4, <1>5

\* Epochs of a step rise from grant to grant, over crashes, restarts and
\* recoveries and with any claims held back, and `admit` grants none behind a
\* cancellation that was committed.
THEOREM FencesRise ==
  ASSUME Exclusive
  PROVE  Spec => EpochsRise
<1>1. IInv /\ [Next]_vars =>
        [~spoiled =>
           \A p \in Processes : \A c \in claims'[p] \ claims[p] :
             granted[c.key] < c.epoch /\ (job[p] = Idle => ~stopped)]_vars
  BY GrantStep
<1>2. QED
  BY <1>1, Invariance, PTL DEF Spec, EpochsRise

\* What a restart reads of a step may change from `from` to `to` without a
\* decision, when the step is answered only if `newest`.
Ordinary(from, to, newest) ==
  \/ to = from
  \/ /\ from.state # "settled"
     /\ from.state = "uncertain" => to.state = "uncertain"
     /\ to.state = "settled" => newest

\* Every record but a decision meets an answer or an uncertainty at its fence,
\* or repeats the uncertainty.
LEMMA OutcomeStep ==
  ASSUME IInv, ~spoiled', [Next]_vars, NEW k \in Steps, ~Decides(k)
  PROVE  Ordinary(Replay.step[k], Replay'.step[k],
                  \E p \in Processes : CommitsNewest(p, k))
<1> DEFINE newest == \E p \in Processes : CommitsNewest(p, k)
           r == Replay.step[k]
           Goal == Ordinary(r, Replay'.step[k], newest)
<1> HIDE DEF newest
<1>1. TypeOK /\ ~spoiled /\ LogInv
  BY NextType DEF IInv
<1>2. Replay' = Replay => Goal
  BY DEF Ordinary
<1>3. UNCHANGED <<disk, tail>> => Goal
  BY <1>2 DEF Replay
\* A record about k, folded or not.
<1>4. ASSUME NEW p \in Processes, NEW rec \in Records,
             NEW outcome \in WriteOutcomes, Append(p, rec, outcome),
             rec.key = k => Ordinary(r, Folded(r, rec), newest)
      PROVE  Goal
  <2>1. /\ rec.key # k => Replay'.step[k] = r
        /\ rec.key = k => Replay'.step[k] = r \/ Replay'.step[k] = Folded(r, rec)
    BY <1>1, <1>4, AppendAt
  <2> HIDE DEF r
  <2>2. QED
    BY <1>4, <2>1 DEF Ordinary
<1>5. ASSUME NEW p \in Processes, Up(p), NEW j \in Steps
      PROVE  LET v == view[p].step[j]
                 x == Replay.step[j]
             IN /\ Fenced(v, granted[j]) /\ Fenced(x, granted[j]) /\ Lags(v, x)
                /\ v.highest \in Nat /\ x.highest \in Nat /\ granted[j] \in Nat
                /\ x \in StepViews /\ v \in StepViews
  BY <1>1, <1>5, AtStep, ViewEpochs DEF Holds, LogHolds, MemoryHolds
<1>6. ASSUME NEW p \in Processes, Process(p)
      PROVE  Goal
  <2>1. CASE Open(p) \/ Crash(p) \/ Abandon(p) \/ Recover(p)
    BY <1>3, <2>1 DEF Open, Crash, Abandon, Recover, log
  <2>2. ASSUME NEW outcome \in WriteOutcomes, RequestCancel(p, outcome)
        PROVE  Goal
    <3>1. Replay' = Replay \/ Replay' = Apply(Replay, CancelRecord)
      BY <1>1, <2>2, AppendReads DEF RequestCancel
    <3>2. Replay \in Folds
      BY <1>1, ReplayType DEF TypeOK
    <3>3. Replay'.step = Replay.step
      BY <3>1, <3>2, ApplyCancel
    <3>4. QED
      BY <3>3 DEF Ordinary
  <2>3. ASSUME NEW outcome \in WriteOutcomes, NEW c \in claims[p],
               Launch(p, c, outcome)
        PROVE  Goal
    <3>1. /\ Append(p, Rec("launched", c.key, c.epoch, "none"), outcome)
          /\ Up(p) /\ c \in Claims
      BY <1>1, <2>3 DEF Launch, Up, Idle, Down, Job, TypeOK
    <3>2. PICK j \in Steps, e \in Epochs : j = c.key /\ e = c.epoch /\ e \in Nat
      <4>1. c.key \in Steps /\ c.epoch \in Epochs
        BY <3>1 DEF Claims
      <4>2. c.epoch \in Nat
        BY <4>1 DEF Epochs
      <4>3. QED
        BY <4>1, <4>2
    <3> DEFINE rec == Rec("launched", j, e, "none")
               v == view[p].step[j]
               x == Replay.step[j]
    <3>3. rec \in Records /\ rec.key = j /\ Append(p, rec, outcome)
      BY <3>1, <3>2 DEF Rec, Records, Kinds, Answers
    <3>4. ClaimHolds(j, e, v, x) /\ Lags(v, x)
          /\ v.highest \in Nat /\ x.highest \in Nat
      BY <1>1, <1>5, <3>1, <3>2 DEF LogInv, JobHolds
    <3>5. Ordinary(x, Folded(x, rec), newest)
      <4> DEFINE X == Folded(x, rec)
      <4> HIDE DEF v, x
      <4>1. X = x \/ (e >= x.highest /\ x.state # "absent"
                      /\ X = [x EXCEPT !.state = "launched", !.epoch = e])
        BY <3>2, <3>4 DEF Folded, Advanced, FencedOut, Terminal, Rec
      <4>2. e >= x.highest => x.state \in {"pending", "claimed", "launched"}
        BY <3>2, <3>4 DEF ClaimHolds, Lags
      <4>3. CASE X = [x EXCEPT !.state = "launched", !.epoch = e]
                 /\ e >= x.highest
        <5>1. X.state = "launched"
          <6>1. x \in StepViews
            BY <1>5, <3>1 DEF x
          <6>2. QED
            BY <4>3, <6>1 DEF StepViews
        <5>2. QED
          BY <4>2, <4>3, <5>1 DEF Ordinary
      <4>4. QED
        BY <4>1, <4>3 DEF Ordinary
    <3> HIDE DEF rec
    <3>6. QED
      BY <1>4, <3>3, <3>5
  <2>4. ASSUME NEW outcome \in WriteOutcomes, NEW a \in {"succeeded", "failed"},
               Settle(p, a, outcome)
        PROVE  Goal
    <3>1. /\ Append(p, Rec("settled", job[p].key, job[p].epoch, a), outcome)
          /\ job[p].what = "running" /\ job[p] \in Jobs
      BY <1>1, <2>4 DEF Settle, TypeOK
    <3>2. PICK j \in Steps, e \in Epochs :
            j = job[p].key /\ e = job[p].epoch /\ e \in Nat
      BY <3>1, JobNames DEF Epochs
    <3>3. Up(p)
      BY <3>1, JobNames DEF Up
    <3> DEFINE rec == Rec("settled", j, e, a)
               v == view[p].step[j]
               x == Replay.step[j]
    <3>4. rec \in Records /\ rec.key = j /\ Append(p, rec, outcome)
      BY <3>1, <3>2 DEF Rec, Records, Kinds, Answers
    <3>5. /\ RunHolds(j, e, v, x) /\ Fenced(x, granted[j]) /\ granted[j] \in Nat
          /\ x.highest \in Nat /\ x \in StepViews
      BY <1>1, <1>5, <3>1, <3>2, <3>3 DEF LogInv, JobHolds
    <3>6. j = k => Ordinary(x, Folded(x, rec), newest)
      <4> DEFINE X == Folded(x, rec)
      <4>1. CASE e < x.highest
        <5> HIDE DEF x
        <5>1. X = x
          BY <4>1 DEF Folded, Advanced, FencedOut, Terminal, Rec
        <5>2. QED
          BY <5>1 DEF Ordinary
      <4>2. CASE ~(e < x.highest)
        <5>1. x.state = "launched" /\ granted[j] <= e
          BY <3>2, <3>5, <4>2 DEF RunHolds, Fenced
        <5>2. j = k => newest
          BY <2>4, <3>1, <3>2, <5>1 DEF newest, CommitsNewest
        <5>3. QED
          BY <5>1, <5>2 DEF Ordinary
      <4>3. QED
        BY <4>1, <4>2
    <3> HIDE DEF rec
    <3>7. QED
      BY <1>4, <3>4, <3>6
  <2>5. ASSUME NEW outcome \in WriteOutcomes, RecoverNext(p, outcome)
        PROVE  Goal
    <3>1. /\ job[p].what = "recovering" /\ Up(p) /\ job[p].todo \in SUBSET Steps
      BY <1>1, <2>5, JobNames DEF TypeOK, RecoverNext, Up
    <3>2. PICK j \in Steps :
            /\ j \in job[p].todo
            /\ RecoveryOf(view[p].step[j], j).epoch <= MaxEpoch
            /\ Append(p, RecoveryOf(view[p].step[j], j), outcome)
      BY <2>5, <3>1 DEF RecoverNext
    <3> DEFINE v == view[p].step[j]
               x == Replay.step[j]
    <3>3. v.state \in {"claimed", "launched"}
      BY <1>1, <3>1, <3>2 DEF LogInv, JobHolds
    <3>4. /\ v \in StepViews /\ x \in StepViews
          /\ Holds(j, v, x, granted[j], calls[j], cleared[j])
          /\ granted[j] \in Nat /\ calls[j] \in Nat /\ cleared[j] \in Nat
      BY <1>1, <3>1, AtStep
    <3>5. PICK rec \in Records : rec = RecoveryOf(v, j) /\ rec.key = j
      <4> HIDE DEF x
      <4>1. RecoveryOf(v, j) \in Records /\ RecoveryOf(v, j).key = j
        BY <3>2, <3>3, <3>4, RecoveryHolds
      <4>2. QED
        BY <4>1
    <3>6. Ordinary(x, Folded(x, rec), newest)
      <4> DEFINE X == Folded(x, rec)
      <4> HIDE DEF v, x
      <4>1. Lags(v, x)
        BY <3>4 DEF Holds, MemoryHolds
      <4>2. CASE v.state = "claimed"
        <5>1. rec.kind = "claimed"
          BY <3>5, <4>2 DEF RecoveryOf, Rec
        <5>2. x.state \in {"pending", "claimed", "launched"}
          BY <4>1, <4>2 DEF Lags
        <5>3. X = x \/ X = Claimed(x, rec.epoch)
          BY <5>1, <5>2 DEF Folded, Advanced
        <5>4. X.state # "settled"
          BY <3>4, <5>2, <5>3 DEF Claimed, StepViews
        <5>5. QED
          BY <5>2, <5>4 DEF Ordinary
      <4>3. CASE v.state = "launched"
        <5>1. rec.kind = "uncertain"
          BY <3>5, <4>3 DEF RecoveryOf, Rec
        <5>2. x.state # "absent"
          BY <4>1, <4>3 DEF Lags
        <5>3. X = MarkedUncertain(x, rec.epoch)
          BY <5>1, <5>2 DEF Folded, Advanced
        <5>4. X = x \/ (x.state # "settled" /\ X.state = "uncertain")
          BY <3>4, <5>3 DEF MarkedUncertain, Terminal, StepViews
        <5>5. QED
          BY <5>4 DEF Ordinary
      <4>4. QED
        BY <3>3, <4>2, <4>3
    <3>7. Append(p, rec, outcome)
      BY <3>2, <3>5
    <3>8. QED
      BY <1>4, <3>5, <3>6, <3>7
  <2>6. ASSUME NEW outcome \in WriteOutcomes, NEW j \in Steps,
               Freeze(p, j, outcome)
        PROVE  Goal
    <3> DEFINE rec == Rec("frozen", j, 0, "none")
               x == Replay.step[j]
    <3>1. rec \in Records /\ rec.key = j /\ Append(p, rec, outcome)
      BY <2>6 DEF Freeze, Rec, Records, Kinds, Answers, Epochs
    <3>2. x \in StepViews
      BY <1>1, ReplayType DEF TypeOK, Folds
    <3>3. Ordinary(x, Folded(x, rec), newest)
      <4> HIDE DEF x
      <4>1. Folded(x, rec) =
              IF x.state = "absent" THEN [x EXCEPT !.state = "pending"] ELSE x
        BY DEF Folded, Rec
      <4>2. QED
        BY <3>2, <4>1 DEF Ordinary, StepViews
    <3> HIDE DEF rec
    <3>4. QED
      BY <1>4, <3>1, <3>3
  <2>7. ASSUME NEW outcome \in WriteOutcomes, NEW j \in Steps,
               Admit(p, j, outcome)
        PROVE  Goal
    <3> DEFINE v == view[p].step[j]
               x == Replay.step[j]
    <3>1. /\ Up(p) /\ v.state \in {"pending", "claimed"}
          /\ NextEpoch(p, j) <= MaxEpoch
          /\ Append(p, Rec("claimed", j, NextEpoch(p, j), "none"), outcome)
      BY <2>7 DEF Admit, Admissible, Up, Idle, Down, Job
    <3>2. v.highest \in Nat /\ Lags(v, x) /\ x \in StepViews
      BY <1>5, <3>1
    <3>3. PICK e \in Epochs : e = NextEpoch(p, j)
      BY <3>1, <3>2 DEF NextEpoch, Epochs
    <3> DEFINE rec == Rec("claimed", j, e, "none")
    <3>4. rec \in Records /\ rec.key = j /\ Append(p, rec, outcome)
      BY <3>1, <3>3 DEF Rec, Records, Kinds, Answers
    <3>5. Ordinary(x, Folded(x, rec), newest)
      <4> DEFINE X == Folded(x, rec)
      <4> HIDE DEF v, x
      <4>1. x.state \in {"pending", "claimed", "launched"}
        BY <3>1, <3>2 DEF Lags
      <4>2. X = x \/ X = Claimed(x, e)
        BY <4>1 DEF Folded, Advanced, Rec
      <4>3. X.state # "settled"
        BY <3>2, <4>1, <4>2 DEF Claimed, StepViews
      <4>4. QED
        BY <4>1, <4>3 DEF Ordinary
    <3> HIDE DEF rec
    <3>6. QED
      BY <1>4, <3>4, <3>5
  <2>8. ASSUME NEW outcome \in WriteOutcomes, NEW j \in Steps,
               NEW d \in Decisions, Reconcile(p, j, d, outcome)
        PROVE  Goal
    <3> DEFINE rec == Rec("reconciled", j, 0, d)
    <3>1. rec \in Records /\ rec.key = j /\ Append(p, rec, outcome)
      BY <2>8 DEF Reconcile, Rec, Records, Kinds, Decisions, Epochs
    <3>2. j # k
      BY <2>8 DEF Decides
    <3> HIDE DEF rec
    <3>3. QED
      BY <1>4, <3>1, <3>2
  <2> HIDE DEF Goal
  <2>9. QED
    BY <1>6, <2>1, <2>2, <2>3, <2>4, <2>5, <2>6, <2>7, <2>8 DEF Process
<1> HIDE DEF Goal
<1>7. ASSUME (\E j \in Steps : Expire(j)) \/ UNCHANGED vars
      PROVE  Goal
  BY <1>3, <1>7 DEF Expire, log, vars
<1>8. Goal
  BY <1>6, <1>7 DEF Next
<1>9. QED
  BY <1>8 DEF Goal, newest

\* What a restart would read as an answer was put there by the newest claim or
\* by a decision, and no late result, claim or recovery replaces it.
THEOREM AnswersAreFinal ==
  ASSUME Exclusive
  PROVE  Spec => AnswerIsFinal
<1>1. IInv /\ [Next]_vars =>
        [~spoiled' =>
           \A k \in Steps :
             Replay'.step[k] # Replay.step[k] =>
               /\ Replay.step[k].state = "settled" => Decides(k)
               /\ Replay'.step[k].state = "settled" =>
                    Decides(k) \/ \E p \in Processes : CommitsNewest(p, k)]_vars
  BY OutcomeStep DEF Ordinary
<1>2. QED
  BY <1>1, Invariance, PTL DEF Spec, AnswerIsFinal

\* Uncertain work is resolved by a recorded decision only.
THEOREM UncertaintyStays ==
  ASSUME Exclusive
  PROVE  Spec => UncertainStays
<1>1. IInv /\ [Next]_vars =>
        [~spoiled' =>
           \A k \in Steps :
             Replay.step[k].state = "uncertain" =>
               Replay'.step[k].state = "uncertain" \/ Decides(k)]_vars
  <2> SUFFICES ASSUME IInv, [Next]_vars, ~spoiled', NEW k \in Steps,
                      Replay.step[k].state = "uncertain", ~Decides(k)
               PROVE  Replay'.step[k].state = "uncertain"
    OBVIOUS
  <2>1. Ordinary(Replay.step[k], Replay'.step[k],
                 \E p \in Processes : CommitsNewest(p, k))
    BY OutcomeStep
  <2>2. QED
    BY <2>1 DEF Ordinary
<1>2. QED
  BY <1>1, Invariance, PTL DEF Spec, UncertainStays

=============================================================================
