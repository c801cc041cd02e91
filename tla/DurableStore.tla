---------------------------- MODULE DurableStore ----------------------------
(***************************************************************************)
(* The durable host of examples/apalis-durable: the append-only log of     *)
(* src/store.rs, and the admission, execution and recovery of src/main.rs. *)
(*                                                                         *)
(* A process folds the log into memory when it opens the store, folds what *)
(* it appends itself, and never reads the log again. The store is borrowed *)
(* mutably across `admit`, `execute` and `recover_lost`, so a process does *)
(* one thing at a time, but it may hold claims that it has not executed    *)
(* while it does another; two processes share nothing but the file.        *)
(*                                                                         *)
(* The log is represented by what replaying it yields: `disk` is the fold  *)
(* of its terminated lines, `tail` what follows the last newline. A job    *)
(* reference with another schema or another fingerprint than the frozen    *)
(* one is refused and changes nothing, so deliveries here are those that   *)
(* match. One run is modelled, hence one cancellation flag.                *)
(***************************************************************************)
EXTENDS Integers, FiniteSets

CONSTANTS
  Steps,       \* StepKeys of the run; their order is the BTreeMap's
  Processes,   \* host processes that may open the log
  MaxEpoch,    \* bound on the fencing epochs that are handed out
  MaxCalls,    \* bound on the provider calls per step
  Careful,     \* steps of which a host executes its newest claim only
  Exclusive,   \* a process opens the log only when no other one is up
  TornWrites   \* a write may stop in the middle of a line

ASSUME StepsAssumption == Steps \subseteq Nat /\ IsFiniteSet(Steps)

ASSUME BoundsAssumption == MaxEpoch \in Nat \ {0} /\ MaxCalls \in Nat \ {0}

ASSUME ModesAssumption ==
  Careful \subseteq Steps /\ Exclusive \in BOOLEAN /\ TornWrites \in BOOLEAN

VARIABLES
  disk,      \* the fold of the terminated lines of the log
  tail,      \* Clean, Garbage, or a complete record without its newline
  view,      \* view[p]: the fold in the memory of process p
  job,       \* job[p]: what process p is doing
  claims,    \* claims[p]: claims that process p has and has not executed
  expired,   \* steps whose not_after_utc_ms has passed
  calls,     \* history: provider calls per step
  cleared,   \* history: calls per step that a decision declared harmless
  granted,   \* history: the last epoch handed out with a claim per step
  stopped,   \* history: a cancellation request was committed
  spoiled    \* history: a line was written behind one without its newline

vars == <<disk, tail, view, job, claims, expired, calls, cleared, granted,
          stopped, spoiled>>

history == <<calls, cleared, granted, stopped>>
log == <<disk, tail, spoiled>>

(***************************************************************************)
(* Records and their fold                                                  *)
(***************************************************************************)

States == {"absent", "pending", "claimed", "launched", "settled",
           "uncertain"}
Answers == {"none", "succeeded", "failed", "adopted", "abandoned"}
Epochs == 0..MaxEpoch

\* StepView, and "absent" for a step that was never frozen.
StepViews ==
  {v \in [state : States, epoch : Epochs, highest : Epochs,
          answer : Answers] : v.state = "settled" <=> v.answer # "none"}
Folds == [step : [Steps -> StepViews], cancelled : BOOLEAN]

Kinds == {"frozen", "claimed", "launched", "settled", "uncertain",
          "reconciled"}
Decisions == {"adopt_completed", "proved_no_effects", "abandoned"}

Rec(kind, k, e, value) ==
  [kind |-> kind, key |-> k, epoch |-> e, value |-> value]
Records ==
  {rec \in [kind : Kinds, key : Steps, epoch : Epochs,
            value : Answers \cup Decisions] :
     /\ rec.kind = "settled" => rec.value \in Answers \ {"none"}
     /\ rec.kind = "reconciled" => rec.value \in Decisions}
CancelRecord == Rec("cancel", 0, 0, "none")

Clean == Rec("clean", 0, 0, "none")
Garbage == Rec("garbage", 0, 0, "none")

Absent == [state |-> "absent", epoch |-> 0, highest |-> 0, answer |-> "none"]

Empty == [step |-> [k \in Steps |-> Absent], cancelled |-> FALSE]

Terminal(v) == v.state = "settled"

\* The fence: an older epoch, or an answer that is already there.
FencedOut(v, rec) == rec.epoch < v.highest \/ Terminal(v)

\* A claim that counts raises the fence.
Claimed(v, e) ==
  [v EXCEPT !.state = "claimed", !.epoch = e, !.highest = e]

\* What Reconciled makes of a step.
Resolved(v, decision) ==
  CASE decision = "adopt_completed" ->
         [v EXCEPT !.state = "settled", !.answer = "adopted"]
    [] decision = "proved_no_effects" ->
         [v EXCEPT !.state = "pending", !.answer = "none"]
    [] decision = "abandoned" ->
         [v EXCEPT !.state = "settled", !.answer = "abandoned"]

\* Mutant: an uncertainty is recorded whatever is known.
MarkedUncertainAlways(v, e) == [v EXCEPT !.state = "uncertain", !.epoch = e]

\* An uncertainty does not replace an answer.
MarkedUncertain(v, e) ==
  IF Terminal(v) THEN v ELSE [v EXCEPT !.state = "uncertain", !.epoch = e]

\* What a record other than a freeze does to a step that was frozen.
Advanced(v, rec) ==
  CASE rec.kind = "claimed" ->
         IF FencedOut(v, rec) THEN v
         ELSE Claimed(v, rec.epoch)
    [] rec.kind = "launched" ->
         IF FencedOut(v, rec) THEN v
         ELSE [v EXCEPT !.state = "launched", !.epoch = rec.epoch]
    [] rec.kind = "settled" ->
         IF FencedOut(v, rec) THEN v
         ELSE [v EXCEPT !.state = "settled", !.answer = rec.value]
    [] rec.kind = "uncertain" -> MarkedUncertain(v, rec.epoch)
    [] rec.kind = "reconciled" -> Resolved(v, rec.value)

\* The step view after one record that is about it. Only a freeze makes a
\* step, and it makes it once.
Folded(v, rec) ==
  IF v.state = "absent"
    THEN IF rec.kind = "frozen" THEN [v EXCEPT !.state = "pending"] ELSE v
    ELSE IF rec.kind = "frozen" THEN v ELSE Advanced(v, rec)

\* DurableStore::apply
Apply(f, rec) ==
  IF rec.kind = "cancel"
    THEN [f EXCEPT !.cancelled = TRUE]
    ELSE [f EXCEPT !.step[rec.key] = Folded(@, rec)]

\* What DurableStore::open reads: a last line that parses counts, newline or
\* not; one that does not parse is skipped.
Replay == IF tail \in {Clean, Garbage} THEN disk ELSE Apply(disk, tail)

(***************************************************************************)
(* Appending                                                               *)
(***************************************************************************)

\* How far an append gets. "ok" is the only one that returns Ok; "full" has
\* written its line and failed afterwards, the others stopped earlier.
\* `writeln!` on a File writes the record and the newline separately.
WriteOutcomes ==
  {"ok", "full", "nothing"}
    \cup (IF TornWrites THEN {"partial", "unterminated"} ELSE {})

\* The log after process p's append of rec. Behind a line without newline the
\* record lands on that line, and the line does not parse.
Written(rec, outcome) ==
  /\ disk' = IF outcome \in {"ok", "full"} /\ tail = Clean
               THEN Apply(disk, rec)
               ELSE disk
  /\ tail' = CASE outcome \in {"ok", "full"} -> Clean
               [] outcome = "nothing" -> tail
               [] outcome = "partial" -> Garbage
               [] outcome = "unterminated" ->
                    IF tail = Clean THEN rec ELSE Garbage
  /\ spoiled' = (spoiled \/ (tail # Clean /\ outcome # "nothing"))

\* Mutant: the record is folded in although the append failed.
AppendVisibleFirst(p, rec, outcome) ==
  /\ Written(rec, outcome)
  /\ view' = [view EXCEPT ![p] = Apply(@, rec)]

\* DurableStore::append: folded in only once it is durable.
Append(p, rec, outcome) ==
  /\ Written(rec, outcome)
  /\ view' = IF outcome = "ok" THEN [view EXCEPT ![p] = Apply(@, rec)]
                               ELSE view

(***************************************************************************)
(* Processes                                                               *)
(***************************************************************************)

Claim(k, e) == [key |-> k, epoch |-> e]
Claims == [key : Steps, epoch : Epochs]

\* What a process is doing: executing a claim, or recovering the steps `todo`
\* after it has claimed the steps `refenced` again.
Job(what, k, e, todo, refenced) ==
  [what |-> what, key |-> k, epoch |-> e, todo |-> todo,
   refenced |-> refenced]
Running(k, e) == Job("running", k, e, {}, {})
Recovering(todo, refenced) == Job("recovering", 0, 0, todo, refenced)
Down == Job("down", 0, 0, {}, {})
Idle == Job("idle", 0, 0, {}, {})
Jobs ==
  {Down, Idle} \cup {Running(k, e) : k \in Steps, e \in Epochs}
    \cup {Recovering(t, r) : t \in SUBSET Steps, r \in SUBSET Steps}

Init ==
  /\ disk = Empty
  /\ tail = Clean
  /\ view = [p \in Processes |-> Empty]
  /\ job = [p \in Processes |-> Down]
  /\ claims = [p \in Processes |-> {}]
  /\ expired = {}
  /\ calls = [k \in Steps |-> 0]
  /\ cleared = [k \in Steps |-> 0]
  /\ granted = [k \in Steps |-> 0]
  /\ stopped = FALSE
  /\ spoiled = FALSE

\* The wall clock passes the deadline of a step.
Expire(k) ==
  /\ k \notin expired
  /\ expired' = expired \cup {k}
  /\ UNCHANGED <<log, view, job, claims, history>>

\* A process starts and opens the store: its state comes from the file.
Open(p) ==
  /\ job[p] = Down
  /\ Exclusive => \A q \in Processes : job[q] = Down
  /\ job' = [job EXCEPT ![p] = Idle]
  /\ view' = [view EXCEPT ![p] = Replay]
  /\ UNCHANGED <<log, claims, expired, history>>

\* A process dies; nothing but the file is left of it.
Crash(p) ==
  /\ job[p] # Down
  /\ job' = [job EXCEPT ![p] = Down]
  /\ view' = [view EXCEPT ![p] = Empty]
  /\ claims' = [claims EXCEPT ![p] = {}]
  /\ UNCHANGED <<log, expired, history>>

\* The future of `execute` is dropped while it awaits the provider.
Abandon(p) ==
  /\ job[p].what = "running"
  /\ job' = [job EXCEPT ![p] = Idle]
  /\ UNCHANGED <<log, view, claims, expired, history>>

Freeze(p, k, outcome) ==
  /\ job[p] = Idle
  /\ Append(p, Rec("frozen", k, 0, "none"), outcome)
  /\ UNCHANGED <<job, claims, expired, history>>

RequestCancel(p, outcome) ==
  /\ job[p] = Idle
  /\ Append(p, CancelRecord, outcome)
  /\ stopped' = (stopped \/ outcome = "ok")
  /\ UNCHANGED <<job, claims, expired, calls, cleared, granted>>

\* Mutant: work that awaits a decision is admitted.
AdmissibleUncertain(p, k) ==
  /\ ~view[p].cancelled
  /\ view[p].step[k].state \in {"pending", "claimed", "uncertain"}
  /\ k \notin expired

\* What `admit` lets run; everything else is refused or already settled, and
\* changes nothing.
Admissible(p, k) ==
  /\ ~view[p].cancelled
  /\ view[p].step[k].state \in {"pending", "claimed"}
  /\ k \notin expired

\* Mutant: a claim that was lost is taken again under its own epoch.
NextEpochReused(p, k) ==
  IF view[p].step[k].state = "claimed" THEN view[p].step[k].highest
                                       ELSE view[p].step[k].highest + 1

NextEpoch(p, k) == view[p].step[k].highest + 1

\* What a process has left when it fails to claim a step: the error ends its
\* work on a careful step (`?` in main.rs), otherwise it goes on with the
\* claims that it had.
LeftAfterFailure(p, k) ==
  IF k \in Careful THEN {c \in claims[p] : c.key # k} ELSE claims[p]

\* `admit` of a delivered reference: claim under a new epoch.
Admit(p, k, outcome) ==
  /\ job[p] = Idle
  /\ Admissible(p, k)
  /\ LET e == NextEpoch(p, k)
     IN /\ e <= MaxEpoch
        /\ Append(p, Rec("claimed", k, e, "none"), outcome)
        /\ IF outcome = "ok"
             THEN /\ claims' = [claims EXCEPT ![p] = @ \cup {Claim(k, e)}]
                  /\ granted' = [granted EXCEPT ![k] = e]
             ELSE /\ claims' = [claims EXCEPT ![p] = LeftAfterFailure(p, k)]
                  /\ UNCHANGED granted
  /\ UNCHANGED <<job, expired, calls, cleared, stopped>>

\* The claim is the newest one that process p knows of.
IsFresh(p, c) ==
  view[p].step[c.key].state = "claimed" /\ view[p].step[c.key].epoch = c.epoch

\* `execute`, first half: record the launch, then await the provider. Whether
\* the launch was fenced out is not looked at.
Launch(p, c, outcome) ==
  /\ job[p] = Idle /\ c \in claims[p]
  /\ c.key \in Careful => IsFresh(p, c)
  /\ calls[c.key] < MaxCalls
  /\ Append(p, Rec("launched", c.key, c.epoch, "none"), outcome)
  /\ IF outcome = "ok"
       THEN /\ job' = [job EXCEPT ![p] = Running(c.key, c.epoch)]
            /\ claims' = [claims EXCEPT ![p] = @ \ {c}]
            /\ calls' = [calls EXCEPT ![c.key] = @ + 1]
       ELSE UNCHANGED <<job, claims, calls>>
  /\ UNCHANGED <<expired, cleared, granted, stopped>>

\* `execute`, second half: the provider answered; commit the answer.
Settle(p, answer, outcome) ==
  /\ job[p].what = "running"
  /\ Append(p, Rec("settled", job[p].key, job[p].epoch, answer), outcome)
  /\ job' = [job EXCEPT ![p] = Idle]
  /\ UNCHANGED <<claims, expired, history>>

\* `recover_lost` collects the steps whose claim was lost.
Recover(p) ==
  /\ job[p] = Idle
  /\ LET lost == {k \in Steps :
                    view[p].step[k].state \in {"claimed", "launched"}}
     IN /\ lost # {}
        /\ job' = [job EXCEPT ![p] = Recovering(lost, {})]
  /\ UNCHANGED <<log, view, claims, expired, history>>

\* Mutant: work that was lost after launch is claimed again.
RecoveryOfAlwaysClaims(v, k) == Rec("claimed", k, v.epoch + 1, "none")

\* The record that recovers a lost step: a new claim before launch, an
\* uncertainty after it.
RecoveryOf(v, k) ==
  IF v.state = "claimed" THEN Rec("claimed", k, v.epoch + 1, "none")
                         ELSE Rec("uncertain", k, v.epoch, "none")

\* The claims of the steps in `keys`, under the fences that they have now.
ClaimsOf(fold, keys) == {Claim(k, fold.step[k].highest) : k \in keys}

\* One iteration of its loop. An error ends it, and what it had claimed again
\* is lost with its result; at the end the process has those claims.
RecoverNext(p, outcome) ==
  /\ job[p].what = "recovering"
  /\ \E k \in job[p].todo :
       /\ \A j \in job[p].todo : k <= j
       /\ LET rec == RecoveryOf(view[p].step[k], k)
              rest == job[p].todo \ {k}
              refenced == job[p].refenced
                            \cup (IF rec.kind = "claimed" THEN {k} ELSE {})
              done == outcome = "ok" /\ rest = {}
          IN /\ rec.epoch <= MaxEpoch
             /\ Append(p, rec, outcome)
             /\ job' = [job EXCEPT ![p] =
                          IF outcome = "ok" /\ rest # {}
                            THEN Recovering(rest, refenced) ELSE Idle]
             /\ claims' = [claims EXCEPT ![p] =
                  CASE outcome # "ok" -> LeftAfterFailure(p, k)
                    [] done -> @ \cup ClaimsOf(view'[p], refenced)
                    [] OTHER -> @]
             /\ granted' = [j \in Steps |->
                  IF done /\ j \in refenced THEN view'[p].step[j].highest
                                            ELSE granted[j]]
  /\ UNCHANGED <<expired, calls, cleared, stopped>>

\* A person or a policy decides about a step that is uncertain.
Reconcile(p, k, decision, outcome) ==
  /\ job[p] = Idle
  /\ view[p].step[k].state = "uncertain"
  /\ Append(p, Rec("reconciled", k, 0, decision), outcome)
  /\ cleared' = [cleared EXCEPT ![k] =
       IF decision = "proved_no_effects" /\ outcome \notin {"nothing", "partial"}
         THEN calls[k] ELSE @]
  /\ UNCHANGED <<job, claims, expired, calls, granted, stopped>>

Process(p) ==
  \/ Open(p)
  \/ Crash(p)
  \/ Abandon(p)
  \/ Recover(p)
  \/ \E outcome \in WriteOutcomes :
       \/ RequestCancel(p, outcome)
       \/ \E c \in claims[p] : Launch(p, c, outcome)
       \/ \E answer \in {"succeeded", "failed"} : Settle(p, answer, outcome)
       \/ RecoverNext(p, outcome)
       \/ \E k \in Steps :
            \/ Freeze(p, k, outcome)
            \/ Admit(p, k, outcome)
            \/ \E d \in Decisions : Reconcile(p, k, d, outcome)

Next ==
  \/ \E p \in Processes : Process(p)
  \/ \E k \in Steps : Expire(k)

Spec == Init /\ [][Next]_vars

(***************************************************************************)
(* Properties                                                              *)
(***************************************************************************)

\* Every variable stays in its domain: whatever is written behind a torn
\* line, a step has an answer exactly when it is settled, and a line without
\* its newline holds a record that some operation writes.
TypeOK ==
  /\ disk \in Folds
  /\ tail \in {Clean, Garbage, CancelRecord} \cup Records
  /\ view \in [Processes -> Folds]
  /\ job \in [Processes -> Jobs]
  /\ claims \in [Processes -> SUBSET Claims]
  /\ expired \subseteq Steps
  /\ calls \in [Steps -> Nat]
  /\ cleared \in [Steps -> Nat]
  /\ granted \in [Steps -> Epochs]
  /\ stopped \in BOOLEAN
  /\ spoiled \in BOOLEAN

Up(p) == job[p] # Down

\* What a process holds in memory about a step, v, is kept by the log when
\* the next process reads r: a step that exists, its fence, a launch or what
\* became of it, an answer, and an uncertainty, which only an answer or a
\* decision that cleared every call may have replaced.
Kept(v, r, k) ==
  /\ v.state # "absent" => r.state # "absent"
  /\ v.highest <= r.highest
  /\ v.state = "settled" => r = v
  /\ v.state = "launched" => r.state \in {"launched", "uncertain", "settled"}
  /\ v.state = "uncertain" =>
       \/ r.state \in {"uncertain", "settled"}
       \/ r.state = "pending" /\ calls[k] <= cleared[k]

\* "a commit that returned is a commit that survives": whatever appends that
\* returned have put into memory, of a run's cancellation and of a step whose
\* newest claim only is executed, is what the next process will read, or has
\* been overtaken by an append whose line was written although it failed.
Survives ==
  \A p \in Processes : Up(p) =>
    /\ \A k \in Careful : Kept(view[p].step[k], Replay.step[k], k)
    /\ view[p].cancelled => Replay.cancelled

\* Commits survive crashes, failed appends and torn writes, as long as nobody
\* has written behind a line that a torn write left without its newline.
CommitSurvives == ~spoiled => Survives

\* A step whose newest claim only is executed costs one provider call, over
\* every crash, redelivery, recovery and failed append: before there is
\* another, a recorded decision has declared that the earlier ones had no
\* effects.
CallsOnce == ~spoiled => \A k \in Careful : calls[k] <= 1 + cleared[k]

\* "each attempt takes a strictly higher epoch": no epoch is handed out
\* twice, or after a higher one, for the same step, by `admit` or by a
\* recovery of any process; and once a cancellation was committed `admit`
\* hands out none at all.
EpochsRise ==
  [][~spoiled =>
       \A p \in Processes : \A c \in claims'[p] \ claims[p] :
         granted[c.key] < c.epoch /\ (job[p] = Idle => ~stopped)]_vars

\* Process p commits the result of a claim on step k that is the newest one
\* handed out.
CommitsNewest(p, k) ==
  /\ job[p].what = "running" /\ job[p].key = k /\ granted[k] <= job[p].epoch
  /\ \E answer \in {"succeeded", "failed"}, outcome \in WriteOutcomes :
       Settle(p, answer, outcome)

Decides(k) ==
  \E p \in Processes, d \in Decisions, outcome \in WriteOutcomes :
    Reconcile(p, k, d, outcome)

\* docs/durable-host-report.md: "A result from a fenced-out claim is logged
\* but never becomes the answer". What a restart would read as the answer of
\* a step is put there by the newest claim or by a decision, and is replaced
\* by a decision only: not by a late result, a claim, or a recovery.
AnswerIsFinal ==
  [][~spoiled' =>
       \A k \in Steps :
         Replay'.step[k] # Replay.step[k] =>
           /\ Replay.step[k].state = "settled" => Decides(k)
           /\ Replay'.step[k].state = "settled" =>
                Decides(k) \/ \E p \in Processes : CommitsNewest(p, k)]_vars

\* docs/durable-host-report.md: "Uncertain work resolves only by a recorded,
\* attributed decision".
UncertainStays ==
  [][~spoiled' =>
       \A k \in Steps :
         Replay.step[k].state = "uncertain" =>
           Replay'.step[k].state = "uncertain" \/ Decides(k)]_vars

(***************************************************************************)
(* The inductive invariant for one process at a time (module               *)
(* DurableStoreProofs), stated of what a restart would read, r, and of     *)
(* what the process that is up has in memory, v                            *)
(***************************************************************************)

\* A claim or a launch stands under its fence, which no grant g exceeds.
Fenced(x, g) ==
  /\ x.state \in {"claimed", "launched"} => x.epoch = x.highest
  /\ g <= x.highest

\* The log has what memory has: the step, its fence, and nothing behind a
\* claim but the launch of it.
Lags(v, r) ==
  /\ v.highest <= r.highest
  /\ v.state = "absent" => r.state \in {"absent", "pending"}
  /\ v.state # "absent" => r.state # "absent"
  /\ v.state \in {"pending", "claimed"} =>
       r.state \in {"pending", "claimed", "launched"}

\* Of a careful step: every state carries its fence as its epoch, and a step
\* may be launched only when a decision has cleared, c, every call made, n.
Sound(x, n, c) ==
  /\ x.epoch = x.highest
  /\ x.state \in {"absent", "pending", "claimed"} => n <= c

\* Of a careful step: the log reads like memory, or like memory and one more
\* record, whose line was written by an append that failed.
Behind(v, r) ==
  \/ r = v
  \/ v.state = "absent" /\ r = [v EXCEPT !.state = "pending"]
  \/ v.state \in {"pending", "claimed"} /\ r = Claimed(v, v.highest + 1)
  \/ v.state = "claimed" /\ r = [v EXCEPT !.state = "launched"]
  \/ v.state = "launched" /\ r = [v EXCEPT !.state = "uncertain"]
  \/ v.state = "uncertain" /\ r = [v EXCEPT !.state = "pending"]
  \/ /\ v.state \in {"launched", "uncertain"}
     /\ \E a \in Answers \ {"none"} :
          r = [v EXCEPT !.state = "settled", !.answer = a]

LogHolds(k, r, g, n, c) ==
  /\ Fenced(r, g)
  /\ k \in Careful => Sound(r, n, c) /\ n <= 1 + c

MemoryHolds(k, v, r, g, n, c) ==
  /\ Fenced(v, g) /\ Lags(v, r)
  /\ k \in Careful => Sound(v, n, c) /\ Behind(v, r)

\* A claim that is not executed yet, of epoch e, is fenced out or current;
\* of a careful step, a current one is current in the log as well.
ClaimHolds(k, e, v, r) ==
  /\ e <= v.highest
  /\ e = v.highest =>
       v.state = "claimed" /\ (k \in Careful => r.highest = v.highest)

\* So is one that is being executed, and the log awaits its answer.
RunHolds(k, e, v, r) ==
  /\ e <= v.highest
  /\ e = v.highest => v.state = "launched"
  /\ r.state = "launched" \/ e < r.highest
  /\ k \in Careful => r = v /\ v.state = "launched" /\ e = v.highest

RefenceHolds(k, v, r, g) ==
  /\ v.state = "claimed" /\ g < v.highest
  /\ k \in Careful => r.highest = v.highest

JobHolds(p) ==
  LET j == job[p]
      v(k) == view[p].step[k]
      r(k) == Replay.step[k]
  IN /\ \A c \in claims[p] : ClaimHolds(c.key, c.epoch, v(c.key), r(c.key))
     /\ j.what = "running" => RunHolds(j.key, j.epoch, v(j.key), r(j.key))
     /\ j.what = "recovering" =>
          /\ j.todo \cap j.refenced = {}
          /\ \A k \in j.todo : v(k).state \in {"claimed", "launched"}
          /\ \A k \in j.refenced : RefenceHolds(k, v(k), r(k), granted[k])

\* A cancellation that was committed is known to the log and to the process.
CancelKnown ==
  /\ stopped => Replay.cancelled
  /\ \A p \in Processes : Up(p) =>
       /\ view[p].cancelled => Replay.cancelled
       /\ stopped => view[p].cancelled

\* At most one process is up, and a process that is down has nothing.
OneUp ==
  /\ \A p, q \in Processes : Up(p) /\ Up(q) => p = q
  /\ \A p \in Processes : ~Up(p) => claims[p] = {}

StepsHold ==
  /\ \A k \in Steps :
       LogHolds(k, Replay.step[k], granted[k], calls[k], cleared[k])
  /\ \A p \in Processes : Up(p) =>
       \A k \in Steps :
         MemoryHolds(k, view[p].step[k], Replay.step[k], granted[k],
                     calls[k], cleared[k])

LogInv ==
  /\ OneUp
  /\ StepsHold
  /\ CancelKnown
  /\ \A p \in Processes : JobHolds(p)

IInv == TypeOK /\ (~spoiled => LogInv)

=============================================================================
