------------------------------ MODULE McpTools ------------------------------
(***************************************************************************)
(* crates/tower-agent-mcp: the turn tool and the plan tool over a service, *)
(* the store that names their sessions, the bridge for cancellation, and   *)
(* the progress of a call. Several calls run at once; the client cancels   *)
(* and answers when it likes, and a transport forgets a scope when its     *)
(* session ends.                                                           *)
(*                                                                         *)
(* The service below the tools (AgentStack, PlannedTurn) is any service    *)
(* that settles a cancelled call. The store is InMemoryContinuationStore,  *)
(* or a host's own that keeps the same entries and may also fail.          *)
(*                                                                         *)
(* A continuation id is the number of its mint: a version 4 UUID is never  *)
(* drawn twice.                                                            *)
(***************************************************************************)
EXTENDS Planner, FiniteSets

CONSTANTS
  Calls,        \* tool calls
  Tool,         \* Tool[c]: "plan", or the session kind of a turn tool's service
  Scopes,       \* Scopes[c]: what ScopeSource may name for the call, or None
  Capacity,     \* InMemoryContinuationStore::capacity
  Prompts,      \* what a client may say as its prompt; None is nothing
  Named,        \* what a client may say as the provider; None is nothing
  Defaults,     \* PlanToolState::defaults
  MaxRounds,    \* PlanToolState::max_rounds
  Watched,      \* calls whose client asked for progress
  Impatient,    \* calls whose client may cancel
  MaxEvents     \* bound on the events of a call

ASSUME CapacityAssumption == Capacity \in Nat \ {0}

ASSUME RoundsAssumption == MaxRounds \in Nat

\* No error is None.
ASSUME NoneAssumption == None \notin {"InvalidRequest", "Internal"}

\* PartialTurn::provider is a ProviderId.
ASSUME DefaultsAssumption ==
  Bound(Defaults, "provider") => Defaults["provider"] \in ProviderIds

\* An identifier that a client may send and that no mint ever returned; a
\* blank one is refused in the same way.
Stranger == 0

VARIABLES
  entries,    \* State::entries: id -> [scope, session]
  order,      \* State::order, oldest first
  call,       \* per tool call, what its future holds
  progress,   \* per call, ProgressEvents
  mints,      \* history: what each id was minted for
  forgotten   \* history: ids whose scope was forgotten after their mint

vars == <<entries, order, call, progress, mints, forgotten>>

store == <<entries, order>>
history == <<mints, forgotten>>

\* A call before it arrives, and ProgressEvents::new.
NewCall ==
  [pc |-> "new", scope |-> None, continuation |-> None,
   explicit |-> Unbound, answers |-> <<>>, round |-> 0, asks |-> {},
   turn |-> None, incoming |-> FALSE, outgoing |-> FALSE,
   settled |-> None, response |-> None]

NewProgress == [emitted |-> 0, taken |-> <<>>, reported |-> <<>>]

Init ==
  /\ entries = Unbound /\ order = <<>>
  /\ call = [c \in Calls |-> NewCall]
  /\ progress = [c \in Calls |-> NewProgress]
  /\ mints = <<>> /\ forgotten = {}

(***************************************************************************)
(* The continuation store                                                  *)
(***************************************************************************)

\* Mutant: whoever holds an id may use it.
ResolveForAnyone(id, scope) ==
  IF id \in DOMAIN entries THEN entries[id].session ELSE None

\* InMemoryContinuationStore::resolve
Resolve_(id, scope) ==
  IF id \in DOMAIN entries /\ entries[id].scope = scope
    THEN entries[id].session
    ELSE None

\* Mutant: room is made for one more than needed.
RetainedTight(ids) ==
  LET excess == Len(ids) + 1 - Capacity
  IN IF excess > 0 THEN SubSeq(ids, excess + 1, Len(ids)) ELSE ids

\* The eviction loop of mint: the oldest go until the rest fits. Every id in
\* `order` has an entry, so one turn of the loop removes one entry.
Retained(ids) ==
  LET excess == Len(ids) - Capacity
  IN IF excess > 0 THEN SubSeq(ids, excess + 1, Len(ids)) ELSE ids

\* InMemoryContinuationStore::mint
Mint(session, scope) ==
  LET id == Len(mints) + 1
      entry == [scope |-> scope, session |-> session]
      kept == Retained(Append(order, id))
  IN /\ mints' = Append(mints, entry)
     /\ order' = kept
     /\ entries' = [i \in Range(kept) |-> IF i = id THEN entry ELSE entries[i]]

\* VecDeque::retain leaves those of an id in a set, in the order that they
\* had. This is a set of one sequence.
Retentions(ids, kept) ==
  LET places == {k \in DOMAIN ids : ids[k] \in kept}
  IN {[k \in DOMAIN at |-> ids[at[k]]] :
        at \in {f \in [1..Cardinality(places) -> places] :
                 \A j, k \in DOMAIN f : j < k => f[j] < f[k]}}

\* InMemoryContinuationStore::forget_scope, when a transport session ends.
ForgetScope(scope) ==
  LET kept == {i \in DOMAIN entries : entries[i].scope # scope}
      gone == {i \in DOMAIN mints : mints[i].scope = scope}
  IN /\ ~(gone \subseteq forgotten)
     /\ entries' = [i \in kept |-> entries[i]]
     /\ \E rest \in Retentions(order, kept) : order' = rest
     /\ forgotten' = forgotten \cup gone
     /\ UNCHANGED <<call, progress, mints>>

(***************************************************************************)
(* The beginning of a call                                                 *)
(***************************************************************************)

\* refuse_with: a refusal that never reached the provider.
Refusal(kind) ==
  [kind |-> kind, replaySafe |-> TRUE, present |-> FALSE,
   continuation |-> None]

\* A call answers, and its future and tokens are dropped with it; what it was
\* asked and what it ran are history.
Done(request, response) ==
  [request EXCEPT !.pc = "done", !.response = response, !.explicit = Unbound,
                  !.answers = <<>>, !.asks = {}, !.incoming = FALSE,
                  !.outgoing = FALSE]

\* A call starts its turn; a plan is used up by it.
Start(request, turn) ==
  [request EXCEPT !.pc = "running", !.turn = turn, !.explicit = Unbound,
                  !.answers = <<>>, !.round = 0]

\* resolve_continuation: what a supplied id gives; a store may fail.
ContinuationAnswers(id, scope) ==
  IF Resolve_(id, scope) = None
    THEN {[error |-> "InvalidRequest", session |-> None]}
    ELSE {[error |-> None, session |-> Resolve_(id, scope)]}

StoreFails == [error |-> "Internal", session |-> None]

\* The explicit layer of a planned call: a continuation settles the
\* provider; a name that no provider has is left unbound.
Explicit(prompt, named, session) ==
  LET said == [prompt |-> prompt, resume |-> session,
               provider |-> IF session # None THEN session.provider
                            ELSE IF named \in ProviderIds THEN named
                            ELSE None]
  IN [path \in {p \in DOMAIN said : said[p] # None} |-> said[path]]

\* Where a call goes from here: a turn runs at once, a plan is prepared.
Enter(c, request, session) ==
  IF Tool[c] # "plan"
    THEN Start(request, [provider |-> Tool[c], resume |-> session])
  ELSE IF session # None /\ session.provider \notin ProviderIds
    THEN Done(request, Refusal("Unsupported"))
  ELSE [request EXCEPT !.pc = "planning"]

\* run of either tool, up to the turn or the plan. Without a scope a call is
\* refused, and so is a continuation that cannot be honored.
Arrive(c) ==
  /\ call[c].pc = "new"
  /\ \E scope \in Scopes[c], prompt \in Prompts,
        named \in Named,
        id \in {None, Stranger} \cup DOMAIN mints :
       LET request == [call[c] EXCEPT !.scope = scope, !.continuation = id]
       IN /\ Tool[c] # "plan" => prompt = "text" /\ named = None
          /\ \/ /\ scope = None
                /\ call' = [call EXCEPT ![c] =
                     Done(request, Refusal("InvalidRequest"))]
             \/ /\ scope # None /\ id = None
                /\ call' = [call EXCEPT ![c] =
                     Enter(c, [request EXCEPT
                                 !.explicit = Explicit(prompt, named, None)],
                           None)]
             \/ /\ scope # None /\ id # None
                /\ \E answer \in ContinuationAnswers(id, scope)
                                   \cup {StoreFails} :
                     call' = [call EXCEPT ![c] =
                       IF answer.error # None
                         THEN Done(request, Refusal(answer.error))
                         ELSE Enter(c, [request EXCEPT !.explicit =
                                Explicit(prompt, None, answer.session)],
                                answer.session)]
  /\ UNCHANGED <<store, progress, history>>

(***************************************************************************)
(* The plan tool                                                           *)
(***************************************************************************)

\* The layers of a round: the tool has neither baselines nor a profile.
LayersOf(c) ==
  [baseline |-> [p \in ProviderIds |-> Unbound], defaults |-> Defaults,
   profile |-> Unbound, explicit |-> call[c].explicit,
   answers |-> call[c].answers]

\* The session that the host's own defaults resume.
HostSession == IF Bound(Defaults, "resume") THEN Defaults["resume"] ELSE None

\* prepare, at the top of a round.
PlanRound(c) ==
  LET plan == Prepare(LayersOf(c))
  IN /\ call[c].pc = "planning"
     /\ call' = [call EXCEPT ![c] =
          CASE plan.tag = "ready" ->
                 Start(@, [provider |-> plan.turn["provider"],
                           resume |-> TurnOf(plan.turn)["resume"]])
            [] plan.tag = "invalid" -> Done(@, Refusal("InvalidRequest"))
            [] plan.tag = "missing" ->
                 [@ EXCEPT !.pc = "asking", !.asks = plan.asks]]
     /\ UNCHANGED <<store, progress, history>>

\* Mutant: a round less than the host allowed.
RoundsShort == IF MaxRounds > 2 THEN MaxRounds - 1 ELSE MaxRounds

\* max_rounds.max(1)
Rounds == IF MaxRounds = 0 THEN 1 ELSE MaxRounds

\* What a client may put into the form: values for what was asked, or a value
\* that nobody asked for.
FormContents(asks) ==
  LET value(id) == IF id = "provider" THEN ProviderIds ELSE {"text", "blank"}
      one(id) == {<<[id |-> id, value |-> v]>> : v \in value(id)}
  IN (UNION {one(id) : id \in asks})
       \cup (IF asks = {"provider", "prompt"}
               THEN {a \o b : a \in one("provider"), b \in one("prompt")}
               ELSE {})
       \cup {<<>>, <<[id |-> "model", value |-> "text"]>>}

\* elicit fails, is declined, or is answered with an unknown action.
ElicitRefused(c) ==
  /\ call[c].pc = "asking"
  /\ \E kind \in {"Internal", "Cancelled", "Unsupported"} :
       call' = [call EXCEPT ![c] = Done(@, Refusal(kind))]
  /\ UNCHANGED <<store, progress, history>>

\* elicit is accepted. An empty form ends the plan, and so does the last
\* round, whose answers nobody looks at any more.
ElicitAccepted(c) ==
  /\ call[c].pc = "asking"
  /\ \E form \in FormContents(call[c].asks) :
       LET answered == [call[c] EXCEPT !.round = @ + 1,
                                       !.answers = @ \o form]
       IN call' = [call EXCEPT ![c] =
            IF form = <<>> THEN Done(call[c], Refusal("InvalidRequest"))
            ELSE IF answered.round < Rounds
              THEN [answered EXCEPT !.pc = "planning"]
            ELSE [answered EXCEPT !.pc = "done",
                                  !.response = Refusal("InvalidRequest")]]
  /\ UNCHANGED <<store, progress, history>>

(***************************************************************************)
(* Running the turn                                                        *)
(***************************************************************************)

\* The client cancels its request.
Cancel(c) ==
  /\ c \in Impatient /\ ~call[c].incoming
  /\ call[c].pc \in {"planning", "asking", "running"}
  /\ call' = [call EXCEPT ![c].incoming = TRUE]
  /\ UNCHANGED <<store, progress, history>>

\* Mutant: only the turn tool forwards.
ForwardOfTurns(c) ==
  /\ call[c].pc = "running" /\ call[c].incoming /\ ~call[c].outgoing
  /\ Tool[c] # "plan"
  /\ call' = [call EXCEPT ![c].outgoing = TRUE]
  /\ UNCHANGED <<store, progress, history>>

\* The cancellation branch of run_until_settled, taken once.
Forward(c) ==
  /\ call[c].pc = "running" /\ call[c].incoming /\ ~call[c].outgoing
  /\ call' = [call EXCEPT ![c].outgoing = TRUE]
  /\ UNCHANGED <<store, progress, history>>

\* The sessions that a turn may end with: none, the one that it resumed, or
\* another one of its provider, which is also what a resumed turn may report.
EndSessions(c) ==
  {None, call[c].turn.resume, Session(call[c].turn.provider, c)}

\* How the service may settle a call.
Settlements(c) ==
  [kind : {"ok"}, effects : {"known"}, session : EndSessions(c)]
    \cup [kind : {"Provider"}, effects : {"possible"},
          session : EndSessions(c)]
    \cup [kind : {"Unsupported"}, effects : {"none"}, session : {None}]

\* The other branch of run_until_settled: the future is never dropped. The
\* call's token and its observer end with it.
Settle(c) ==
  /\ call[c].pc = "running"
  /\ \E settled \in Settlements(c) :
       call' = [call EXCEPT ![c] =
         [@ EXCEPT !.pc = "settled", !.settled = settled, !.incoming = FALSE,
                   !.outgoing = FALSE]]
  /\ progress' = [progress EXCEPT ![c] = NewProgress]
  /\ UNCHANGED <<store, history>>

\* Projection::outcome and Projection::failure, as far as a client decides
\* on them.
Projected(settled, continuation) ==
  [kind |-> settled.kind, replaySafe |-> settled.effects = "none",
   present |-> settled.session # None, continuation |-> continuation]

\* Mutant: a turn whose session cannot be named is reported as a failure.
UnnamedFails(settled) == Refusal("Internal")

\* mint failed, or there is no session: the settled result is kept.
Unnamed(settled) == Projected(settled, None)

\* The session is named, if there is one and the store can, and the terminal
\* result is projected.
Finish(c) ==
  LET settled == call[c].settled
      respond(r) == call' = [call EXCEPT ![c] = Done(@, r)]
  IN /\ call[c].pc = "settled"
     /\ \/ /\ settled.session # None
           /\ Mint(settled.session, call[c].scope)
           /\ respond(Projected(settled, Len(mints) + 1))
           /\ UNCHANGED <<progress, forgotten>>
        \/ /\ respond(Unnamed(settled))
           /\ UNCHANGED <<store, progress, history>>

(***************************************************************************)
(* Progress                                                                *)
(***************************************************************************)

\* try_emit up to its fetch_add; without a progress token it emits nothing.
\* An EventObserver is shared, so emitters may overlap.
Count(c) ==
  /\ call[c].pc = "running" /\ c \in Watched
  /\ progress[c].emitted < MaxEvents
  /\ progress' = [progress EXCEPT ![c].emitted = @ + 1,
                    ![c].taken = Append(@, progress[c].emitted + 1)]
  /\ UNCHANGED <<store, call, history>>

\* report_progress_sync: delivered, or dropped by a full channel.
Report(c) ==
  /\ call[c].pc = "running"
  /\ \E i \in DOMAIN progress[c].taken, delivered \in BOOLEAN :
       progress' = [progress EXCEPT
         ![c].taken = RemoveAt(@, i),
         ![c].reported = IF delivered THEN Append(@, progress[c].taken[i])
                         ELSE @]
  /\ UNCHANGED <<store, call, history>>

Next ==
  \/ \E c \in Calls :
       \/ Arrive(c) \/ PlanRound(c) \/ ElicitRefused(c) \/ ElicitAccepted(c)
       \/ Cancel(c) \/ Forward(c) \/ Settle(c) \/ Finish(c)
       \/ Count(c) \/ Report(c)
  \/ \E scope \in (UNION {Scopes[c] : c \in Calls}) \ {None} : ForgetScope(scope)

Spec == Init /\ [][Next]_vars

\* The futures are polled, and the service settles a call whose token is
\* cancelled (AgentStack!DeadlineSettles, PlannedTurn!CancelledCallSettles).
\* A client may never answer, and a turn may run for ever.
\* No two of the steps of one call are enabled together.
SettleOnceCancelled(c) == call[c].outgoing /\ Settle(c)

Proceed(c) == Forward(c) \/ SettleOnceCancelled(c) \/ Finish(c)

FairSpec == Spec /\ \A c \in Calls : WF_vars(Proceed(c))

(***************************************************************************)
(* Properties                                                              *)
(***************************************************************************)

Started(c) == call[c].turn # None

\* A call that names a continuation runs the conversation that was named, in
\* the scope that minted it, or does not run: no call continues somebody
\* else's conversation, and none quietly starts a new one
\* (resolve_continuation, InMemoryContinuationStore::resolve). A call that
\* names none starts a conversation, or continues the one of the host's
\* defaults (with_application_defaults).
ResumesWhatItNames ==
  \A c \in Calls : Started(c) =>
    IF call[c].continuation = None
      THEN call[c].turn.resume = IF Tool[c] = "plan" THEN HostSession ELSE None
    ELSE /\ call[c].continuation \in DOMAIN mints
         /\ call[c].turn.resume = mints[call[c].continuation].session
         /\ call[c].scope = mints[call[c].continuation].scope

\* A name that was handed out resolves for its scope until the scope is
\* forgotten or Capacity later names were minted; a forgotten one never does
\* again. The queue and the map of the store hold the same ids
\* (InMemoryContinuationStore).
NameResolves ==
  /\ \A i \in DOMAIN mints :
       /\ i \notin forgotten /\ Len(mints) - i < Capacity =>
            Resolve_(i, mints[i].scope) = mints[i].session
       /\ i \in forgotten => i \notin DOMAIN entries
  /\ {order[k] : k \in DOMAIN order} = DOMAIN entries
  /\ Len(order) = Cardinality(DOMAIN entries) /\ Len(order) <= Capacity

\* What the service settled is what the client is told, whatever the store
\* does: the kind, whether a repetition is safe, and whether a session
\* exists; a continuation in the answer was minted for that session and that
\* caller (run, execute, mint, Projection).
SettlementAnswered ==
  \A c \in Calls : call[c].settled # None /\ call[c].response # None =>
    LET settled == call[c].settled
        response == call[c].response
    IN /\ response.kind = settled.kind
       /\ response.replaySafe <=> settled.effects = "none"
       /\ response.present <=> settled.session # None
       /\ response.continuation # None =>
            mints[response.continuation] =
              [scope |-> call[c].scope, session |-> settled.session]

\* What the answers of a call are about.
AnsweredPaths(request) ==
  {request.answers[i].id : i \in DOMAIN request.answers}

\* Nothing is asked twice, and a client that answers sensibly is heard: a
\* plan is not given up for want of rounds once every value that was asked
\* for has been given (run of the plan tool).
AnswersConverge ==
  \A c \in Calls :
    /\ call[c].pc = "asking" => call[c].asks \cap AnsweredPaths(call[c]) = {}
    /\ call[c].pc = "done" /\ call[c].round = Rounds =>
         Prepare(LayersOf(c)).tag # "ready"

\* A cancelled request that is running is answered.
CancelledIsAnswered ==
  \A c \in Calls :
    (call[c].pc = "running" /\ call[c].incoming) ~> call[c].pc = "done"

(***************************************************************************)
(* The inductive invariant (module McpToolsProofs)                         *)
(***************************************************************************)

\* The queue lists the names of the map from the oldest to the youngest, each
\* as it was minted; the youngest are there, the forgotten are not.
StoreInv ==
  /\ order \in Seq(Nat)
  /\ \A j, k \in DOMAIN order : j < k => order[j] < order[k]
  /\ Range(order) = DOMAIN entries
  /\ Len(order) <= Capacity
  /\ mints \in Seq(Range(mints))
  /\ \A i \in DOMAIN entries : i \in DOMAIN mints /\ entries[i] = mints[i]
  /\ forgotten \subseteq DOMAIN mints
  /\ forgotten \cap DOMAIN entries = {}
  /\ \A i \in DOMAIN mints \ forgotten :
       Len(mints) - i < Capacity => i \in DOMAIN entries

\* A settlement is kept from the end of the turn to the answer, and only a
\* call that is over has an answer.
AnswerInv ==
  /\ DOMAIN call = Calls
  /\ \A c \in Calls :
       /\ DOMAIN call[c] = DOMAIN NewCall
       /\ call[c].settled # None => call[c].pc \in {"settled", "done"}
       /\ call[c].response # None => call[c].pc = "done"
       /\ call[c].settled # None /\ call[c].response # None =>
            call[c].response.continuation \in {None} \cup DOMAIN mints

IInv ==
  /\ StoreInv
  /\ AnswerInv
  /\ SettlementAnswered

(***************************************************************************)
(* What holds of a plan besides (module McpToolsProofs)                    *)
(***************************************************************************)

\* The explicit layer of a plan on its way says which conversation the call
\* named, and that one was minted in its scope.
ConversationInv ==
  \A c \in Calls :
    LET request == call[c]
    IN /\ request.pc = "new" => request.turn = None
       /\ request.pc \in {"planning", "asking"} =>
            /\ Tool[c] = "plan"
            /\ Bound(request.explicit, "provider") =>
                 request.explicit["provider"] \in ProviderIds
            /\ IF request.continuation = None
                 THEN ~Bound(request.explicit, "resume")
                 ELSE /\ request.continuation \in DOMAIN mints
                      /\ BoundTo(request.explicit, "resume",
                                 mints[request.continuation].session)
                      /\ request.scope = mints[request.continuation].scope

\* A round answers something that was asked, or makes the plan invalid. So
\* nothing is left to ask for after two of them.
RoundsInv ==
  \A c \in Calls :
    LET request == call[c]
        answered == AnsweredPaths(request)
    IN /\ request.round \in 0..2
       /\ request.answers \in Seq([id : Askable \cup {"model"},
                                  value : ProviderIds \cup {"text", "blank"}])
       /\ request.pc = "new" => request.round = 0 /\ request.answers = <<>>
       /\ request.pc \in {"planning", "asking"} /\ request.round # 0 =>
            answered # {}
       /\ request.pc = "planning" /\ request.round = 2 =>
            Askable \subseteq answered \/ ~(answered \subseteq Askable)
       /\ request.pc = "asking" =>
            /\ request.round # 2
            /\ request.asks # {} /\ request.asks \subseteq Askable \ answered
            /\ answered \subseteq Askable

PlanInv == ConversationInv /\ ResumesWhatItNames /\ RoundsInv

=============================================================================
