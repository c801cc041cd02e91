------------------------- MODULE PlannedTurnProofs -------------------------
(***************************************************************************)
(* What is proved about module PlannedTurn, for any layers, hosts and      *)
(* streams: what a reply says about effects and sessions is true, the      *)
(* exit code of Codex does not matter, preflight and call agree, and a     *)
(* launched child stays inside the host's policy.                          *)
(***************************************************************************)
EXTENDS PlannedTurn, FiniteSetTheorems, NaturalsInduction, TLAPS

(***************************************************************************)
(* Lists of checks                                                         *)
(***************************************************************************)

\* A sequence over its own elements.
Listed(s) == s \in Seq({s[i] : i \in DOMAIN s})

Fails(checks) == \E i \in DOMAIN checks : checks[i].fails

\* An error that is reported before anything was done.
Harmless(error) ==
  error \in Replies /\ error.effects = "none" /\ error.kind # "ok"

\* A check that fails with an error.
Blamed(checks, error) ==
  \E i \in DOMAIN checks : checks[i].fails /\ checks[i].error = error

Refusing(checks) == \A i \in DOMAIN checks : Harmless(checks[i].error)

\* The domain of a list.
LEMMA ListedFacts ==
  ASSUME NEW s, Listed(s)
  PROVE  Len(s) \in Nat /\ DOMAIN s = 1..Len(s)
BY DEF Listed

\* None is no reply.
LEMMA NonePlain == \A r \in Replies : r # None
BY NoneAssumption

\* A list has a first element of any kind that it has.
LEMMA LeastFacts ==
  ASSUME NEW S \in SUBSET Nat, S # {}
  PROVE  Least(S) \in S /\ \A j \in S : Least(S) <= j
<1>1. PICK n \in S : \A m \in S : ~(m < n)
  <2>1. IsWellFoundedOn(OpToRel(<, Nat), Nat)
    BY NatLessThanWellFounded
  <2>2. PICK n \in S : \A m \in S : <<m, n>> \notin OpToRel(<, Nat)
    BY <2>1, WFMin
  <2>3. QED
    BY <2>2 DEF OpToRel
<1>2. \A m \in S : n <= m
  BY <1>1
<1>3. QED
  BY <1>2 DEF Least

\* Which element that is.
LEMMA LeastIs ==
  ASSUME NEW S \in SUBSET Nat, NEW n \in S, \A j \in S : n <= j
  PROVE  Least(S) = n
<1>1. Least(S) \in S /\ Least(S) <= n
  BY LeastFacts
<1>2. n <= Least(S) /\ Least(S) \in Nat
  BY <1>1
<1>3. QED
  BY <1>1, <1>2

\* FirstError finds nothing, or a check that fails.
LEMMA FirstErrorFacts ==
  ASSUME NEW checks, Listed(checks)
  PROVE  /\ ~Fails(checks) => FirstError(checks) = None
         /\ Fails(checks) =>
              \E i \in DOMAIN checks : /\ checks[i].fails
                                       /\ FirstError(checks) = checks[i].error
<1> DEFINE failing == {i \in DOMAIN checks : checks[i].fails}
           Is(i) == /\ checks[i].fails
                    /\ \A j \in DOMAIN checks : j < i => ~checks[j].fails
           first == CHOOSE i \in DOMAIN checks : Is(i)
<1>1. failing \subseteq Nat
  BY ListedFacts
<1>2. ASSUME Fails(checks)
      PROVE  first \in DOMAIN checks /\ checks[first].fails
  <2>1. failing # {}
    BY <1>2 DEF Fails
  <2>2. /\ Least(failing) \in failing
        /\ \A j \in failing : Least(failing) <= j
    BY <1>1, <2>1, LeastFacts
  <2>3. \A j \in DOMAIN checks : j < Least(failing) => ~checks[j].fails
    <3>1. SUFFICES ASSUME NEW j \in DOMAIN checks, j < Least(failing),
                          checks[j].fails
                   PROVE  FALSE
      OBVIOUS
    <3>2. j \in failing /\ j \in Nat /\ Least(failing) \in Nat
      BY <1>1, <2>2, <3>1
    <3> HIDE DEF failing
    <3>3. QED
      BY <2>2, <3>1, <3>2
  <2>4. Is(Least(failing)) /\ Least(failing) \in DOMAIN checks
    BY <2>2, <2>3
  <2>5. QED
    BY <2>4
<1>3. FirstError(checks) = IF Fails(checks) THEN checks[first].error ELSE None
  BY DEF FirstError, Fails
<1> HIDE DEF first
<1>4. QED
  BY <1>2, <1>3

\* Two lists of checks, one after the other.
LEMMA ConcatFacts ==
  ASSUME NEW a, NEW b, Listed(a), Listed(b)
  PROVE  /\ Listed(a \o b)
         /\ Fails(a \o b) <=> Fails(a) \/ Fails(b)
         /\ Refusing(a) /\ Refusing(b) => Refusing(a \o b)
         /\ \A e : Blamed(a \o b, e) => Blamed(a, e) \/ Blamed(b, e)
<1> DEFINE S == {a[i] : i \in DOMAIN a} \cup {b[i] : i \in DOMAIN b}
           c == a \o b
<1>1. a \in Seq(S) /\ b \in Seq(S)
  BY DEF Listed
<1>2. /\ Len(a) \in Nat /\ DOMAIN a = 1..Len(a)
      /\ Len(b) \in Nat /\ DOMAIN b = 1..Len(b)
  BY <1>1
<1>3. /\ c \in Seq(S) /\ DOMAIN c = 1..(Len(a) + Len(b))
      /\ Len(c) = Len(a) + Len(b)
      /\ \A i \in 1..Len(a) : c[i] = a[i]
      /\ \A i \in 1..Len(b) : c[Len(a) + i] = b[i]
  BY <1>1
<1> HIDE DEF S, c
<1>4. \A i \in 1..Len(a) : i \in DOMAIN c
  BY <1>2, <1>3
<1>5. \A i \in 1..Len(b) : Len(a) + i \in DOMAIN c
  BY <1>2, <1>3
<1>6. ASSUME NEW i \in DOMAIN c, i \notin DOMAIN a
      PROVE  \E j \in DOMAIN b : i = Len(a) + j
  <2>1. i - Len(a) \in 1..Len(b) /\ i = Len(a) + (i - Len(a))
    BY <1>2, <1>3, <1>6
  <2>2. QED
    BY <1>2, <2>1
<1>7. Listed(c)
  <2> DEFINE T == {c[i] : i \in DOMAIN c}
  <2>1. Len(c) \in Nat /\ DOMAIN c = 1..Len(c) /\ c = [i \in 1..Len(c) |-> c[i]]
    BY <1>3
  <2>2. \A i \in 1..Len(c) : c[i] \in T
    BY <2>1
  <2> HIDE DEF T
  <2>3. c \in Seq(T)
    BY <2>1, <2>2
  <2>4. QED
    BY <2>3 DEF Listed, T
<1>8. Fails(c) <=> Fails(a) \/ Fails(b)
  <2>1. Fails(a) => Fails(c)
    BY <1>2, <1>3, <1>4 DEF Fails
  <2>2. Fails(b) => Fails(c)
    BY <1>2, <1>3, <1>5 DEF Fails
  <2>3. Fails(c) => Fails(a) \/ Fails(b)
    BY <1>2, <1>3, <1>6 DEF Fails
  <2>4. QED
    BY <2>1, <2>2, <2>3
<1>9. Refusing(a) /\ Refusing(b) => Refusing(c)
  BY <1>2, <1>3, <1>6 DEF Refusing
<1>10. \A e : Blamed(c, e) => Blamed(a, e) \/ Blamed(b, e)
  BY <1>2, <1>3, <1>6 DEF Blamed
<1>11. QED
  BY <1>7, <1>8, <1>9, <1>10 DEF c

\* Lists of one, none, and three checks.
LEMMA Tuple1 ==
  ASSUME NEW a
  PROVE  /\ Listed(<<a>>)
         /\ Fails(<<a>>) <=> a.fails
         /\ Harmless(a.error) => Refusing(<<a>>)
BY DEF Listed, Fails, Refusing

LEMMA EmptyChecks == Listed(<<>>) /\ ~Fails(<<>>) /\ Refusing(<<>>)
BY DEF Listed, Fails, Refusing

\* Errors that claim no effects.
LEMMA ReplyHarmless ==
  ASSUME NEW kind \in Kinds \ {"ok"}, NEW phase \in Phases
  PROVE  Harmless(Reply(kind, phase, "none"))
BY DEF Harmless, Replies, Reply, EffectStates

LEMMA Errors ==
  /\ Harmless(InvalidRequest) /\ Harmless(Unsupported)
  /\ Harmless(Unauthorized) /\ Harmless(CancelledBeforeLaunch)
  /\ Harmless(HostMisconfigured) /\ Harmless(SchemaFileError)
  /\ Harmless(Reply("Provider", "Launch", "none"))
BY ReplyHarmless DEF InvalidRequest, Unsupported, Unauthorized,
     CancelledBeforeLaunch, HostMisconfigured, SchemaFileError, Kinds, Phases

\* The checks that do not loop over anything.
LEMMA CodexSkillChecks ==
  ASSUME NEW h, NEW f
  PROVE  Listed(SkillChecks(h, f)) /\ Refusing(SkillChecks(h, f))
<1> DEFINE a == Check(h.skills = "excessive", HostMisconfigured)
           b == Check(/\ h.skills \notin {"inherit", "excessive"}
                      /\ f[h.skills] # "skill", HostMisconfigured)
<1>1. Harmless(a.error) /\ Harmless(b.error)
  BY Errors DEF Check
<1>2. SkillChecks(h, f) = <<a, b>>
  BY DEF SkillChecks
<1> HIDE DEF a, b
<1>3. QED
  BY <1>1, <1>2 DEF Listed, Refusing

\* The checks of build_codex and build_claude.
LEMMA LaunchChecksFacts ==
  ASSUME NEW h
  PROVE  Listed(LaunchChecks(h)) /\ Refusing(LaunchChecks(h))
<1> DEFINE a == Check(EnvironmentInvalid(h.environment), HostMisconfigured)
           b == Check(h.config = "nonutf8", HostMisconfigured)
           c == Check(h.binary = "missing", Reply("Provider", "Launch", "none"))
<1>1. Harmless(a.error) /\ Harmless(b.error) /\ Harmless(c.error)
  BY Errors DEF Check
<1>2. LaunchChecks(h) = <<a, b, c>>
  BY DEF LaunchChecks
<1> HIDE DEF a, b, c
<1>3. QED
  BY <1>1, <1>2 DEF Listed, Refusing

LEMMA Tuple3 ==
  ASSUME NEW a, NEW b, NEW c
  PROVE  /\ Listed(<<a, b, c>>)
         /\ Fails(<<a, b, c>>) <=> a.fails \/ b.fails \/ c.fails
         /\ Harmless(a.error) /\ Harmless(b.error) /\ Harmless(c.error) =>
              Refusing(<<a, b, c>>)
BY DEF Listed, Fails, Refusing

\* The fields of a check.
LEMMA CheckFields ==
  ASSUME NEW x, NEW e
  PROVE  Check(x, e).fails = x /\ Check(x, e).error = e
BY DEF Check

\* preflight_session, which refuses a foreign session.
LEMMA ClaudeSessionFacts ==
  ASSUME NEW t
  PROVE  /\ Listed(ClaudeSessionChecks(t)) /\ Refusing(ClaudeSessionChecks(t))
         /\ t["resume"] # None /\ t["resume"].provider # "claude" =>
              Fails(ClaudeSessionChecks(t))
<1> DEFINE resume == t["resume"]
           a == Check(t["prompt"] = "blank", InvalidRequest)
           b == Check(resume # None /\ resume.provider # "claude", Unsupported)
           c == Check(resume # None /\ resume.value \in {"blank", "hyphen"},
                      InvalidRequest)
<1>1. Harmless(a.error) /\ Harmless(b.error) /\ Harmless(c.error)
  BY Errors, CheckFields
<1>2. b.fails <=> resume # None /\ resume.provider # "claude"
  BY DEF Check
<1>3. ClaudeSessionChecks(t) = <<a, b, c>>
  BY DEF ClaudeSessionChecks
<1> HIDE DEF a, b, c
<1>4. QED
  BY <1>1, <1>2, <1>3, Tuple3

\* validate_preassigned_session: what passes is fresh and Claude's.
LEMMA PreassignedFacts ==
  ASSUME NEW t, NEW x
  PROVE  /\ Listed(PreassignedChecks(t, x)) /\ Refusing(PreassignedChecks(t, x))
         /\ x = None => ~Fails(PreassignedChecks(t, x))
         /\ x # None /\ ~Fails(PreassignedChecks(t, x)) =>
              t["resume"] = None /\ x.provider = "claude"
<1> DEFINE a == Check(t["resume"] # None, InvalidRequest)
           b == Check(x.provider # "claude", Unsupported)
           c == Check(x.value # "uuid", InvalidRequest)
<1>1. /\ Harmless(a.error) /\ Harmless(b.error) /\ Harmless(c.error)
  BY Errors, CheckFields
<1>6. /\ a.fails <=> t["resume"] # None
      /\ b.fails <=> x.provider # "claude"
  BY DEF Check
<1>2. PreassignedChecks(t, x) = IF x = None THEN <<>> ELSE <<a, b, c>>
  BY DEF PreassignedChecks
<1> HIDE DEF a, b, c
<1>3. CASE x = None
  BY <1>2, <1>3, EmptyChecks
<1>4. CASE x # None
  BY <1>1, <1>2, <1>4, <1>6, Tuple3
<1>5. QED
  BY <1>3, <1>4

\* The option checks of Claude, the first of which is the ambient context.
LEMMA ClaudeOptionFacts ==
  ASSUME NEW t, NEW h
  PROVE  /\ Listed(ClaudeOptionChecks(t, h)) /\ Refusing(ClaudeOptionChecks(t, h))
         /\ ~Fails(ClaudeOptionChecks(t, h)) =>
              EffectiveAmbient(h.ambient, t["claude.ambient"]) # None
<1> DEFINE n == EffectiveAmbient(h.ambient, t["claude.ambient"]) = None
           a == Check(n, InvalidRequest)
           b == Check(t["model"] = "blank", InvalidRequest)
           c == Check(t["claude.max_turns"] = 0, InvalidRequest)
           d == Check(t["claude.tools"] = "blank", InvalidRequest)
           e == Check(t["claude.budget"] = "nonpositive", InvalidRequest)
           f == Check(t["claude.fallback"] = "blank", InvalidRequest)
           g == Check(t["claude.schema"] \in {"oversized", "invalid"},
                      InvalidRequest)
           i == Check(Contains(t["dirs"], "nonutf8"), InvalidRequest)
<1>1. /\ Harmless(a.error) /\ Harmless(b.error) /\ Harmless(c.error)
      /\ Harmless(d.error) /\ Harmless(e.error) /\ Harmless(f.error)
      /\ Harmless(g.error) /\ Harmless(i.error)
  BY Errors, CheckFields
<1>2. a.fails <=> n
  BY CheckFields
<1>3. ClaudeOptionChecks(t, h) = <<a, b, c, d, e, f, g, i>>
  BY DEF ClaudeOptionChecks
<1> HIDE DEF a, b, c, d, e, f, g, i, n
<1>4. Listed(<<a, b, c, d, e, f, g, i>>)
  BY DEF Listed
<1>5. Refusing(<<a, b, c, d, e, f, g, i>>)
  BY <1>1 DEF Refusing
<1>6. a.fails => Fails(<<a, b, c, d, e, f, g, i>>)
  BY DEF Fails
<1>7. QED
  BY <1>2, <1>3, <1>4, <1>5, <1>6 DEF n

\* The handle that an error is given does not make it less harmless.
LEMMA AttachHarmless ==
  ASSUME NEW e, Harmless(e), NEW x \in {None} \cup Handles
  PROVE  Harmless(Attach(e, x))
BY DEF Harmless, Replies, Attach, WithSession

\* A list of checks whose errors are given a handle.
LEMMA AttachedFacts ==
  ASSUME NEW checks, Listed(checks), Refusing(checks),
         NEW x \in {None} \cup Handles
  PROVE  /\ Listed(Attached(checks, x)) /\ Refusing(Attached(checks, x))
         /\ Fails(Attached(checks, x)) <=> Fails(checks)
<1> DEFINE s == Attached(checks, x)
<1>1. Len(checks) \in Nat /\ DOMAIN checks = 1..Len(checks)
  BY ListedFacts
<1>2. /\ DOMAIN s = 1..Len(checks)
      /\ \A i \in 1..Len(checks) :
           /\ s[i] = Check(checks[i].fails, Attach(checks[i].error, x))
           /\ s[i].fails = checks[i].fails
           /\ s[i].error = Attach(checks[i].error, x)
  BY <1>1, CheckFields DEF Attached
<1>3. s = [i \in 1..Len(checks) |-> s[i]]
  BY <1>1 DEF Attached
<1> HIDE DEF s
<1>4. Listed(s)
  <2> DEFINE S == {s[i] : i \in DOMAIN s}
  <2>1. s \in [1..Len(checks) -> S]
    BY <1>2, <1>3
  <2> HIDE DEF S
  <2>2. s \in Seq(S)
    BY <1>1, <2>1
  <2>3. QED
    BY <2>2 DEF Listed, S
<1>5. Refusing(s)
  BY <1>1, <1>2, AttachHarmless DEF Refusing
<1>6. Fails(s) <=> Fails(checks)
  BY <1>1, <1>2 DEF Fails
<1>7. QED
  BY <1>4, <1>5, <1>6 DEF s

LEMMA SeqSubset ==
  ASSUME NEW A, NEW S, A \subseteq S, NEW q \in Seq(A)
  PROVE  q \in Seq(S)
OBVIOUS

\* The roots of a turn are a list.
LEMMA RootsListed ==
  ASSUME NEW t, t["dirs"] \in Seq(STRING)
  PROVE  Len(Roots(t)) \in Nat /\ DOMAIN Roots(t) = 1..Len(Roots(t))
<1> DEFINE S == STRING \cup {t["cwd"]}
           a == IF t["cwd"] = None THEN <<>> ELSE <<t["cwd"]>>
           b == t["dirs"]
<1>1. t["cwd"] \in S /\ STRING \subseteq S
  OBVIOUS
<1> HIDE DEF S
<1>2. a \in Seq(S) /\ b \in Seq(S)
  <2>1. <<>> \in Seq(S) /\ <<t["cwd"]>> \in Seq(S)
    BY <1>1
  <2>2. b \in Seq(S)
    BY <1>1, SeqSubset
  <2>3. QED
    BY <2>1, <2>2
<1> HIDE DEF a, b
<1>3. a \o b \in Seq(S)
  BY <1>2
<1>4. Len(a \o b) \in Nat /\ DOMAIN (a \o b) = 1..Len(a \o b)
  BY <1>3
<1>5. QED
  BY <1>4 DEF Roots, a, b

\* What AuthorityPolicy::authorize grants.
Granted(t, h, g) ==
  /\ t["filesystem"] <= h.ceiling
  /\ t["filesystem"] = WorkspaceWrite =>
       \A i \in DOMAIN Roots(t) : g[Roots(t)[i]] = "inside"

\* AuthorityPolicy::authorize fails exactly if it does not grant.
LEMMA AuthorizeFacts ==
  ASSUME NEW t, NEW h, NEW g, t["dirs"] \in Seq(STRING)
  PROVE  /\ Listed(Authorize(t, h, g)) /\ Refusing(Authorize(t, h, g))
         /\ Fails(Authorize(t, h, g)) <=> ~Granted(t, h, g)
<1> DEFINE roots == Roots(t)
           root(path) == Check(g[path] # "inside",
                               IF g[path] = "dangling" THEN InvalidRequest
                                                       ELSE Unauthorized)
           a == Check(~(t["filesystem"] <= h.ceiling), Unauthorized)
           b == [i \in DOMAIN roots |-> root(roots[i])]
           c == IF t["filesystem"] # WorkspaceWrite THEN <<>> ELSE b
<1>1. Authorize(t, h, g) = <<a>> \o c
  BY DEF Authorize
<1>2. Harmless(a.error)
  BY Errors, CheckFields
<1>3. a.fails <=> ~(t["filesystem"] <= h.ceiling)
  BY DEF Check
<1>4. \A path : Harmless(root(path).error)
  BY Errors DEF Check
<1>5. \A path : root(path).fails <=> g[path] # "inside"
  BY DEF Check
<1>6. Len(roots) \in Nat /\ DOMAIN roots = 1..Len(roots)
  BY RootsListed
<1> HIDE DEF a, root, roots
<1>7. Listed(b)
  <2> DEFINE S == {b[i] : i \in DOMAIN b}
  <2>1. DOMAIN b = 1..Len(roots) /\ b = [i \in 1..Len(roots) |-> b[i]]
    BY <1>6
  <2>2. \A i \in DOMAIN b : b[i] \in S
    OBVIOUS
  <2> HIDE DEF S, b
  <2>3. b \in [1..Len(roots) -> S]
    BY <2>1, <2>2
  <2>4. b \in Seq(S)
    BY <1>6, <2>3
  <2>5. QED
    BY <2>4 DEF Listed, S
<1>8. Refusing(b)
  BY <1>4 DEF Refusing
<1>9. Fails(b) <=> \E i \in DOMAIN roots : g[roots[i]] # "inside"
  BY <1>5 DEF Fails
<1> HIDE DEF b
<1>10. /\ Listed(c) /\ Refusing(c)
       /\ Fails(c) <=> /\ t["filesystem"] = WorkspaceWrite
                       /\ \E i \in DOMAIN roots : g[roots[i]] # "inside"
  BY <1>7, <1>8, <1>9, EmptyChecks
<1> HIDE DEF c
<1>11. /\ Listed(<<a>>) /\ Refusing(<<a>>)
       /\ Fails(<<a>>) <=> ~(t["filesystem"] <= h.ceiling)
  BY <1>2, <1>3, Tuple1
<1>12. /\ Listed(<<a>> \o c) /\ Refusing(<<a>> \o c)
       /\ Fails(<<a>> \o c) <=> Fails(<<a>>) \/ Fails(c)
  BY <1>10, <1>11, ConcatFacts
<1>13. QED
  BY <1>1, <1>10, <1>11, <1>12 DEF Granted, roots

\* The checks of Codex that follow the authority.
CodexTurnChecks(t) ==
  LET resume == t["resume"]
      resumed == resume # None
  IN << Check(t["prompt"] = "blank", InvalidRequest),
        Check(t["model"] = "blank", InvalidRequest),
        Check(resumed /\ resume.provider # "codex", Unsupported),
        Check(resumed /\ resume.value \in {"blank", "hyphen"},
              InvalidRequest),
        Check(resumed /\ t["dirs"] # <<>>, Unsupported),
        Check(Contains(t["dirs"], "nonutf8"), Unsupported),
        Check(t["codex.schema"] \in {"oversized", "invalid"},
              InvalidRequest) >>

\* The checks of preflight_turn, which refuse a foreign session.
LEMMA CodexTurnFacts ==
  ASSUME NEW t
  PROVE  /\ Listed(CodexTurnChecks(t)) /\ Refusing(CodexTurnChecks(t))
         /\ t["resume"] # None /\ t["resume"].provider # "codex" =>
              Fails(CodexTurnChecks(t))
         /\ t["resume"] # None /\ t["dirs"] # <<>> => Fails(CodexTurnChecks(t))
<1> DEFINE resume == t["resume"]
           resumed == resume # None
           a == Check(t["prompt"] = "blank", InvalidRequest)
           b == Check(t["model"] = "blank", InvalidRequest)
           c == Check(resumed /\ resume.provider # "codex", Unsupported)
           d == Check(resumed /\ resume.value \in {"blank", "hyphen"},
                      InvalidRequest)
           e == Check(resumed /\ t["dirs"] # <<>>, Unsupported)
           f == Check(Contains(t["dirs"], "nonutf8"), Unsupported)
           g == Check(t["codex.schema"] \in {"oversized", "invalid"},
                      InvalidRequest)
<1>1. /\ Harmless(a.error) /\ Harmless(b.error) /\ Harmless(c.error)
      /\ Harmless(d.error) /\ Harmless(e.error) /\ Harmless(f.error)
      /\ Harmless(g.error)
  BY Errors, CheckFields
<1>2. CodexTurnChecks(t) = <<a, b, c, d, e, f, g>>
  BY DEF CodexTurnChecks
<1>3. /\ c.fails <=> resumed /\ resume.provider # "codex"
      /\ e.fails <=> resumed /\ t["dirs"] # <<>>
  BY DEF Check
<1> HIDE DEF a, b, c, d, e, f, g
<1>4. Listed(<<a, b, c, d, e, f, g>>)
  BY DEF Listed
<1>5. Refusing(<<a, b, c, d, e, f, g>>)
  BY <1>1 DEF Refusing
<1>6. c.fails \/ e.fails => Fails(<<a, b, c, d, e, f, g>>)
  BY DEF Fails
<1>7. QED
  BY <1>2, <1>3, <1>4, <1>5, <1>6

\* All checks that Codex's preflight and call share.
LEMMA CodexChecksFacts ==
  ASSUME NEW t, NEW h, NEW g, t["dirs"] \in Seq(STRING)
  PROVE  /\ Listed(CodexChecks(t, h, g)) /\ Refusing(CodexChecks(t, h, g))
         /\ Fails(CodexChecks(t, h, g)) <=>
              ~Granted(t, h, g) \/ Fails(CodexTurnChecks(t))
<1>1. CodexChecks(t, h, g) = Authorize(t, h, g) \o CodexTurnChecks(t)
  BY DEF CodexChecks, CodexTurnChecks
<1>2. QED
  BY <1>1, AuthorizeFacts, CodexTurnFacts, ConcatFacts

(***************************************************************************)
(* What a planned turn says                                                *)
(***************************************************************************)

\* When no answer is reported, every answer is bound, and to a path that no
\* layer binds.
LEMMA AnswersUsed ==
  ASSUME NEW m, NEW a, AnswerCodes(m, a) = {}
  PROVE  \A i \in DOMAIN a : Usable(a[i]) /\ ~Bound(m, a[i].id)
<1> DEFINE bound(i) == \/ Bound(m, a[i].id)
                       \/ \E j \in UsableFor(a, a[i].id) : j < i
           unknown(i) == When(a[i].id \notin Askable, "unknown-requirement")
           twice(i) == When(a[i].id \in Askable /\ bound(i),
                            "answer-overrides-bound-path")
           wrong(i) == When(/\ a[i].id = "provider" /\ ~bound(i)
                            /\ a[i].value \notin ProviderIds,
                            "invalid-provider-answer")
           codes(i) == unknown(i) \cup twice(i) \cup wrong(i)
<1>1. AnswerCodes(m, a) = UNION {codes(i) : i \in DOMAIN a}
  BY DEF AnswerCodes
<1> SUFFICES ASSUME NEW i \in DOMAIN a
             PROVE  Usable(a[i]) /\ ~Bound(m, a[i].id)
  OBVIOUS
<1>2. unknown(i) = {} /\ twice(i) = {} /\ wrong(i) = {}
  <2>1. codes(i) \subseteq AnswerCodes(m, a)
    <3> HIDE DEF codes
    <3>1. QED
      BY <1>1
  <2>2. QED
    BY <2>1
<1>3. a[i].id \in Askable
  BY <1>2 DEF When
<1>4. ~bound(i)
  BY <1>2, <1>3 DEF When
<1>5. a[i].id = "provider" => a[i].value \in ProviderIds
  BY <1>2, <1>4 DEF When
<1>6. QED
  BY <1>3, <1>4, <1>5 DEF Usable

\* The answers to a path.
AnswersTo(a, path) == {i \in DOMAIN a : a[i].id = path}

\* What the layers and the answers bind, path by path.
LEMMA AnsweredFacts ==
  ASSUME NEW m, NEW a, NEW path, DOMAIN a \subseteq Nat,
         AnswerCodes(m, a) = {}
  PROVE  LET given == AnswersTo(a, path)
             t == Answered(m, a)
         IN /\ given # {} =>
                 /\ Bound(t, path) /\ path \in Askable
                 /\ t[path] = a[Least(given)].value
                 /\ path = "provider" => t[path] \in ProviderIds
                 /\ UsableFor(a, path) = given
                 /\ ~Bound(m, path)
            /\ given = {} =>
                 /\ UsableFor(a, path) = {}
                 /\ Bound(t, path) <=> Bound(m, path)
                 /\ Bound(m, path) => t[path] = m[path]
<1> DEFINE given == AnswersTo(a, path)
           t == Answered(m, a)
<1>1. \A i \in given : Usable(a[i]) /\ ~Bound(m, path)
  BY AnswersUsed DEF AnswersTo
<1>2. UsableFor(a, path) = given
  BY <1>1 DEF UsableFor, AnswersTo
<1>3. ASSUME given # {}
      PROVE  /\ Bound(t, path) /\ path \in Askable
             /\ t[path] = a[Least(given)].value
             /\ path = "provider" => t[path] \in ProviderIds
             /\ ~Bound(m, path)
  <2>1. Least(given) \in given
    BY <1>3, LeastFacts DEF AnswersTo
  <2>2. /\ Usable(a[Least(given)]) /\ a[Least(given)].id = path
        /\ ~Bound(m, path)
    BY <1>1, <2>1 DEF AnswersTo
  <2>3. path \in Askable
    BY <2>2 DEF Usable
  <2>4. Bound(t, path) /\ t[path] = AnswerTo(a, path)
    BY <1>2, <1>3, <2>2, <2>3 DEF Answered, Bound
  <2>5. t[path] = a[Least(given)].value
    BY <1>2, <2>4 DEF AnswerTo
  <2>6. QED
    BY <2>2, <2>3, <2>4, <2>5 DEF Usable
<1>4. ASSUME given = {}
      PROVE  /\ Bound(t, path) <=> Bound(m, path)
             /\ Bound(m, path) => t[path] = m[path]
  BY <1>2, <1>4 DEF Answered, Bound
<1>5. QED
  BY <1>2, <1>3, <1>4

\* What the highest of the layers that binds a path says.
LayerOf(l, provider, path) ==
  IF Bound(l.explicit, path) THEN l.explicit[path]
  ELSE IF Bound(l.profile, path) THEN l.profile[path]
  ELSE IF Bound(l.defaults, path) THEN l.defaults[path]
  ELSE l.baseline[provider][path]

Layered(l, provider, path) ==
  \/ Bound(l.explicit, path) \/ Bound(l.profile, path)
  \/ Bound(l.defaults, path)
  \/ path # "provider" /\ Bound(l.baseline[provider], path)

\* Merging the layers finds it.
LEMMA MergeFacts ==
  ASSUME NEW l, NEW path,
         Selected(l) # None \/ Bound(Upper(l), path)
  PROVE  LET m == Merge(Baseline(l), Upper(l))
         IN /\ Bound(m, path) <=> Layered(l, Selected(l), path)
            /\ Bound(m, path) => m[path] = LayerOf(l, Selected(l), path)
<1> DEFINE m == Merge(Baseline(l), Upper(l))
           p == Selected(l)
<1>1. /\ Bound(Upper(l), path) <=> \/ Bound(l.explicit, path)
                                   \/ Bound(l.profile, path)
                                   \/ Bound(l.defaults, path)
      /\ Bound(Upper(l), path) => Upper(l)[path] = LayerOf(l, p, path)
  BY DEF Upper, Merge, Bound, LayerOf
<1>2. p # None =>
        /\ Bound(Baseline(l), path) <=>
             path # "provider" /\ Bound(l.baseline[p], path)
        /\ Bound(Baseline(l), path) =>
             Baseline(l)[path] = l.baseline[p][path]
  BY DEF Baseline, Bound
<1>3. /\ Bound(m, path) <=> Bound(Upper(l), path) \/ Bound(Baseline(l), path)
      /\ Bound(Upper(l), path) => m[path] = Upper(l)[path]
      /\ ~Bound(Upper(l), path) /\ Bound(m, path) =>
           m[path] = Baseline(l)[path]
  BY DEF Merge, Bound
<1> HIDE DEF m, p
<1>4. CASE Bound(Upper(l), path)
  BY <1>1, <1>3, <1>4 DEF Layered, m, p
<1>5. CASE ~Bound(Upper(l), path)
  BY <1>1, <1>2, <1>3, <1>5 DEF Layered, LayerOf, m, p
<1>6. QED
  BY <1>4, <1>5

\* So does the chain of the layers.
LEMMA WantedFacts ==
  ASSUME NEW l, l # None, NEW t, NEW path
  PROVE  LET given == AnswersTo(l.answers, path)
         IN /\ given # {} =>
                 WantedOf(l, t, path) = l.answers[Least(given)].value
            /\ given = {} =>
                 WantedOf(l, t, path) =
                   IF Layered(l, t["provider"], path)
                     THEN LayerOf(l, t["provider"], path)
                     ELSE DefaultOf(path)
<1> DEFINE given == AnswersTo(l.answers, path)
           b == l.baseline[t["provider"]]
           chain == <<l.explicit, l.profile, l.defaults, b>>
           binding == {k \in DOMAIN chain :
                         Bound(chain[k], path) /\ (path = "provider" => k # 4)}
           w == WantedOf(l, t, path)
<1>1. w = IF given # {} THEN l.answers[Least(given)].value
          ELSE IF binding # {} THEN chain[Least(binding)][path]
          ELSE DefaultOf(path)
  BY DEF WantedOf, AnswersTo
<1>2. DOMAIN chain = 1..4
  OBVIOUS
<1>3. /\ chain[1] = l.explicit /\ chain[2] = l.profile
      /\ chain[3] = l.defaults /\ chain[4] = b
  OBVIOUS
<1> HIDE DEF chain, w, given
<1>4. /\ binding \in SUBSET Nat
      /\ 1 \in binding <=> Bound(l.explicit, path)
      /\ 2 \in binding <=> Bound(l.profile, path)
      /\ 3 \in binding <=> Bound(l.defaults, path)
      /\ 4 \in binding <=> path # "provider" /\ Bound(b, path)
      /\ \A k \in binding : k \in 1..4
  BY <1>2, <1>3
<1> HIDE DEF binding
<1>5. CASE 1 \in binding
  <2>1. Least(binding) = 1
    BY <1>4, <1>5, LeastIs
  <2>2. QED
    BY <1>1, <1>3, <1>4, <1>5, <2>1 DEF Layered, LayerOf, w, given
<1>6. CASE 1 \notin binding /\ 2 \in binding
  <2>1. \A k \in binding : 2 <= k
    BY <1>4, <1>6
  <2>2. Least(binding) = 2
    BY <1>4, <1>6, <2>1, LeastIs
  <2>3. QED
    BY <1>1, <1>3, <1>4, <1>6, <2>2 DEF Layered, LayerOf, w, given
<1>7. CASE 1 \notin binding /\ 2 \notin binding /\ 3 \in binding
  <2>1. \A k \in binding : 3 <= k
    BY <1>4, <1>7
  <2>2. Least(binding) = 3
    BY <1>4, <1>7, <2>1, LeastIs
  <2>3. QED
    BY <1>1, <1>3, <1>4, <1>7, <2>2 DEF Layered, LayerOf, w, given
<1>8. CASE 1 \notin binding /\ 2 \notin binding /\ 3 \notin binding
  <2>1. CASE 4 \in binding
    <3>1. \A k \in binding : 4 <= k
      BY <1>4, <1>8
    <3>2. Least(binding) = 4
      BY <1>4, <2>1, <3>1, LeastIs
    <3>3. QED
      BY <1>1, <1>3, <1>4, <1>8, <2>1, <3>2 DEF Layered, LayerOf, w, given
  <2>2. CASE 4 \notin binding
    <3>1. binding = {}
      BY <1>4, <1>8, <2>2
    <3>2. QED
      BY <1>1, <1>4, <1>8, <2>2, <3>1 DEF Layered, w, given
  <2>3. QED
    BY <2>1, <2>2
<1>9. QED
  BY <1>5, <1>6, <1>7, <1>8

\* A turn that is ready has a provider, and each of its fields says what was
\* asked for.
LEMMA PlannedFacts ==
  ASSUME NEW l, l # None, LayersTyped(l), Prepare(l).tag = "ready"
  PROVE  LET t == TurnOf(Prepare(l).turn)
         IN /\ DOMAIN t = TurnPaths(t["provider"])
            /\ \A path \in SharedPaths \cup TurnPaths(t["provider"]) :
                 WantedOf(l, t, path) =
                   IF Bound(t, path) THEN t[path] ELSE DefaultOf(path)
<1> DEFINE m == Merge(Baseline(l), Upper(l))
           a == l.answers
           r == Answered(m, a)
           p == r["provider"]
           t == TurnOf(r)
<1>1. /\ Prepare(l).turn = r /\ AnswerCodes(m, a) = {}
      /\ Requirements(r) = {} /\ FoldCodes(r) = {}
  <2>1. /\ Prepare(l).turn = Resolve(l).turn
        /\ Resolve(l).tag = "complete" /\ FoldCodes(Resolve(l).turn) = {}
    <3>1. Resolve(l).tag # "ready"
      BY DEF Resolve
    <3>2. DOMAIN Resolve(l) = {"tag", "turn", "codes", "asks"}
      BY DEF Resolve
    <3>3. QED
      BY <3>1, <3>2 DEF Prepare
  <2>2. Resolve(l).turn = r
    BY DEF Resolve
  <2>3. AnswerCodes(m, a) = {} /\ Requirements(r) = {}
    BY <2>1 DEF Resolve
  <2>4. QED
    BY <2>1, <2>2, <2>3
<1>2. DOMAIN a \subseteq Nat
  BY DEF LayersTyped
<1> HIDE DEF m, a, r
<1>3. Bound(r, "provider")
  BY <1>1 DEF Requirements, Bound
<1>4. p = Selected(l) /\ p \in ProviderIds
  <2> DEFINE given == AnswersTo(a, "provider")
  <2>1. CASE given # {}
    <3>1. /\ p = a[Least(given)].value /\ p \in ProviderIds
          /\ UsableFor(a, "provider") = given /\ ~Bound(m, "provider")
      BY <1>1, <1>2, <2>1, AnsweredFacts DEF r
    <3>2. ~Bound(Upper(l), "provider")
      BY <3>1 DEF m, Merge, Bound
    <3>3. QED
      BY <2>1, <3>1, <3>2 DEF Selected, AnswerTo, a
  <2>2. CASE given = {}
    <3>1. Bound(m, "provider") /\ p = m["provider"]
      BY <1>1, <1>2, <1>3, <2>2, AnsweredFacts DEF r
    <3>2. Bound(Upper(l), "provider")
      BY <3>1 DEF m, Merge, Bound, Baseline, Unbound
    <3>3. p = Upper(l)["provider"]
      BY <3>1, <3>2 DEF m, Merge, Bound
    <3>4. Upper(l)["provider"] \in ProviderIds
      BY <3>2 DEF Upper, Merge, Bound, LayersTyped
    <3>5. QED
      BY <3>2, <3>3, <3>4 DEF Selected
  <2>3. QED
    BY <2>1, <2>2
<1>5. Selected(l) # None
  BY <1>4, NoneAssumption
<1>6. t = Filled(r, TurnPaths(p))
  BY <1>4 DEF TurnOf, ClaudeTurn, CodexTurn, ProviderIds
<1> HIDE DEF p
<1>7. "provider" \in TurnPaths(p)
  BY DEF TurnPaths, SharedPaths
<1>8. /\ DOMAIN t = TurnPaths(p)
      /\ \A path \in TurnPaths(p) :
           t[path] = IF Bound(r, path) THEN r[path] ELSE DefaultOf(path)
  BY <1>6 DEF Filled
<1>9. t["provider"] = p
  BY <1>3, <1>7, <1>8 DEF p
<1> HIDE DEF t
<1>10. ASSUME NEW path \in SharedPaths, path \notin TurnPaths(p)
       PROVE  ~Bound(r, path)
  <2>1. path = "filesystem" /\ p = "claude"
    BY <1>4, <1>10 DEF TurnPaths, SharedPaths, ProviderIds
  <2>2. ClaudeFoldCodes(r) = {}
    BY <1>1, <2>1 DEF FoldCodes, p
  <2>3. QED
    BY <2>1, <2>2 DEF ClaudeFoldCodes, When
<1>11. ASSUME NEW path \in SharedPaths \cup TurnPaths(p)
       PROVE  WantedOf(l, t, path) =
                IF Bound(t, path) THEN t[path] ELSE DefaultOf(path)
  <2> DEFINE given == AnswersTo(a, path)
  <2>1. (IF Bound(t, path) THEN t[path] ELSE DefaultOf(path)) =
          IF Bound(r, path) THEN r[path] ELSE DefaultOf(path)
    BY <1>8, <1>10 DEF Bound
  <2>2. CASE given # {}
    <3>1. Bound(r, path) /\ r[path] = a[Least(given)].value
      BY <1>1, <1>2, <2>2, AnsweredFacts DEF r
    <3>2. WantedOf(l, t, path) = a[Least(given)].value
      BY <2>2, WantedFacts DEF a
    <3>3. QED
      BY <2>1, <3>1, <3>2
  <2>3. CASE given = {}
    <3>1. /\ Bound(r, path) <=> Bound(m, path)
          /\ Bound(m, path) => r[path] = m[path]
      BY <1>1, <1>2, <2>3, AnsweredFacts DEF r
    <3>2. /\ Bound(m, path) <=> Layered(l, p, path)
          /\ Bound(m, path) => m[path] = LayerOf(l, p, path)
      BY <1>4, <1>5, MergeFacts DEF m
    <3>3. WantedOf(l, t, path) =
            IF Layered(l, p, path) THEN LayerOf(l, p, path) ELSE DefaultOf(path)
      BY <1>9, <2>3, WantedFacts DEF a
    <3>4. QED
      BY <2>1, <3>1, <3>2, <3>3
  <2>4. QED
    BY <2>2, <2>3
<1>12. QED
  BY <1>1, <1>8, <1>9, <1>11 DEF t

(***************************************************************************)
(* Refusals                                                                *)
(***************************************************************************)

\* A list of harmless errors refuses exactly if a check fails.
LEMMA RefusalFacts ==
  ASSUME NEW checks, Listed(checks), Refusing(checks)
  PROVE  /\ FirstError(checks) = None <=> ~Fails(checks)
         /\ FirstError(checks) # None => /\ Harmless(FirstError(checks))
                                         /\ Blamed(checks, FirstError(checks))
<1>1. ASSUME Fails(checks)
      PROVE  /\ Harmless(FirstError(checks)) /\ FirstError(checks) # None
             /\ Blamed(checks, FirstError(checks))
  <2>1. PICK i \in DOMAIN checks :
          checks[i].fails /\ FirstError(checks) = checks[i].error
    BY <1>1, FirstErrorFacts
  <2>2. Harmless(checks[i].error)
    BY DEF Refusing
  <2>3. QED
    BY <2>1, <2>2, NonePlain DEF Harmless, Blamed
<1>2. ASSUME ~Fails(checks)
      PROVE  FirstError(checks) = None
  BY <1>2, FirstErrorFacts
<1>3. QED
  BY <1>1, <1>2

\* RoutedTurnService::call, what its refusal and its silence mean.
LEMMA RouteFacts ==
  /\ RouteRefusal = None =>
       /\ turn["resume"] # None => turn["resume"].provider = turn["provider"]
       /\ turn["provider"] \in host.registered
  /\ RouteRefusal # None =>
       /\ Harmless(RouteRefusal)
       /\ \/ turn["resume"] # None /\ turn["resume"].provider # turn["provider"]
          \/ turn["provider"] \notin host.registered
<1> DEFINE resume == turn["resume"]
           a == Check(resume # None /\ resume.provider # turn["provider"],
                      Unsupported)
           b == Check(turn["provider"] \notin host.registered, Unsupported)
<1>1. Harmless(a.error) /\ Harmless(b.error)
  BY Errors, CheckFields
<1>2. /\ a.fails <=> resume # None /\ resume.provider # turn["provider"]
      /\ b.fails <=> turn["provider"] \notin host.registered
  BY DEF Check
<1>3. RouteRefusal = FirstError(<<a, b>>)
  BY DEF RouteRefusal
<1> HIDE DEF a, b
<1>4. /\ Listed(<<a, b>>) /\ Refusing(<<a, b>>)
      /\ Fails(<<a, b>>) <=> a.fails \/ b.fails
  BY <1>1 DEF Listed, Refusing, Fails
<1>5. QED
  BY <1>2, <1>3, <1>4, RefusalFacts

\* The look at the token before the child exists.
LEMMA CancelCheck ==
  ASSUME NEW x
  PROVE  LET s == <<Check(x, CancelledBeforeLaunch)>>
         IN /\ Listed(s) /\ Refusing(s)
            /\ Fails(s) <=> x
            /\ \A e : Blamed(s, e) => e = CancelledBeforeLaunch
BY Tuple1, Errors, CheckFields DEF Blamed

\* What a refusal of CodexService::call means, and what its silence means.
LEMMA CodexCallFacts ==
  ASSUME NEW t, NEW h, NEW g, NEW x, NEW y, t["dirs"] \in Seq(STRING)
  PROVE  LET refusal == CodexCallRefusal(t, h, g, x, y)
         IN /\ refusal = None =>
                 /\ x = None /\ Granted(t, h, g)
                 /\ ~Fails(CodexChecks(t, h, g))
            /\ refusal # None =>
                 /\ Harmless(refusal)
                 /\ refusal.phase = "Validation" =>
                      x # None \/ Fails(CodexChecks(t, h, g))
<1> DEFINE a == Check(x # None, Unsupported)
           b == Check(y, CancelledBeforeLaunch)
           c == CodexChecks(t, h, g)
<1>1. Harmless(a.error) /\ Harmless(b.error)
  BY Errors, CheckFields
<1>2. /\ a.fails <=> x # None
      /\ b.error.phase = "Admission"
  BY DEF Check, CancelledBeforeLaunch, Reply
<1>3. CodexCallRefusal(t, h, g, x, y) = FirstError(<<a, b>> \o c)
  BY DEF CodexCallRefusal
<1> HIDE DEF a, b, c
<1>4. /\ Listed(<<a, b>>) /\ Refusing(<<a, b>>)
      /\ Fails(<<a, b>>) <=> a.fails \/ b.fails
      /\ \A e : Blamed(<<a, b>>, e) => (a.fails /\ e = a.error) \/ e = b.error
  BY <1>1 DEF Listed, Refusing, Fails, Blamed
<1>5. Listed(c) /\ Refusing(c) /\ (~Fails(c) => Granted(t, h, g))
  BY CodexChecksFacts DEF c
<1>6. /\ Listed(<<a, b>> \o c) /\ Refusing(<<a, b>> \o c)
      /\ Fails(<<a, b>> \o c) <=> Fails(<<a, b>>) \/ Fails(c)
      /\ \A e : Blamed(<<a, b>> \o c, e) => Blamed(<<a, b>>, e) \/ Blamed(c, e)
  BY <1>4, <1>5, ConcatFacts
<1>7. \A e : Blamed(c, e) => Fails(c)
  BY DEF Blamed, Fails
<1>8. QED
  BY <1>2, <1>3, <1>4, <1>5, <1>6, <1>7, RefusalFacts DEF c

\* Errors about the host are of the launch and name no session.
LEMMA HostErrors ==
  ASSUME NEW h, NEW f
  PROVE  /\ \A e : Blamed(SkillChecks(h, f), e) => e.phase = "Launch" /\ e.session = None
         /\ \A e : Blamed(LaunchChecks(h), e) => e.phase = "Launch" /\ e.session = None
<1>1. HostMisconfigured.phase = "Launch" /\ HostMisconfigured.session = None
  BY DEF HostMisconfigured, Reply
<1>2. /\ Reply("Provider", "Launch", "none").phase = "Launch"
      /\ Reply("Provider", "Launch", "none").session = None
  BY DEF Reply
<1>3. \A e : Blamed(SkillChecks(h, f), e) => e = HostMisconfigured
  <2> DEFINE a == Check(h.skills = "excessive", HostMisconfigured)
             b == Check(/\ h.skills \notin {"inherit", "excessive"}
                        /\ f[h.skills] # "skill", HostMisconfigured)
  <2>1. a.error = HostMisconfigured /\ b.error = HostMisconfigured
    BY DEF Check
  <2>2. SkillChecks(h, f) = <<a, b>>
    BY DEF SkillChecks
  <2> HIDE DEF a, b
  <2>3. QED
    BY <2>1, <2>2 DEF Blamed
<1>4. \A e : Blamed(LaunchChecks(h), e) =>
         e \in {HostMisconfigured, Reply("Provider", "Launch", "none")}
  BY CheckFields DEF Blamed, LaunchChecks
<1>5. QED
  BY <1>1, <1>2, <1>3, <1>4

\* The start of Codex's future refuses nothing about the request.
LEMMA CodexBuildFacts ==
  ASSUME NEW h, NEW f, NEW y
  PROVE  LET refusal == CodexBuildRefusal(h, f, y)
         IN /\ refusal = None => ~Fails(SkillChecks(h, f))
            /\ refusal # None => /\ Harmless(refusal) /\ refusal.session = None
                                 /\ refusal.phase # "Validation"
<1> DEFINE a == <<Check(y, CancelledBeforeLaunch)>>
           b == SkillChecks(h, f)
           c == LaunchChecks(h)
<1>1. /\ Listed(a) /\ Refusing(a)
      /\ \A e : Blamed(a, e) => e = CancelledBeforeLaunch
  BY CancelCheck
<1>2. Listed(b) /\ Refusing(b) /\ Listed(c) /\ Refusing(c)
  BY CodexSkillChecks, LaunchChecksFacts
<1>3. \A e : Blamed(b, e) \/ Blamed(c, e) => e.phase = "Launch" /\ e.session = None
  BY HostErrors
<1>4. CodexBuildRefusal(h, f, y) = FirstError((a \o b) \o c)
  BY DEF CodexBuildRefusal
<1> HIDE DEF a, b, c
<1>5. /\ Listed(a \o b) /\ Refusing(a \o b)
      /\ Fails(a \o b) <=> Fails(a) \/ Fails(b)
      /\ \A e : Blamed(a \o b, e) => Blamed(a, e) \/ Blamed(b, e)
  BY <1>1, <1>2, ConcatFacts
<1>6. /\ Listed((a \o b) \o c) /\ Refusing((a \o b) \o c)
      /\ Fails((a \o b) \o c) <=> Fails(a \o b) \/ Fails(c)
      /\ \A e : Blamed((a \o b) \o c, e) => Blamed(a \o b, e) \/ Blamed(c, e)
  BY <1>2, <1>5, ConcatFacts
<1>7. CancelledBeforeLaunch.phase = "Admission" /\ CancelledBeforeLaunch.session = None
  BY DEF CancelledBeforeLaunch, Reply
<1>8. QED
  BY <1>1, <1>3, <1>4, <1>5, <1>6, <1>7, RefusalFacts DEF b

\* What a refusal of ClaudeService::call means, and what its silence means.
LEMMA ClaudeCallFacts ==
  ASSUME NEW t, NEW h, NEW x \in {None} \cup Handles, NEW y
  PROVE  LET refusal == ClaudeCallRefusal(t, h, x, y)
         IN /\ refusal = None =>
                 /\ x # None => t["resume"] = None /\ x.provider = "claude"
                 /\ EffectiveAmbient(h.ambient, t["claude.ambient"]) # None
                 /\ ~Fails(ClaudeSessionChecks(t))
                 /\ ~Fails(ClaudeOptionChecks(t, h))
            /\ refusal # None =>
                 /\ Harmless(refusal)
                 /\ refusal.phase = "Validation" /\ x = None =>
                      \/ Fails(ClaudeSessionChecks(t))
                      \/ Fails(ClaudeOptionChecks(t, h))
<1> DEFINE a == <<Check(y, CancelledBeforeLaunch)>>
           b == ClaudeSessionChecks(t)
           c == PreassignedChecks(t, x)
           d == ClaudeOptionChecks(t, h)
           e == LaunchChecks(h)
           f == Attached(d \o e, x)
<1>1. /\ Listed(a) /\ Refusing(a)
      /\ \A r : Blamed(a, r) => r = CancelledBeforeLaunch
  BY CancelCheck
<1>2. Listed(b) /\ Refusing(b)
  BY ClaudeSessionFacts
<1>3. /\ Listed(c) /\ Refusing(c)
      /\ x = None => ~Fails(c)
      /\ x # None /\ ~Fails(c) => t["resume"] = None /\ x.provider = "claude"
  BY PreassignedFacts
<1>4. /\ Listed(d) /\ Refusing(d)
      /\ ~Fails(d) => EffectiveAmbient(h.ambient, t["claude.ambient"]) # None
  BY ClaudeOptionFacts
<1>5. Listed(e) /\ Refusing(e) /\ \A r : Blamed(e, r) => r.phase = "Launch"
  BY LaunchChecksFacts, HostErrors
<1>6. ClaudeCallRefusal(t, h, x, y) = FirstError(((a \o b) \o c) \o f)
  BY DEF ClaudeCallRefusal
<1>7. \A i \in DOMAIN f : /\ f[i].fails = (d \o e)[i].fails
                         /\ f[i].error = Attach((d \o e)[i].error, x)
  BY CheckFields DEF Attached
<1>8. DOMAIN f = DOMAIN (d \o e)
  BY DEF Attached
<1> HIDE DEF a, b, c, d, e
<1>9. /\ Listed(d \o e) /\ Refusing(d \o e)
      /\ Fails(d \o e) <=> Fails(d) \/ Fails(e)
      /\ \A r : Blamed(d \o e, r) => Blamed(d, r) \/ Blamed(e, r)
  BY <1>4, <1>5, ConcatFacts
<1>10. /\ Listed(f) /\ Refusing(f)
       /\ Fails(f) <=> Fails(d) \/ Fails(e)
  BY <1>9, AttachedFacts
<1>11. x = None => \A r : Blamed(f, r) => Blamed(d, r) \/ Blamed(e, r)
  <2> HIDE DEF f
  <2>1. SUFFICES ASSUME x = None, NEW r, Blamed(f, r)
                 PROVE  Blamed(d \o e, r)
    BY <1>9
  <2>2. \A i \in DOMAIN f : f[i].error = (d \o e)[i].error
    BY <1>7, <2>1 DEF Attach
  <2>3. QED
    BY <1>7, <1>8, <2>1, <2>2 DEF Blamed
<1> HIDE DEF f
<1>12. /\ Listed(a \o b) /\ Refusing(a \o b)
       /\ Fails(a \o b) <=> Fails(a) \/ Fails(b)
       /\ \A r : Blamed(a \o b, r) => Blamed(a, r) \/ Blamed(b, r)
  BY <1>1, <1>2, ConcatFacts
<1>13. /\ Listed((a \o b) \o c) /\ Refusing((a \o b) \o c)
       /\ Fails((a \o b) \o c) <=> Fails(a \o b) \/ Fails(c)
       /\ \A r : Blamed((a \o b) \o c, r) => Blamed(a \o b, r) \/ Blamed(c, r)
  BY <1>3, <1>12, ConcatFacts
<1> DEFINE all == ((a \o b) \o c) \o f
<1>14. /\ Listed(all) /\ Refusing(all)
       /\ Fails(all) <=> Fails((a \o b) \o c) \/ Fails(f)
       /\ \A r : Blamed(all, r) => Blamed((a \o b) \o c, r) \/ Blamed(f, r)
  BY <1>10, <1>13, ConcatFacts
<1> HIDE DEF all
<1>15. \A s, r : Blamed(s, r) => Fails(s)
  BY DEF Blamed, Fails
<1>16. CancelledBeforeLaunch.phase = "Admission"
  BY DEF CancelledBeforeLaunch, Reply
<1> DEFINE refusal == ClaudeCallRefusal(t, h, x, y)
<1>17. refusal = FirstError(all)
  BY <1>6 DEF all
<1> HIDE DEF refusal
<1>18. ASSUME refusal = None
       PROVE  /\ x # None => t["resume"] = None /\ x.provider = "claude"
              /\ EffectiveAmbient(h.ambient, t["claude.ambient"]) # None
              /\ ~Fails(b) /\ ~Fails(d)
  BY <1>3, <1>4, <1>10, <1>12, <1>13, <1>14, <1>17, <1>18, RefusalFacts
<1>19. ASSUME refusal # None
       PROVE  Harmless(refusal) /\ Blamed(all, refusal)
  BY <1>14, <1>17, <1>19, RefusalFacts
<1>20. ASSUME refusal # None, refusal.phase = "Validation", x = None
       PROVE  Fails(b) \/ Fails(d)
  <2>1. \/ Blamed(a, refusal) \/ Blamed(b, refusal) \/ Blamed(c, refusal)
        \/ Blamed(d, refusal) \/ Blamed(e, refusal)
    BY <1>11, <1>12, <1>13, <1>14, <1>19, <1>20
  <2>2. QED
    BY <1>1, <1>3, <1>5, <1>15, <1>16, <1>20, <2>1
<1>21. QED
  BY <1>18, <1>19, <1>20 DEF refusal, b, d

\* What preflight's verdict means.
LEMMA CodexPreflightFacts ==
  ASSUME NEW t, NEW h, NEW g, t["dirs"] \in Seq(STRING)
  PROVE  CodexPreflight(t, h, g) = None
           <=> Granted(t, h, g) /\ ~Fails(CodexTurnChecks(t))
                 /\ ~Fails(SkillChecks(h, g))
<1> DEFINE a == CodexChecks(t, h, g)
           b == SkillChecks(h, g)
<1>1. /\ Listed(a) /\ Refusing(a)
      /\ Fails(a) <=> ~Granted(t, h, g) \/ Fails(CodexTurnChecks(t))
  BY CodexChecksFacts
<1>2. Listed(b) /\ Refusing(b)
  BY CodexSkillChecks
<1> HIDE DEF a, b
<1>3. /\ Listed(a \o b) /\ Refusing(a \o b)
      /\ Fails(a \o b) <=> Fails(a) \/ Fails(b)
  BY <1>1, <1>2, ConcatFacts
<1>4. CodexPreflight(t, h, g) = FirstError(a \o b)
  BY DEF CodexPreflight, a, b
<1>5. QED
  BY <1>1, <1>3, <1>4, RefusalFacts DEF b

LEMMA ClaudePreflightFacts ==
  ASSUME NEW t, NEW h
  PROVE  ClaudePreflight(t, h) = None
           <=> ~Fails(ClaudeSessionChecks(t)) /\ ~Fails(ClaudeOptionChecks(t, h))
<1> DEFINE a == ClaudeSessionChecks(t)
           b == ClaudeOptionChecks(t, h)
<1>1. Listed(a) /\ Refusing(a) /\ Listed(b) /\ Refusing(b)
  BY ClaudeSessionFacts, ClaudeOptionFacts
<1> HIDE DEF a, b
<1>2. /\ Listed(a \o b) /\ Refusing(a \o b)
      /\ Fails(a \o b) <=> Fails(a) \/ Fails(b)
  BY <1>1, ConcatFacts
<1>3. ClaudePreflight(t, h) = FirstError(a \o b)
  BY DEF ClaudePreflight, a, b
<1>4. QED
  BY <1>2, <1>3, RefusalFacts DEF a, b

(***************************************************************************)
(* Replies to the end of a child                                           *)
(***************************************************************************)

\* The handles that a call was given, as settlement reads them.
Carried(p) ==
  /\ p.assigned # None => p.assigned.provider = p.provider
  /\ p.prior # None => p.prior.provider = p.provider
  /\ p.provider = "codex" => p.assigned = None
  /\ p.ephemeral => p.provider = "codex"

ThreadsOf(o) ==
  {o.events[i].value : i \in {j \in DOMAIN o.events :
                                 o.events[j].type = "thread"}}

ReportedBy(o) ==
  {o[field] : field \in DOMAIN o \cap {"thread", "session"}}
    \cup (IF "events" \notin DOMAIN o THEN {}
          ELSE {o.events[i].value : i \in DOMAIN o.events})

\* SessionProven, of a reply to an outcome.
Proven(r, o, p) ==
  /\ r.session # None =>
       /\ r.session.provider = p.provider
       /\ \/ r.session \in {p.assigned, p.prior}
          \/ r.session.value \in ReportedBy(o)
       /\ o.tag = "result" /\ p.provider = "codex" =>
            Cardinality(ThreadsOf(o)) <= 1
  /\ p.ephemeral => r.session = None
  /\ r.kind = "ok" /\ p.assigned # None => r.session = p.assigned

\* The end of a stream that is in order.
LEMMA StreamFacts ==
  ASSUME NEW s \in Streams, HasOneTerminal(s)
  PROVE  /\ Len(s) \in DOMAIN s /\ Last(s) = s[Len(s)]
         /\ Last(s).type \in {"completed", "failed"}
<1> DEFINE S == {s[i] : i \in DOMAIN s}
<1>1. s \in Seq(S)
  BY StreamsAssumption
<1> HIDE DEF S
<1>2. Len(s) \in Nat /\ DOMAIN s = 1..Len(s) /\ (s # <<>> => Len(s) > 0)
  BY <1>1
<1>3. Len(s) \in DOMAIN s
  BY <1>2 DEF HasOneTerminal
<1>4. Terminal(s[Len(s)])
  BY <1>3 DEF HasOneTerminal
<1>5. QED
  BY <1>3, <1>4 DEF Terminal, Last

\* The fields of a reply.
LEMMA ReplyFields ==
  ASSUME NEW k, NEW f, NEW e, NEW x
  PROVE  /\ Reply(k, f, e).kind = k /\ Reply(k, f, e).phase = f
         /\ Reply(k, f, e).effects = e /\ Reply(k, f, e).session = None
         /\ WithSession(Reply(k, f, e), x).kind = k
         /\ WithSession(Reply(k, f, e), x).phase = f
         /\ WithSession(Reply(k, f, e), x).effects = e
         /\ WithSession(Reply(k, f, e), x).session = x
BY DEF Reply, WithSession

\* A failed turn of Codex: only a rejected request had no effects, and the
\* session changes nothing else.
LEMMA ClassifyFacts ==
  ASSUME NEW failure, NEW x
  PROVE  LET r == ClassifyTerminalFailure(failure, x)
             q == ClassifyTerminalFailure(failure, None)
         IN /\ r.kind # "ok" /\ r.phase \in {"Validation", "Running"}
            /\ r.effects = "none" => failure = "ApiRequestRejected"
            /\ r.session \in {None, x}
            /\ q.kind = r.kind /\ q.phase = r.phase /\ q.effects = r.effects
<1>1. CASE failure = "ApiRequestRejected"
  BY <1>1, ReplyFields DEF ClassifyTerminalFailure, InvalidRequest
<1>2. CASE failure = "RolloutBudgetExhausted"
  BY <1>2, ReplyFields DEF ClassifyTerminalFailure
<1>3. CASE failure \notin {"ApiRequestRejected", "RolloutBudgetExhausted"}
  BY <1>3, ReplyFields DEF ClassifyTerminalFailure
<1>4. QED
  BY <1>1, <1>2, <1>3

\* Consistent reports name at most one thread.
LEMMA OneThread ==
  ASSUME NEW o, Consistent(Reported(o.events, o, "thread"))
  PROVE  Cardinality(ThreadsOf(o)) <= 1
<1>1. \A v, w \in ThreadsOf(o) : v = w
  BY DEF Consistent, Reported, ThreadsOf
<1> HIDE DEF ThreadsOf
<1>2. CASE ThreadsOf(o) = {}
  BY <1>2, FS_EmptySet
<1>3. CASE ThreadsOf(o) # {}
  <2>1. PICK v \in ThreadsOf(o) : TRUE
    BY <1>3
  <2>2. ThreadsOf(o) = {v}
    BY <1>1, <2>1
  <2>3. Cardinality({v}) = 1
    BY FS_Singleton
  <2>4. QED
    BY <2>2, <2>3
<1>4. QED
  BY <1>2, <1>3

\* Codex ended, and its stream and result agree or not.
LEMMA CodexResultFacts ==
  ASSUME NEW p, Carried(p), p.provider = "codex",
         NEW o \in [tag : {"result"}, events : Streams,
                    thread : {None, "t1"}, session : {None}]
  PROVE  LET r == SettleOutcome(o, p)
         IN /\ r.effects = "none" =>
                 \E i \in DOMAIN o.events :
                   o.events[i].value = "ApiRequestRejected"
            /\ r.phase \in {"Validation", "Running", "Settlement"}
            /\ Proven(r, o, p)
<1> DEFINE thread == Reported(o.events, o, "thread")
           session == Reported(o.events, o, "session")
           handle == ResultSession(thread, session, p.prior, p.ephemeral)
           last == Last(o.events)
           r == SettleOutcome(o, p)
           ordered == /\ HasOneTerminal(o.events)
                      /\ Consistent(thread) /\ Consistent(session)
<1>1. o.events \in Streams /\ DOMAIN o = {"tag", "events", "thread", "session"}
  OBVIOUS
<1>2. thread \subseteq ReportedBy(o) /\ session \subseteq ReportedBy(o)
  BY <1>1 DEF Reported, ReportedBy
<1>3. Consistent(thread) => Cardinality(ThreadsOf(o)) <= 1
  BY OneThread
<1>4. r = IF ~ordered THEN SettlementError
          ELSE IF last.type = "completed" THEN Success(handle)
          ELSE ClassifyTerminalFailure(last.value, handle)
  BY DEF SettleOutcome
<1>5. ordered => Len(o.events) \in DOMAIN o.events /\ last = o.events[Len(o.events)]
  BY <1>1, StreamFacts
<1> HIDE DEF thread, session, last, r
<1>6. /\ p.ephemeral => handle = None
      /\ handle # None =>
           /\ handle.provider = "codex"
           /\ handle = p.prior \/ handle.value \in ReportedBy(o)
  <2> DEFINE only(values) == CHOOSE v \in values : TRUE
  <2>1. CASE p.ephemeral
    BY <2>1 DEF ResultSession
  <2>2. CASE ~p.ephemeral /\ thread # {}
    <3>1. only(thread) \in thread
      BY <2>2
    <3>2. handle = Session("codex", only(thread))
      BY <2>2 DEF ResultSession
    <3> HIDE DEF only
    <3>3. QED
      BY <1>2, <2>2, <3>1, <3>2 DEF Session
  <2>3. CASE ~p.ephemeral /\ thread = {} /\ session # {}
    <3>1. only(session) \in session
      BY <2>3
    <3>2. handle = Session("codex", only(session))
      BY <2>3 DEF ResultSession
    <3> HIDE DEF only
    <3>3. QED
      BY <1>2, <2>3, <3>1, <3>2 DEF Session
  <2>4. CASE ~p.ephemeral /\ thread = {} /\ session = {}
    <3>1. handle = p.prior
      BY <2>4 DEF ResultSession
    <3>2. QED
      BY <2>4, <3>1 DEF Carried
  <2>5. QED
    BY <2>1, <2>2, <2>3, <2>4
<1> HIDE DEF handle
<1>7. CASE ~ordered
  <2>1. r = SettlementError
    BY <1>4, <1>7
  <2>2. QED
    BY <2>1, ReplyFields DEF SettlementError, Proven, Carried, r
<1>8. CASE ordered /\ last.type = "completed"
  <2>1. r = Success(handle)
    BY <1>4, <1>8
  <2>2. r.kind = "ok" /\ r.phase = "Settlement" /\ r.effects = "known" /\ r.session = handle
    BY <2>1, ReplyFields DEF Success
  <2>3. QED
    BY <1>3, <1>6, <1>8, <2>2 DEF Proven, Carried, r
<1>9. CASE ordered /\ last.type # "completed"
  <2>1. r = ClassifyTerminalFailure(last.value, handle)
    BY <1>4, <1>9
  <2>2. /\ r.kind # "ok" /\ r.phase \in {"Validation", "Running"}
        /\ r.effects = "none" => last.value = "ApiRequestRejected"
        /\ r.session \in {None, handle}
    BY <2>1, ClassifyFacts
  <2>3. QED
    BY <1>3, <1>5, <1>6, <1>9, <2>2 DEF Proven, Carried, r
<1>10. QED
  BY <1>7, <1>8, <1>9

\* Codex's command failed: no session is offered.
LEMMA CommandFailureFacts ==
  ASSUME NEW stream \in Streams
  PROVE  LET r == CommandFailure(stream)
         IN /\ r.effects = "none" =>
                 \E i \in DOMAIN stream : stream[i].value = "ApiRequestRejected"
            /\ r.phase \in {"Validation", "Running"}
            /\ r.kind # "ok" /\ r.session = None
<1> DEFINE r == CommandFailure(stream)
           failed == HasOneTerminal(stream) /\ Last(stream).type = "failed"
<1>1. CASE failed
  <2>1. r = ClassifyTerminalFailure(Last(stream).value, None)
    BY <1>1 DEF CommandFailure
  <2>2. Len(stream) \in DOMAIN stream /\ Last(stream) = stream[Len(stream)]
    BY <1>1, StreamFacts
  <2>3. QED
    BY <2>1, <2>2, ClassifyFacts
<1>2. CASE ~failed
  <2>1. r = CommandFailed
    BY <1>2 DEF CommandFailure
  <2>2. QED
    BY <2>1, ReplyFields DEF CommandFailed
<1>3. QED
  BY <1>1, <1>2

\* An error of a wrapper offers no session, and claims that nothing was done
\* only before there was a child or before the CLI began.
LEMMA CodexErrorFacts ==
  ASSUME NEW tag \in DOMAIN CodexErrors
  PROVE  LET r == CodexErrors[tag]
         IN /\ r.effects = "none" => tag \in Unspawned \cup StartRefusals
            /\ r.phase \in {"Admission", "Launch"} => tag \in Unspawned
            /\ r.kind # "ok" /\ r.session = None
BY DEF CodexErrors, Reply, InvalidRequest, Unauthorized, CancelledInFlight,
       SettlementError, Unspawned, StartRefusals

\* The same of Claude's wrapper, which has no errors of the second sort.
LEMMA ClaudeErrorFacts ==
  ASSUME NEW tag \in DOMAIN ClaudeErrors
  PROVE  LET r == ClaudeErrors[tag]
         IN /\ r.effects = "none" => tag \in Unspawned
            /\ r.phase \in {"Admission", "Launch"} => tag \in Unspawned
            /\ r.kind # "ok" /\ r.session = None
            /\ r = Reply(r.kind, r.phase, r.effects)
BY DEF ClaudeErrors, Reply, CancelledInFlight, SettlementError,
       CommandFailed, Unspawned

\* Claude's query has a result: the host's session wins, or the reply is an
\* error.
LEMMA ClaudeResultFacts ==
  ASSUME NEW p, Carried(p), p.provider = "claude",
         NEW o \in [tag : {"result"}, session : {None, "uuid", "r1"},
                    is_error : BOOLEAN, structured : BOOLEAN,
                    subtype : {"error_max_turns", "error_max_budget_usd",
                               "other"}]
  PROVE  LET r == ClaudeResultReply(o, p)
         IN /\ r.effects # "none" /\ r.phase \in {"Running", "Settlement"}
            /\ Proven(r, o, p)
<1> DEFINE reported == ClaudeHandle(o.session)
           handle == CASE p.assigned # None -> p.assigned
                       [] p.assigned = None /\ reported # None -> reported
                       [] OTHER -> p.prior
           r == ClaudeResultReply(o, p)
           kept == p.assigned = None \/ reported \in {None, p.assigned}
<1>1. reported # None =>
        reported.provider = "claude" /\ reported.value \in ReportedBy(o)
  BY DEF ClaudeHandle, Session, ReportedBy
<1>2. QueryErrorKind(o.subtype) # "ok"
  BY DEF QueryErrorKind
<1>3. r = IF ~kept THEN SettlementError
          ELSE IF o.is_error
            THEN WithSession(Reply(QueryErrorKind(o.subtype), "Running",
                                   "possible"),
                             IF p.assigned # None THEN p.assigned ELSE reported)
          ELSE IF p.structured /\ ~o.structured THEN SettlementError
          ELSE Success(handle)
  BY DEF ClaudeResultReply
<1>4. ~p.ephemeral
  BY DEF Carried
<1>5. o.is_error \in BOOLEAN
  OBVIOUS
<1> HIDE DEF reported, r
<1>6. CASE ~kept \/ (~o.is_error /\ p.structured /\ ~o.structured)
  <2>1. r = SettlementError
    BY <1>3, <1>6
  <2>2. QED
    BY <1>4, <2>1, ReplyFields DEF SettlementError, Proven, r
<1>7. CASE kept /\ o.is_error
  <2> DEFINE x == IF p.assigned # None THEN p.assigned ELSE reported
  <2>1. r = WithSession(Reply(QueryErrorKind(o.subtype), "Running", "possible"), x)
    BY <1>3, <1>7
  <2>2. /\ r.kind # "ok" /\ r.phase = "Running" /\ r.effects = "possible"
        /\ r.session = x
    BY <1>2, <2>1, ReplyFields
  <2>3. QED
    BY <1>1, <1>4, <2>2 DEF Proven, Carried, r
<1>8. CASE kept /\ ~o.is_error /\ ~(p.structured /\ ~o.structured)
  <2>1. r = Success(handle)
    BY <1>3, <1>8
  <2>2. /\ r.phase = "Settlement" /\ r.effects = "known" /\ r.session = handle
    BY <2>1, ReplyFields DEF Success
  <2>3. /\ p.assigned # None => handle = p.assigned
        /\ p.assigned = None => handle \in {reported, p.prior}
    OBVIOUS
  <2> HIDE DEF handle
  <2>4. QED
    BY <1>1, <1>4, <2>2, <2>3 DEF Proven, Carried, r
<1>9. QED
  BY <1>6, <1>7, <1>8

\* Claude's wrapper fails, at a limit of the CLI or otherwise.
LEMMA ClaudeFailureFacts ==
  ASSUME NEW p, Carried(p), p.provider = "claude",
         NEW o, o.tag \in DOMAIN ClaudeErrors, o.tag # "result",
         o.tag \in RailStops => "session" \in DOMAIN o
  PROVE  LET r == ClaudeReply(o, p)
         IN /\ r.effects = "none" => o.tag \in Unspawned
            /\ r.phase \in {"Admission", "Launch"} => o.tag \in Unspawned
            /\ Proven(r, o, p)
<1> DEFINE e == ClaudeErrors[o.tag]
           reported == ClaudeHandle(o.session)
           f == IF o.tag \in RailStops THEN WithSession(e, reported) ELSE e
           r == ClaudeReply(o, p)
<1>1. /\ e.effects = "none" => o.tag \in Unspawned
      /\ e.phase \in {"Admission", "Launch"} => o.tag \in Unspawned
      /\ e.kind # "ok" /\ e.session = None
      /\ e = Reply(e.kind, e.phase, e.effects)
  BY ClaudeErrorFacts
<1>2. o.tag \in RailStops /\ reported # None =>
        reported.provider = "claude" /\ reported.value \in ReportedBy(o)
  BY DEF ClaudeHandle, Session, ReportedBy
<1>3. r = IF p.assigned = None THEN f ELSE WithSession(f, p.assigned)
  BY DEF ClaudeReply, Attach
<1>4. ~p.ephemeral
  BY DEF Carried
<1> HIDE DEF e, reported, r
<1>5. /\ f.kind = e.kind /\ f.phase = e.phase /\ f.effects = e.effects
      /\ f.session = IF o.tag \in RailStops THEN reported ELSE None
      /\ f = WithSession(Reply(e.kind, e.phase, e.effects), f.session)
  <2>1. CASE o.tag \in RailStops
    <3>1. f = WithSession(Reply(e.kind, e.phase, e.effects), reported)
      BY <1>1, <2>1
    <3>2. QED
      BY <2>1, <3>1, ReplyFields
  <2>2. CASE o.tag \notin RailStops
    <3>1. f = e
      BY <2>2
    <3>2. WithSession(Reply(e.kind, e.phase, e.effects), None)
            = Reply(e.kind, e.phase, e.effects)
      BY DEF WithSession, Reply
    <3>3. QED
      BY <1>1, <2>2, <3>1, <3>2
  <2>3. QED
    BY <2>1, <2>2
<1> HIDE DEF f
<1>6. /\ r.kind = e.kind /\ r.phase = e.phase /\ r.effects = e.effects
      /\ r.session = IF p.assigned = None THEN f.session ELSE p.assigned
  <2>1. CASE p.assigned = None
    BY <1>3, <1>5, <2>1
  <2>2. CASE p.assigned # None
    <3>1. r = WithSession(WithSession(Reply(e.kind, e.phase, e.effects),
                                      f.session), p.assigned)
      BY <1>3, <1>5, <2>2
    <3>2. QED
      BY <2>2, <3>1 DEF WithSession, Reply
  <2>3. QED
    BY <2>1, <2>2
<1>7. QED
  BY <1>1, <1>2, <1>4, <1>5, <1>6 DEF Proven, Carried, r

\* Whatever the wrapper returns, the reply to it is true: of its effects, of
\* how far the child got, and of the session that it offers.
LEMMA ReplyFacts ==
  ASSUME Carried(prepared), prepared.provider \in ProviderIds,
         pc \in {"launching", "running"}, pc = "launching" => ~acted,
         NEW o \in Outcomes \cup [tag : {"Cancelled"}]
  PROVE  /\ ReplyTo(o).effects = "none" => ~acted
         /\ ReplyTo(o).phase \in {"Admission", "Launch"} => pc = "launching"
         /\ Proven(ReplyTo(o), o, prepared)
         /\ o # None
         /\ o.tag = "CommandFailed" /\ prepared.provider = "codex" =>
              o.events \in Streams
<1>1. "Cancelled" \in DOMAIN CodexErrors /\ "Cancelled" \in DOMAIN ClaudeErrors
  BY DEF CodexErrors, ClaudeErrors
<1>2. "Cancelled" \notin Unspawned \cup StartRefusals \cup RailStops \cup {"result"}
  BY DEF Unspawned, StartRefusals, RailStops
<1>3. /\ {"CommandFailed", "result"} \cap DOMAIN CodexErrors = {}
      /\ "result" \notin DOMAIN ClaudeErrors
  BY DEF CodexErrors, ClaudeErrors
<1>4. /\ ErrorTags \subseteq DOMAIN CodexErrors \/ prepared.provider # "codex"
      /\ \/ ErrorTags \subseteq DOMAIN ClaudeErrors \ {"CommandFailed"}
         \/ prepared.provider = "codex"
      /\ pc = "running" => ErrorTags \cap (Unspawned \cup RailStops) = {}
      /\ pc = "launching" => ErrorTags \subseteq Unspawned
      /\ acted => ErrorTags \cap StartRefusals = {}
  BY DEF ErrorTags
<1>5. Unspawned \cap RailStops = {}
  BY DEF Unspawned, RailStops
<1> DEFINE tags == ErrorTags \cup {"Cancelled"}
<1>6. CASE prepared.provider = "codex" /\ o \in [tag : tags]
  <2>1. o.tag \in tags /\ o.tag \in DOMAIN CodexErrors
    BY <1>1, <1>4, <1>6
  <2>2. o.tag \notin {"result", "CommandFailed"}
    BY <1>3, <2>1
  <2>3. ReplyTo(o) = CodexErrors[o.tag]
    BY <1>6, <2>2 DEF ReplyTo, CodexReply
  <2>4. /\ ReplyTo(o).effects = "none" => o.tag \in Unspawned \cup StartRefusals
        /\ ReplyTo(o).phase \in {"Admission", "Launch"} => o.tag \in Unspawned
        /\ ReplyTo(o).kind # "ok" /\ ReplyTo(o).session = None
    BY <2>1, <2>3, CodexErrorFacts
  <2>5. o # None
    <3>1. o \in [tag : DOMAIN CodexErrors \cup DOMAIN ClaudeErrors]
      BY <1>6, <2>1
    <3>2. QED
      BY <3>1, OutcomesAssumption
  <2>6. QED
    BY <1>2, <1>4, <2>1, <2>2, <2>4, <2>5 DEF Proven
<1>7. CASE /\ prepared.provider = "claude"
           /\ o \in [tag : tags] \cup [tag : {"CommandFailed"}]
                   \cup [tag : RailStops, session : {None, "uuid", "r1"}]
           /\ o \in [tag : tags] \/ pc = "running"
  <2>1. /\ o.tag \in DOMAIN ClaudeErrors /\ o.tag # "result"
        /\ o.tag \in RailStops => "session" \in DOMAIN o
    <3>1. CASE o \in [tag : tags]
      <4>1. o.tag \in tags
        BY <3>1
      <4>2. o.tag \notin RailStops
        BY <1>2, <1>4, <1>5, <4>1
      <4>3. QED
        BY <1>1, <1>3, <1>4, <1>7, <4>1, <4>2
    <3>2. CASE o \in [tag : {"CommandFailed"}]
      BY <3>2 DEF ClaudeErrors, RailStops
    <3>3. CASE o \in [tag : RailStops, session : {None, "uuid", "r1"}]
      BY <3>3 DEF ClaudeErrors, RailStops
    <3>4. QED
      BY <1>7, <3>1, <3>2, <3>3
  <2>2. o.tag \in Unspawned => pc = "launching"
    <3>1. CASE o \in [tag : tags]
      BY <1>2, <1>4, <3>1
    <3>2. CASE o.tag \in {"CommandFailed"} \cup RailStops
      BY <3>2 DEF Unspawned, RailStops
    <3>3. QED
      BY <1>7, <3>1, <3>2
  <2>3. ReplyTo(o) = ClaudeReply(o, prepared)
    BY <1>7 DEF ReplyTo
  <2>4. /\ ReplyTo(o).effects = "none" => o.tag \in Unspawned
        /\ ReplyTo(o).phase \in {"Admission", "Launch"} => o.tag \in Unspawned
        /\ Proven(ReplyTo(o), o, prepared)
    BY <1>7, <2>1, <2>3, ClaudeFailureFacts
  <2>5. o # None
    <3>1. o \in [tag : DOMAIN CodexErrors \cup DOMAIN ClaudeErrors] \cup ClaudeEnds
      <4>1. CASE o \in [tag : tags]
        BY <2>1, <4>1
      <4>2. CASE o \notin [tag : tags]
        BY <1>7, <4>2 DEF ClaudeEnds
      <4>3. QED
        BY <4>1, <4>2
    <3>2. QED
      BY <3>1, OutcomesAssumption
  <2>6. QED
    BY <1>7, <2>2, <2>4, <2>5
<1>8. CASE /\ prepared.provider = "codex" /\ pc = "running"
           /\ o \in CodexEnds({s \in Streams : PossibleStream(s)})
  <2>1. o \in CodexEnds(Streams)
    BY <1>8 DEF CodexEnds
  <2>2. o # None
    BY <2>1, OutcomesAssumption
  <2>3. o.events \in Streams /\ PossibleStream(o.events)
    BY <1>8 DEF CodexEnds
  <2>4. acted => ~\E i \in DOMAIN o.events :
                      o.events[i].value = "ApiRequestRejected"
    BY <2>3 DEF PossibleStream
  <2>5. CASE o \in [tag : {"CommandFailed"}, events : Streams]
    <3>1. ReplyTo(o) = CommandFailure(o.events)
      BY <1>8, <2>5 DEF ReplyTo, CodexReply
    <3>2. o.tag = "CommandFailed"
      BY <2>5
    <3>3. QED
      BY <2>2, <2>3, <2>4, <3>1, <3>2, CommandFailureFacts DEF Proven
  <2>6. CASE o \in [tag : {"result"}, events : Streams,
                    thread : {None, "t1"}, session : {None}]
    <3>1. o.tag = "result"
      BY <2>6
    <3>2. ReplyTo(o) = SettleOutcome(o, prepared)
      BY <1>8, <3>1 DEF ReplyTo, CodexReply
    <3>3. QED
      BY <1>8, <2>2, <2>3, <2>4, <2>6, <3>1, <3>2, CodexResultFacts
  <2>7. QED
    BY <2>1, <2>5, <2>6 DEF CodexEnds
<1>9. CASE /\ prepared.provider = "claude"
           /\ o \in [tag : {"result"}, session : {None, "uuid", "r1"},
                    is_error : BOOLEAN, structured : BOOLEAN,
                    subtype : {"error_max_turns", "error_max_budget_usd",
                               "other"}]
  <2>1. o.tag = "result"
    BY <1>9
  <2>2. ReplyTo(o) = ClaudeResultReply(o, prepared)
    BY <1>9, <2>1 DEF ReplyTo, ClaudeReply
  <2>3. o # None
    BY <1>9, OutcomesAssumption DEF ClaudeEnds
  <2>4. QED
    BY <1>9, <2>2, <2>3, ClaudeResultFacts
<1>10. o \in [tag : tags] \/ o \notin [tag : ErrorTags] \cup [tag : {"Cancelled"}]
  OBVIOUS
<1>11. QED
  BY <1>6, <1>7, <1>8, <1>9, <1>10 DEF Outcomes, ProviderIds, ClaudeEnds

(***************************************************************************)
(* The inductive invariant                                                 *)
(***************************************************************************)

\* None is no verdict of preflight.
LEMMA NoneVerdict == None # "ok" /\ None # "refused"
BY NoneAssumption

\* The first state satisfies the invariant.
LEMMA InitIInv == Init => IInv
<1> SUFFICES ASSUME Init PROVE IInv
  OBVIOUS
<1>1. PICK s \in Scenarios : /\ layers = s.layers /\ turn = s.turn
                             /\ assigned = s.assigned
                             /\ pc = IF s.layers = None THEN "ready"
                                     ELSE "planning"
  BY DEF Init
<1>2. /\ preflighted = None /\ command = None /\ prepared = None
      /\ observed = FALSE /\ acted = FALSE /\ events = <<>>
      /\ outcome = None /\ reply = None /\ looks = NoLooks
  BY DEF Init
<1>3. Requested
  BY <1>1, <1>2, ScenariosAssumption DEF Requested
<1>4. Stages
  BY <1>1, <1>2 DEF Stages, Unlaunched, NoLooks
<1>5. HandlesKnown /\ CodexPermitted /\ PreflightKept
  BY <1>1, <1>2, NoneVerdict DEF HandlesKnown, CodexPermitted, PreflightKept
<1>6. WithinHostPolicy /\ PreflightSound /\ EffectsTruthful /\ SessionProven
  BY <1>2, NoneVerdict DEF WithinHostPolicy, PreflightSound, EffectsTruthful,
     SessionProven
<1>7. Honored /\ HonorOrRefuse
  <2>1. HonorOrRefuse
    BY <1>2 DEF HonorOrRefuse
  <2>2. ASSUME pc \in {"ready", "prepared"}
        PROVE  layers = None /\ DOMAIN turn = TurnPaths(turn["provider"])
    BY <1>1, <2>2, ScenariosAssumption
  <2>3. QED
    BY <2>1, <2>2 DEF Honored, Wanted, WantedOf
<1>8. QED
  BY <1>3, <1>4, <1>5, <1>6, <1>7 DEF IInv

\* Nothing is promised of a command or a reply that does not exist.
LEMMA NothingYet ==
  ASSUME IInv, [Next]_vars, command' = None, reply' = None, events' = <<>>
  PROVE  /\ HonorOrRefuse' /\ WithinHostPolicy' /\ PreflightSound'
         /\ EffectsTruthful' /\ SessionProven'
BY DEF HonorOrRefuse, WithinHostPolicy, PreflightSound, EffectsTruthful,
       SessionProven

\* A turn keeps saying what was asked for while the request is kept.
LEMMA HonorKept ==
  ASSUME IInv, UNCHANGED <<layers, turn>>,
         pc' \in {"ready", "prepared"} => pc \in {"ready", "prepared"}
  PROVE  /\ Honored'
         /\ UNCHANGED <<host, command>> => HonorOrRefuse'
<1>1. \A path : Wanted(path)' = Wanted(path)
  BY DEF Wanted
<1>2. Honored'
  BY <1>1 DEF IInv, Honored
<1>3. UNCHANGED <<host, command>> => HonorOrRefuse'
  BY <1>1 DEF IInv, HonorOrRefuse, AmbientHonored
<1>4. QED
  BY <1>2, <1>3

\* One lemma per action. Planning hands on a list of directories.
LEMMA PlanStep == IInv /\ Plan => IInv'
<1> SUFFICES ASSUME IInv, Plan PROVE IInv'
  OBVIOUS
<1>1. /\ pc = "planning" /\ preflighted = None /\ command = None
      /\ reply = None /\ events = <<>> /\ prepared = None /\ outcome = None
      /\ ~observed /\ ~acted
  BY DEF IInv, Plan, Stages, Unlaunched, Requested
<1>2. /\ pc' \in {"ready", "refused"}
      /\ pc' = "ready" => /\ Prepare(layers).tag = "ready"
                          /\ turn' = TurnOf(Prepare(layers).turn)
      /\ UNCHANGED <<layers, host, assigned, files, preflighted, looks, command,
                      prepared, observed, acted, outcome, events, reply>>
  BY DEF Plan, world, verdict, process
<1>3. Stages'
  BY <1>1, <1>2 DEF IInv, Stages, Unlaunched
<1>4. Requested'
  BY <1>1, <1>2 DEF IInv, Requested
<1>5. HandlesKnown' /\ CodexPermitted' /\ PreflightKept'
  BY <1>1, <1>2, NoneVerdict DEF HandlesKnown, CodexPermitted, PreflightKept
<1>6. /\ HonorOrRefuse' /\ WithinHostPolicy' /\ PreflightSound'
      /\ EffectsTruthful' /\ SessionProven'
  BY <1>1, <1>2, NothingYet DEF Next
<1>7. Honored'
  <2>1. CASE pc' = "refused"
    BY <2>1 DEF Honored
  <2>2. CASE pc' = "ready"
    <3>1. layers # None /\ LayersTyped(layers) /\ Prepare(layers).tag = "ready"
      BY <1>1, <1>2, <2>2 DEF IInv, Requested
    <3>2. \A path : Wanted(path)' = WantedOf(layers, turn', path)
      BY <1>2 DEF Wanted
    <3>3. turn' = TurnOf(Prepare(layers).turn)
      BY <1>2, <2>2
    <3>4. QED
      BY <3>1, <3>2, <3>3, PlannedFacts DEF Honored
  <2>3. QED
    BY <1>2, <2>1, <2>2
<1>8. QED
  BY <1>3, <1>4, <1>5, <1>6, <1>7 DEF IInv

\* Preflight says what the checks say.
LEMMA CheckAheadStep == IInv /\ CheckAhead => IInv'
<1> SUFFICES ASSUME IInv, CheckAhead PROVE IInv'
  OBVIOUS
<1>1. /\ pc = "ready" /\ command = None /\ reply = None /\ events = <<>>
      /\ turn["dirs"] \in Seq(STRING)
  BY DEF IInv, CheckAhead, Stages, Unlaunched, Requested
<1>2. /\ UNCHANGED <<pc, layers, turn, host, assigned, files, command, prepared,
                     observed, acted, outcome, events, reply>>
      /\ DOMAIN looks' = DOMAIN looks /\ looks'["preflight"] = files
  BY DEF IInv, Stages, CheckAhead, Look, request, world, process
<1>3. preflighted' =
        IF (IF turn["provider"] = "codex" THEN CodexPreflight(turn, host, files)
            ELSE ClaudePreflight(turn, host)) = None
          THEN "ok" ELSE "refused"
  BY DEF CheckAhead
<1>4. Stages' /\ HandlesKnown' /\ CodexPermitted' /\ Requested'
  BY <1>1, <1>2 DEF IInv, Stages, HandlesKnown, CodexPermitted, Requested,
     ReplyTo
<1>5. PreflightKept'
  <2>1. CodexPreflight(turn, host, looks["preflight"])' =
          CodexPreflight(turn, host, files)
    BY <1>2
  <2>2. ClaudePreflight(turn, host)' = ClaudePreflight(turn, host)
    BY <1>2
  <2>3. QED
    BY <1>1, <1>2, <1>3, <2>1, <2>2 DEF PreflightKept
<1>6. /\ Honored' /\ HonorOrRefuse' /\ WithinHostPolicy' /\ PreflightSound'
      /\ EffectsTruthful' /\ SessionProven'
  BY <1>1, <1>2, NothingYet, HonorKept DEF Next
<1>7. QED
  BY <1>4, <1>5, <1>6 DEF IInv

\* What the invariant reads.
LEMMA Unread ==
  ASSUME IInv,
         UNCHANGED <<pc, layers, turn, host, assigned, preflighted, looks,
                     command, prepared, observed, acted, outcome, events, reply>>
  PROVE  IInv'
<1>1. Stages'
  BY DEF IInv, Stages, ReplyTo
<1>2. Requested' /\ HandlesKnown' /\ CodexPermitted'
  BY DEF IInv, Requested, HandlesKnown, CodexPermitted
<1>3. PreflightKept'
  BY DEF IInv, PreflightKept, ChangedBy
<1>4. WithinHostPolicy' /\ PreflightSound' /\ EffectsTruthful' /\ SessionProven'
  BY DEF IInv, WithinHostPolicy, PreflightSound, ChangedBy, EffectsTruthful,
     SessionProven, ReportedValues
<1>5. Honored' /\ HonorOrRefuse'
  BY HonorKept
<1>6. QED
  BY <1>1, <1>2, <1>3, <1>4, <1>5 DEF IInv

\* No part of the invariant reads the file system as it is now.
LEMMA ChangeFilesStep == IInv /\ ChangeFiles => IInv'
<1> SUFFICES ASSUME IInv, ChangeFiles PROVE IInv'
  OBVIOUS
<1>1. UNCHANGED <<pc, layers, turn, host, assigned, preflighted, looks, command,
                  prepared, observed, acted, outcome, events, reply>>
  BY DEF ChangeFiles, request, verdict, process
<1>2. QED
  BY <1>1, Unread

\* Nor the token.
LEMMA CancelStep == IInv /\ Cancel => IInv'
<1> SUFFICES ASSUME IInv, Cancel PROVE IInv'
  OBVIOUS
<1>1. UNCHANGED <<pc, layers, turn, host, assigned, preflighted, looks, command,
                  prepared, observed, acted, outcome, events, reply>>
  BY DEF Cancel, request, verdict, process
<1>2. QED
  BY <1>1, Unread

\* A refusal before the child exists keeps the invariant: it had no effects,
\* and only a check that preflight made may be at fault.
LEMMA RefusedBeforeLaunch ==
  ASSUME IInv, pc \in {"ready", "prepared", "built"},
         pc' = "done", Harmless(reply'),
         UNCHANGED <<layers, turn, host, assigned, preflighted, command,
                     prepared, observed, acted, outcome, events>>,
         DOMAIN looks' = DOMAIN looks, looks' = looks \/ command = None,
         preflighted = "ok" /\ reply'.phase = "Validation" =>
           \/ assigned # None \/ turn["provider"] \notin host.registered
           \/ ChangedBy("call")',
         prepared # None =>
           \/ reply'.session = None
           \/ pc = "built" /\ reply'.session = prepared.assigned
  PROVE  IInv'
<1>1. /\ reply = None /\ outcome = None /\ events = <<>>
      /\ ~observed /\ ~acted
  BY DEF IInv, Stages, Unlaunched
<1>2. reply'.effects = "none" /\ reply'.kind # "ok"
  BY DEF Harmless
<1>3. Stages' /\ Requested' /\ HandlesKnown' /\ CodexPermitted'
  BY <1>1 DEF IInv, Stages, Unlaunched, Requested, HandlesKnown, CodexPermitted
<1>4. PreflightKept'
  BY <1>1 DEF IInv, PreflightKept
<1>5. WithinHostPolicy'
  BY DEF IInv, WithinHostPolicy
<1>6. PreflightSound' /\ EffectsTruthful'
  BY <1>1, <1>2 DEF PreflightSound, EffectsTruthful
<1>7. SessionProven'
  <2>1. CASE prepared = None
    BY <2>1 DEF SessionProven
  <2>2. CASE reply'.session = None
    BY <1>2, <2>2 DEF SessionProven
  <2>3. CASE pc = "built" /\ reply'.session = prepared.assigned
    <3>1. /\ prepared.assigned # None =>
               prepared.assigned.provider = prepared.provider
          /\ prepared.ephemeral => prepared.assigned = None
      BY <2>3 DEF IInv, HandlesKnown
    <3>2. QED
      BY <1>1, <1>2, <2>3, <3>1 DEF SessionProven
  <2>4. QED
    BY <2>1, <2>2, <2>3
<1>8. Honored' /\ HonorOrRefuse'
  BY HonorKept
<1>9. QED
  BY <1>3, <1>4, <1>5, <1>6, <1>7, <1>8 DEF IInv

\* A cleared environment holds what the policy names.
LEMMA EnvironmentNamed ==
  ASSUME NEW h, h.environment.clear
  PROVE  DOMAIN ChildEnvironment(h) \subseteq
           h.environment.allow \cup DOMAIN h.environment.explicit
             \cup {"CONFIG"}
<1>1. DOMAIN ResolvedEnvironment(h.environment) \subseteq
        h.environment.allow \cup DOMAIN h.environment.explicit
  BY DEF ResolvedEnvironment
<1>2. DOMAIN ChildEnvironment(h) \subseteq
        DOMAIN ResolvedEnvironment(h.environment) \cup {"CONFIG"}
  BY DEF ChildEnvironment
<1>3. QED
  BY <1>1, <1>2

\* A mode that is not a conflict is at least as sealed as the host's.
LEMMA AmbientSealed ==
  ASSUME NEW h, NEW requested, EffectiveAmbient(h, requested) # None
  PROVE  \/ EffectiveAmbient(h, requested) = h
         \/ h = "inherit"
         \/ h \in Hermetic /\ EffectiveAmbient(h, requested) = "hermetic-full"
<1>1. CASE h # "inherit" /\ requested \in {"inherit", h}
  <2>1. ~({h, requested} = Hermetic) \/ EffectiveAmbient(h, requested) = h
    BY <1>1 DEF Hermetic, EffectiveAmbient
  <2>2. QED
    BY <1>1, <2>1 DEF EffectiveAmbient
<1>2. CASE h # "inherit" /\ requested \notin {"inherit", h} /\ {h, requested} = Hermetic
  BY <1>2 DEF EffectiveAmbient
<1>3. CASE h # "inherit" /\ requested \notin {"inherit", h} /\ {h, requested} # Hermetic
  BY <1>3 DEF EffectiveAmbient
<1>4. QED
  BY <1>1, <1>2, <1>3

\* The effective mode is the requested one, the host's where nothing was
\* requested, or the full scope of two hermetic ones.
LEMMA AmbientKept ==
  ASSUME NEW h, NEW requested, EffectiveAmbient(h, requested) # None
  PROVE  \/ EffectiveAmbient(h, requested) = requested
         \/ requested = "inherit" /\ EffectiveAmbient(h, requested) = h
         \/ /\ {h, requested} = Hermetic
            /\ EffectiveAmbient(h, requested) = "hermetic-full"
<1>1. CASE h = "inherit"
  <2>1. ~({h, requested} = Hermetic)
    BY <1>1 DEF Hermetic
  <2>2. QED
    BY <1>1, <2>1 DEF EffectiveAmbient
<1>2. CASE h # "inherit" /\ requested \in {"inherit", h}
  <2>1. ~({h, requested} = Hermetic)
    BY <1>2 DEF Hermetic
  <2>2. QED
    BY <1>2, <2>1 DEF EffectiveAmbient
<1>3. CASE h # "inherit" /\ requested \notin {"inherit", h}
  BY <1>3 DEF EffectiveAmbient
<1>4. QED
  BY <1>1, <1>2, <1>3

\* Claude's command carries what its turn says.
LEMMA ClaudeHonors ==
  ASSUME IInv, pc = "ready", turn["provider"] = "claude",
         EffectiveAmbient(host.ambient, turn["claude.ambient"]) # None,
         UNCHANGED <<layers, turn, host>>,
         command' = ClaudeCommand(turn, host, assigned)
  PROVE  HonorOrRefuse'
<1> DEFINE paths == SharedPaths \cup TurnPaths(turn["provider"])
<1>1. \A path : Wanted(path)' = Wanted(path)
  BY DEF Wanted
<1>2. /\ DOMAIN turn = TurnPaths("claude")
      /\ \A path \in paths : Wanted(path) = IF path \in DOMAIN turn THEN turn[path]
                                            ELSE DefaultOf(path)
  BY DEF IInv, Honored, Bound
<1>3. /\ DOMAIN command'.options = ClaudeFlags
      /\ \A path \in ClaudeFlags : command'.options[path] = turn[path]
      /\ command'.provider = "claude"
      /\ command'.resume = turn["resume"] /\ command'.sandbox = None
      /\ command'.ambient = EffectiveAmbient(host.ambient, turn["claude.ambient"])
  BY DEF ClaudeCommand
<1>4. /\ "resume" \in DOMAIN turn /\ "claude.ambient" \in DOMAIN turn
      /\ "provider" \in DOMAIN turn
      /\ \A path \in paths :
           \/ path \in {"provider", "resume", "claude.ambient"}
           \/ path = "filesystem" /\ path \notin DOMAIN turn \cup ClaudeFlags
           \/ path \in ClaudeFlags /\ path \in DOMAIN turn /\ path # "filesystem"
  BY <1>2 DEF TurnPaths, SharedPaths, ClaudePaths, ClaudeFlags
<1>5. AmbientHonored(turn["claude.ambient"])'
  <2>1. turn["claude.ambient"]' = turn["claude.ambient"]
    OBVIOUS
  <2>2. QED
    BY <1>3, <2>1, AmbientKept DEF AmbientHonored
<1> DEFINE honored(path) ==
      CASE path = "provider" -> command'.provider = Wanted(path)
        [] path = "filesystem" /\ command'.provider = "codex" ->
             command'.sandbox = Wanted(path)
        [] path = "resume" -> command'.resume = Wanted(path)
        [] path = "claude.ambient" -> AmbientHonored(Wanted(path))'
        [] OTHER -> IF path \in DOMAIN command'.options
                      THEN command'.options[path] = Wanted(path)
                      ELSE Wanted(path) = DefaultOf(path)
<1>6. ASSUME NEW path \in paths
      PROVE  honored(path)
  <2>1. CASE path = "resume"
    BY <1>2, <1>3, <1>4, <2>1
  <2>2. CASE path = "claude.ambient"
    <3>1. Wanted(path)' = turn["claude.ambient"]'
      BY <1>1, <1>2, <1>4, <2>2
    <3>2. QED
      BY <1>5, <2>2, <3>1
  <2>3. CASE path = "provider"
    BY <1>2, <1>3, <1>4, <2>3
  <2>4. CASE path \notin {"provider", "resume", "claude.ambient"}
    BY <1>2, <1>3, <1>4, <2>4
  <2>5. QED
    BY <2>1, <2>2, <2>3, <2>4
<1> HIDE DEF paths
<1>7. QED
  BY <1>1, <1>6 DEF HonorOrRefuse, paths

\* Codex's command carries what its turn says.
LEMMA CodexHonors ==
  ASSUME IInv, pc = "prepared", UNCHANGED <<layers, turn, host>>,
         command' = CodexCommand(turn, host)
  PROVE  HonorOrRefuse'
<1> DEFINE paths == SharedPaths \cup TurnPaths(turn["provider"])
<1>1. \A path : Wanted(path)' = Wanted(path)
  BY DEF Wanted
<1>2. /\ DOMAIN turn = TurnPaths("codex") /\ turn["provider"] = "codex"
      /\ \A path \in paths : Wanted(path) = IF path \in DOMAIN turn THEN turn[path]
                                            ELSE DefaultOf(path)
      /\ turn["resume"] # None => turn["dirs"] = <<>>
  BY DEF IInv, Honored, Bound, CodexPermitted
<1>3. /\ command'.resume = turn["resume"]
      /\ command'.sandbox = turn["filesystem"]
      /\ command'.provider = "codex"
      /\ DOMAIN command'.options = CodexFlags(turn)
      /\ \A path \in CodexFlags(turn) : command'.options[path] = turn[path]
  BY DEF CodexCommand
<1>4. /\ "resume" \in DOMAIN turn /\ "filesystem" \in DOMAIN turn
      /\ "claude.ambient" \notin paths /\ "dirs" \in DOMAIN turn
      /\ paths = DOMAIN turn
      /\ \A path \in paths :
           path \in {"provider", "filesystem", "resume", "dirs"} \/ path \in CodexFlags(turn)
      /\ "dirs" \in CodexFlags(turn) <=> turn["resume"] = None
  BY <1>2 DEF TurnPaths, SharedPaths, ClaudePaths, CodexPaths, CodexFlags
<1>5. DefaultOf("dirs") = <<>>
  BY DEF DefaultOf, ClaudeDefaults
<1> DEFINE honored(path) ==
      CASE path = "provider" -> command'.provider = Wanted(path)
        [] path = "filesystem" /\ command'.provider = "codex" ->
             command'.sandbox = Wanted(path)
        [] path = "resume" -> command'.resume = Wanted(path)
        [] path = "claude.ambient" -> AmbientHonored(Wanted(path))'
        [] OTHER -> IF path \in DOMAIN command'.options
                      THEN command'.options[path] = Wanted(path)
                      ELSE Wanted(path) = DefaultOf(path)
<1> HIDE DEF paths
<1>6. ASSUME NEW path \in paths
      PROVE  honored(path)
  <2>1. Wanted(path) = turn[path] /\ path \in DOMAIN turn
    BY <1>2, <1>4
  <2>2. CASE path = "filesystem"
    BY <1>3, <1>4, <2>1, <2>2
  <2>3. CASE path = "resume"
    BY <1>3, <2>1, <2>3
  <2>4. CASE path = "dirs"
    BY <1>2, <1>3, <1>4, <1>5, <2>1, <2>4
  <2>5. CASE path = "provider"
    BY <1>2, <1>3, <2>1, <2>5
  <2>6. CASE path \notin {"provider", "filesystem", "resume", "dirs"}
    BY <1>3, <1>4, <2>1, <2>6
  <2>7. QED
    BY <2>2, <2>3, <2>4, <2>5, <2>6
<1>7. QED
  BY <1>1, <1>6 DEF HonorOrRefuse, paths

\* Claude's call refuses, or hands over a command that the policy permits.
LEMMA CallClaudeStep == IInv /\ CallClaude => IInv'
<1> SUFFICES ASSUME IInv, CallClaude PROVE IInv'
  OBVIOUS
<1> DEFINE routed == RouteRefusal
           called == ClaudeCallRefusal(turn, host, assigned, cancelled)
           refusal == IF routed # None THEN routed ELSE called
<1>1. /\ pc = "ready" /\ turn["provider"] = "claude" /\ reply = None
      /\ outcome = None /\ events = <<>> /\ ~observed /\ ~acted
      /\ prepared = None /\ assigned \in {None} \cup Handles
  BY DEF IInv, CallClaude, Stages, Unlaunched, Requested
<1>2. UNCHANGED <<layers, turn, host, assigned, cancelled, files, preflighted, looks,
                  observed, acted, outcome, events>>
  BY DEF CallClaude, request, world, verdict, process
<1>3. /\ routed = None /\ turn["resume"] # None =>
           turn["resume"].provider = "claude"
      /\ routed # None =>
           /\ Harmless(routed)
           /\ \/ turn["resume"] # None /\ turn["resume"].provider # "claude"
              \/ turn["provider"] \notin host.registered
  BY <1>1, RouteFacts
<1>4. /\ called = None =>
           /\ assigned # None =>
                turn["resume"] = None /\ assigned.provider = "claude"
           /\ EffectiveAmbient(host.ambient, turn["claude.ambient"]) # None
           /\ ~Fails(ClaudeSessionChecks(turn))
           /\ ~Fails(ClaudeOptionChecks(turn, host))
      /\ called # None =>
           /\ Harmless(called)
           /\ called.phase = "Validation" /\ assigned = None =>
                \/ Fails(ClaudeSessionChecks(turn))
                \/ Fails(ClaudeOptionChecks(turn, host))
  BY <1>1, ClaudeCallFacts
<1>5. /\ preflighted = "ok" => /\ ~Fails(ClaudeSessionChecks(turn))
                               /\ ~Fails(ClaudeOptionChecks(turn, host))
      /\ preflighted = "refused" => \/ Fails(ClaudeSessionChecks(turn))
                                    \/ Fails(ClaudeOptionChecks(turn, host))
  BY <1>1, ClaudePreflightFacts DEF IInv, PreflightKept
<1>6. CASE refusal # None
  <2>1. pc' = "done" /\ reply' = refusal /\ UNCHANGED <<command, prepared>>
    BY <1>6 DEF CallClaude, Answer
  <2>2. Harmless(reply')
    BY <1>3, <1>4, <1>6, <2>1
  <2>3. preflighted = "ok" /\ reply'.phase = "Validation" =>
          assigned # None \/ turn["provider"] \notin host.registered
    BY <1>3, <1>4, <1>5, <1>6, <2>1, ClaudeSessionFacts
  <2>4. QED
    BY <1>1, <1>2, <2>1, <2>2, <2>3, RefusedBeforeLaunch
<1>7. CASE refusal = None
  <2>1. /\ pc' = "built" /\ prepared' = PreparedTurn
        /\ command' = ClaudeCommand(turn, host, assigned)
        /\ reply' = reply
    BY <1>7 DEF CallClaude
  <2>2. routed = None /\ called = None
    BY <1>7
  <2>3. preflighted # "refused"
    BY <1>4, <1>5, <2>2
  <2> HIDE DEF routed, called, refusal
  <2>4. Stages' /\ Requested' /\ CodexPermitted'
    BY <1>1, <1>2, <2>1 DEF IInv, Stages, Unlaunched, Requested, CodexPermitted
  <2>5. HandlesKnown'
    <3>1. /\ prepared'.provider = "claude" /\ prepared'.prior = turn["resume"]
          /\ prepared'.assigned = assigned /\ prepared'.ephemeral = FALSE
      BY <1>1, <2>1 DEF PreparedTurn
    <3>2. QED
      BY <1>1, <1>3, <1>4, <2>1, <2>2, <3>1 DEF HandlesKnown, ProviderIds
  <2>6. PreflightKept'
    BY <1>2, <2>1, <2>3 DEF PreflightKept
  <2>7. WithinHostPolicy'
    <3>1. /\ command'.resume = turn["resume"]
          /\ command'.ambient = EffectiveAmbient(host.ambient, turn["claude.ambient"])
          /\ command'.environment = ChildEnvironment(host)
      BY <2>1 DEF ClaudeCommand
    <3>2. \/ command'.ambient = host.ambient
          \/ host.ambient = "inherit"
          \/ host.ambient \in Hermetic /\ command'.ambient = "hermetic-full"
      BY <1>4, <2>2, <3>1, AmbientSealed
    <3>3. host.environment.clear =>
            DOMAIN command'.environment \subseteq
              host.environment.allow \cup DOMAIN host.environment.explicit
                \cup {"CONFIG"}
      BY <3>1, EnvironmentNamed
    <3>4. QED
      BY <1>1, <1>2, <1>3, <2>2, <3>1, <3>2, <3>3 DEF WithinHostPolicy
  <2>8. PreflightSound' /\ EffectsTruthful' /\ SessionProven'
    BY <1>1, <1>2, <2>1 DEF PreflightSound, EffectsTruthful, SessionProven
  <2>9. Honored'
    BY <1>2, <2>1, HonorKept
  <2>10. HonorOrRefuse'
    BY <1>1, <1>2, <1>4, <2>1, <2>2, ClaudeHonors
  <2>11. QED
    BY <2>4, <2>5, <2>6, <2>7, <2>8, <2>9, <2>10 DEF IInv
<1>8. QED
  BY <1>6, <1>7

\* Codex's call refuses, or leaves what its future relies on.
LEMMA CallCodexStep == IInv /\ CallCodex => IInv'
<1> SUFFICES ASSUME IInv, CallCodex PROVE IInv'
  OBVIOUS
<1> DEFINE routed == RouteRefusal
           called == CodexCallRefusal(turn, host, files, assigned, cancelled)
           refusal == IF routed # None THEN routed ELSE called
<1>1. /\ pc = "ready" /\ turn["provider"] = "codex" /\ reply = None
      /\ outcome = None /\ events = <<>> /\ ~observed /\ ~acted
      /\ prepared = None /\ command = None /\ turn["dirs"] \in Seq(STRING)
  BY DEF IInv, CallCodex, Stages, Unlaunched, Requested
<1>2. /\ UNCHANGED <<layers, turn, host, assigned, cancelled, files,
                     preflighted, command, observed, acted, outcome, events>>
      /\ DOMAIN looks' = DOMAIN looks /\ looks'["call"] = files
      /\ looks'["preflight"] = looks["preflight"]
  BY DEF IInv, Stages, CallCodex, Look, request, world, process
<1>3. /\ routed = None /\ turn["resume"] # None =>
           turn["resume"].provider = "codex"
      /\ routed # None =>
           /\ Harmless(routed)
           /\ \/ turn["resume"] # None /\ turn["resume"].provider # "codex"
              \/ turn["provider"] \notin host.registered
  BY <1>1, RouteFacts
<1>4. /\ called = None => /\ assigned = None /\ Granted(turn, host, files)
                          /\ ~Fails(CodexTurnChecks(turn))
      /\ called # None =>
           /\ Harmless(called)
           /\ called.phase = "Validation" =>
                \/ assigned # None \/ ~Granted(turn, host, files)
                \/ Fails(CodexTurnChecks(turn))
  BY <1>1, CodexCallFacts, CodexChecksFacts
<1>5. /\ preflighted = "ok" => /\ Granted(turn, host, looks["preflight"])
                               /\ ~Fails(CodexTurnChecks(turn))
      /\ preflighted = "refused" =>
           \/ ~Granted(turn, host, looks["preflight"])
           \/ Fails(CodexTurnChecks(turn))
           \/ Fails(SkillChecks(host, looks["preflight"]))
  BY <1>1, CodexPreflightFacts DEF IInv, PreflightKept
<1>6. CASE refusal # None
  <2>1. pc' = "done" /\ reply' = refusal /\ UNCHANGED prepared
    BY <1>6 DEF CallCodex, Answer
  <2>2. Harmless(reply')
    BY <1>3, <1>4, <1>6, <2>1
  <2>3. files # looks["preflight"] => ChangedBy("call")'
    BY <1>1, <1>2 DEF ChangedBy
  <2>4. preflighted = "ok" /\ reply'.phase = "Validation" =>
          \/ assigned # None \/ turn["provider"] \notin host.registered
          \/ ChangedBy("call")'
    BY <1>3, <1>4, <1>5, <1>6, <2>1, <2>3, CodexTurnFacts
  <2>5. QED
    BY <1>1, <1>2, <2>1, <2>2, <2>4, RefusedBeforeLaunch
<1>7. CASE refusal = None
  <2>1. pc' = "prepared" /\ prepared' = PreparedTurn /\ reply' = reply
    BY <1>7 DEF CallCodex
  <2>2. routed = None /\ called = None
    BY <1>7
  <2> HIDE DEF routed, called, refusal
  <2>3. Stages' /\ Requested'
    BY <1>1, <1>2, <2>1 DEF IInv, Stages, Unlaunched, Requested
  <2>4. HandlesKnown'
    <3>1. /\ prepared'.provider = "codex" /\ prepared'.prior = turn["resume"]
          /\ prepared'.assigned = assigned
      BY <1>1, <2>1 DEF PreparedTurn
    <3>2. QED
      BY <1>3, <1>4, <2>1, <2>2, <3>1 DEF HandlesKnown, ProviderIds
  <2>5. CodexPermitted'
    <3>1. turn["resume"] # None => turn["dirs"] = <<>>
      BY <1>4, <2>2, CodexTurnFacts
    <3>2. QED
      BY <1>1, <1>2, <1>3, <1>4, <2>1, <2>2, <3>1 DEF CodexPermitted, Granted
  <2>6. PreflightKept'
    <3>1. preflighted = "refused" =>
            \/ ChangedBy("call")'
            \/ FirstError(SkillChecks(host, looks["preflight"])) # None
      BY <1>1, <1>2, <1>4, <1>5, <2>2, CodexSkillChecks, RefusalFacts
      DEF ChangedBy
    <3>2. QED
      BY <1>2, <2>1, <3>1 DEF PreflightKept
  <2>7. WithinHostPolicy' /\ PreflightSound' /\ EffectsTruthful' /\ SessionProven'
    BY <1>1, <1>2, <2>1 DEF WithinHostPolicy, PreflightSound,
       EffectsTruthful, SessionProven
  <2>8. Honored' /\ HonorOrRefuse'
    BY <1>1, <1>2, <2>1, HonorKept
  <2>9. QED
    BY <2>3, <2>4, <2>5, <2>6, <2>7, <2>8 DEF IInv
<1>8. QED
  BY <1>6, <1>7

\* Codex's future refuses, or hands over a command that the policy permits.
LEMMA BuildCodexStep == IInv /\ BuildCodex => IInv'
<1> SUFFICES ASSUME IInv, BuildCodex PROVE IInv'
  OBVIOUS
<1> DEFINE refusal == CodexBuildRefusal(host, files, cancelled)
<1>1. /\ pc = "prepared" /\ reply = None /\ outcome = None
      /\ events = <<>> /\ ~observed /\ ~acted /\ command = None
  BY DEF IInv, BuildCodex, Stages, Unlaunched
<1>2. /\ UNCHANGED <<layers, turn, host, assigned, files, preflighted,
                     prepared, observed, acted, outcome, events>>
      /\ DOMAIN looks' = DOMAIN looks /\ looks'["build"] = files
      /\ looks'["preflight"] = looks["preflight"]
      /\ looks'["call"] = looks["call"]
  BY DEF IInv, Stages, BuildCodex, Look, request, world, process
<1>3. /\ refusal = None => ~Fails(SkillChecks(host, files))
      /\ refusal # None => /\ Harmless(refusal) /\ refusal.session = None
                           /\ refusal.phase # "Validation"
  BY CodexBuildFacts
<1> HIDE DEF refusal
<1>4. CASE refusal # None
  <2>1. pc' = "done" /\ reply' = refusal /\ UNCHANGED command
    BY <1>4 DEF BuildCodex, Answer, refusal
  <2>2. QED
    BY <1>1, <1>2, <1>3, <1>4, <2>1, RefusedBeforeLaunch
<1>5. CASE refusal = None
  <2>1. pc' = "built" /\ command' = CodexCommand(turn, host) /\ reply' = reply
    BY <1>5 DEF BuildCodex, refusal
  <2>2. preflighted = "refused" => ChangedBy("call")' \/ ChangedBy("build")'
    <3>1. ASSUME preflighted = "refused", ~ChangedBy("call")
          PROVE  files # looks["preflight"]
      <4>1. FirstError(SkillChecks(host, looks["preflight"])) # None
        BY <1>1, <3>1 DEF IInv, PreflightKept
      <4>2. QED
        BY <1>3, <1>5, <4>1, CodexSkillChecks, RefusalFacts
    <3>2. turn["provider"] = "codex"
      BY <1>1 DEF IInv, CodexPermitted
    <3>3. QED
      BY <1>2, <3>1, <3>2 DEF ChangedBy
  <2>3. Stages' /\ Requested' /\ CodexPermitted' /\ HandlesKnown'
    BY <1>1, <1>2, <2>1 DEF IInv, Stages, Unlaunched, Requested,
       CodexPermitted, HandlesKnown
  <2>4. PreflightKept'
    BY <1>2, <2>1, <2>2 DEF PreflightKept
  <2>5. WithinHostPolicy'
    <3>1. /\ command'.resume = turn["resume"]
          /\ command'.sandbox = turn["filesystem"]
          /\ command'.environment = ChildEnvironment(host)
      BY <2>1 DEF CodexCommand
    <3>2. host.environment.clear =>
            DOMAIN command'.environment \subseteq
              host.environment.allow \cup DOMAIN host.environment.explicit
                \cup {"CONFIG"}
      BY <3>1, EnvironmentNamed
    <3>3. /\ turn["provider"] = "codex"
          /\ turn["filesystem"] <= host.ceiling
          /\ turn["filesystem"] = WorkspaceWrite =>
               \A i \in DOMAIN Roots(turn) :
                 looks["call"][Roots(turn)[i]] = "inside"
          /\ turn["resume"] # None => turn["resume"].provider = "codex"
      BY <1>1 DEF IInv, CodexPermitted
    <3>4. QED
      BY <1>2, <3>1, <3>2, <3>3 DEF WithinHostPolicy
  <2>6. PreflightSound' /\ EffectsTruthful' /\ SessionProven'
    BY <1>1, <1>2, <2>1 DEF PreflightSound, EffectsTruthful, SessionProven
  <2>7. Honored'
    BY <1>2, <2>1, HonorKept
  <2>8. HonorOrRefuse'
    BY <1>1, <1>2, <2>1, CodexHonors
  <2>9. QED
    BY <2>3, <2>4, <2>5, <2>6, <2>7, <2>8 DEF IInv
<1>6. QED
  BY <1>4, <1>5

\* The last look at the token, the schema file, the start.
LEMMA LaunchStep == IInv /\ Launch => IInv'
<1> SUFFICES ASSUME IInv, Launch PROVE IInv'
  OBVIOUS
<1>1. /\ pc = "built" /\ reply = None /\ outcome = None
      /\ events = <<>> /\ ~observed /\ ~acted
      /\ preflighted = "refused" => ChangedBy("call") \/ ChangedBy("build")
      /\ assigned \in {None} \cup Handles
  BY DEF IInv, Launch, Stages, Unlaunched, PreflightKept, Requested
<1>2. UNCHANGED <<layers, turn, host, assigned, files, preflighted, looks, command,
                  prepared, observed, acted, outcome>>
  BY DEF Launch, request, world, verdict, process
<1>3. CASE Answer(Attach(CancelledBeforeLaunch, prepared.assigned)) /\ UNCHANGED events
  <2> DEFINE x == prepared.assigned
             r == Attach(CancelledBeforeLaunch, x)
  <2>1. pc' = "done" /\ reply' = r /\ events' = events
    BY <1>3 DEF Answer
  <2>2. /\ r.kind = "Cancelled" /\ r.phase = "Admission" /\ r.effects = "none"
        /\ r.session \in {None, x}
    BY ReplyFields DEF Attach, CancelledBeforeLaunch
  <2>3. x \in {None} \cup Handles
    BY <1>1 DEF IInv, HandlesKnown
  <2>4. Harmless(r)
    BY <2>3, AttachHarmless, Errors
  <2> HIDE DEF r, x
  <2>5. QED
    BY <1>1, <1>2, <2>1, <2>2, <2>4, RefusedBeforeLaunch DEF x
<1>4. CASE Answer(SchemaFileError) /\ UNCHANGED events
  <2>1. pc' = "done" /\ reply' = SchemaFileError /\ events' = events
    BY <1>4 DEF Answer
  <2>2. SchemaFileError.phase = "Launch" /\ SchemaFileError.session = None
    BY ReplyFields DEF SchemaFileError
  <2>3. QED
    BY <1>1, <1>2, <2>1, <2>2, Errors, RefusedBeforeLaunch
<1>5. CASE pc' = "launching" /\ events' = Append(events, "Started") /\ UNCHANGED reply
  <2>1. events' = <<"Started">>
    BY <1>1, <1>5
  <2>2. Stages' /\ Requested' /\ CodexPermitted' /\ HandlesKnown' /\ PreflightKept'
    BY <1>1, <1>2, <1>5, <2>1 DEF IInv, Stages, Unlaunched, Requested,
       CodexPermitted, HandlesKnown, PreflightKept, ChangedBy
  <2>3. WithinHostPolicy'
    BY <1>2 DEF IInv, WithinHostPolicy
  <2>4. PreflightSound' /\ EffectsTruthful' /\ SessionProven'
    BY <1>1, <1>2, <1>5 DEF PreflightSound, ChangedBy, EffectsTruthful,
       SessionProven
  <2>5. Honored' /\ HonorOrRefuse'
    BY <1>2, <1>5, HonorKept
  <2>6. QED
    BY <2>2, <2>3, <2>4, <2>5 DEF IInv
<1>6. QED
  BY <1>3, <1>4, <1>5 DEF Launch

\* The child exists, and has not acted.
LEMMA SpawnStep == IInv /\ Spawn => IInv'
<1> SUFFICES ASSUME IInv, Spawn PROVE IInv'
  OBVIOUS
<1>1. /\ pc = "launching" /\ reply = None /\ outcome = None
      /\ events = <<"Started">>
  BY DEF IInv, Spawn, Stages
<1>2. /\ pc' = "running" /\ command' = None /\ preflighted' = None
      /\ DOMAIN looks' = {"preflight", "call", "build"}
      /\ UNCHANGED <<assigned, prepared, outcome, events, reply>>
  BY DEF Spawn, NoLooks
<1>3. Stages' /\ Requested' /\ CodexPermitted' /\ HandlesKnown' /\ PreflightKept'
  BY <1>1, <1>2, NoneVerdict DEF IInv, Stages, Unlaunched, Requested,
     CodexPermitted, HandlesKnown, PreflightKept
<1>4. WithinHostPolicy' /\ PreflightSound' /\ EffectsTruthful' /\ SessionProven'
      /\ Honored' /\ HonorOrRefuse'
  BY <1>1, <1>2, NoneVerdict DEF WithinHostPolicy, PreflightSound,
     EffectsTruthful, SessionProven, Honored, HonorOrRefuse
<1>5. QED
  BY <1>3, <1>4 DEF IInv

\* Acting changes what a later reply may claim, and no reply exists yet.
LEMMA ActStep == IInv /\ Act => IInv'
<1> SUFFICES ASSUME IInv, Act PROVE IInv'
  OBVIOUS
<1>1. /\ pc = "running" /\ reply = None /\ outcome = None
      /\ events = <<"Started">>
  BY DEF IInv, Act, Stages
<1>2. UNCHANGED <<pc, layers, turn, host, assigned, files, preflighted, looks, command,
                  prepared, observed, outcome, events, reply>>
  BY DEF Act, request, world, verdict
<1>3. Stages' /\ Requested' /\ CodexPermitted' /\ HandlesKnown' /\ PreflightKept'
  BY <1>1, <1>2 DEF IInv, Stages, Unlaunched, Requested, CodexPermitted,
     HandlesKnown, PreflightKept
<1>4. WithinHostPolicy' /\ PreflightSound'
  BY <1>1, <1>2 DEF IInv, WithinHostPolicy, PreflightSound, ChangedBy
<1>5. EffectsTruthful' /\ SessionProven'
  BY <1>1, <1>2 DEF EffectsTruthful, SessionProven
<1>6. Honored' /\ HonorOrRefuse'
  BY <1>2, HonorKept
<1>7. QED
  BY <1>3, <1>4, <1>5, <1>6 DEF IInv

\* The reply to whatever the wrapper returns.
LEMMA ReturnStep ==
  ASSUME IInv, pc \in {"launching", "running"},
         NEW o \in Outcomes \cup [tag : {"Cancelled"}], Return(o)
  PROVE  IInv'
<1>1. /\ reply = None /\ outcome = None /\ events = <<"Started">>
      /\ pc = "launching" => ~acted /\ ~observed
  BY DEF IInv, Stages
<1>2. /\ pc' = "done" /\ reply' = ReplyTo(o) /\ outcome' = o
      /\ events' \in {events, Append(events, "OutputDelta")}
      /\ UNCHANGED <<layers, turn, host, assigned, files, preflighted, looks, command,
                      prepared, observed, acted>>
  BY DEF Return, Answer, request, world, verdict
<1>3. Carried(prepared) /\ prepared.provider \in ProviderIds
  BY DEF IInv, HandlesKnown, Carried
<1>4. /\ ReplyTo(o).effects = "none" => ~acted
      /\ ReplyTo(o).phase \in {"Admission", "Launch"} => pc = "launching"
      /\ Proven(ReplyTo(o), o, prepared)
      /\ o # None
      /\ o.tag = "CommandFailed" /\ prepared.provider = "codex" =>
           o.events \in Streams
  BY <1>1, <1>3, ReplyFacts
<1>5. events' # <<>>
  BY <1>1, <1>2
<1>6. Stages'
  <2>1. ReplyTo(outcome)' = ReplyTo(o)
    BY <1>2 DEF ReplyTo
  <2>2. QED
    BY <1>2, <1>4, <2>1 DEF IInv, Stages, Unlaunched
<1>7. Requested' /\ CodexPermitted' /\ HandlesKnown' /\ PreflightKept'
  BY <1>1, <1>2 DEF IInv, Requested, CodexPermitted, HandlesKnown, PreflightKept
<1>8. WithinHostPolicy'
  BY <1>2 DEF IInv, WithinHostPolicy
<1>9. PreflightSound' /\ EffectsTruthful'
  BY <1>1, <1>2, <1>4, <1>5 DEF IInv, PreflightSound, ChangedBy, EffectsTruthful
<1>10. SessionProven'
  <2>1. ReportedValues' = ReportedBy(o)
    BY <1>2, <1>4 DEF ReportedValues, ReportedBy
  <2>2. QED
    BY <1>2, <1>4, <2>1 DEF SessionProven, Proven, ThreadsOf
<1>11. Honored' /\ HonorOrRefuse'
  BY <1>2, HonorKept
<1>12. QED
  BY <1>6, <1>7, <1>8, <1>9, <1>10, <1>11 DEF IInv

LEMMA SettleStep == IInv /\ (Settle \/ SettleCancelled) => IInv'
<1>1. ASSUME IInv, Settle PROVE IInv'
  BY <1>1, ReturnStep DEF Settle
<1>2. ASSUME IInv, SettleCancelled PROVE IInv'
  BY <1>2, ReturnStep DEF SettleCancelled
<1>3. QED
  BY <1>1, <1>2

\* Every step keeps the invariant.
LEMMA NextIInv == IInv /\ [Next]_vars => IInv'
<1>1. ASSUME IInv, UNCHANGED vars PROVE IInv'
  BY <1>1, Unread DEF vars
<1>2. QED
  BY <1>1, PlanStep, CheckAheadStep, ChangeFilesStep, CancelStep, CallClaudeStep,
     CallCodexStep, BuildCodexStep, LaunchStep, SpawnStep, ActStep, SettleStep
  DEF Next

(***************************************************************************)
(* The theorems                                                            *)
(***************************************************************************)

\* Every state of a turn satisfies the inductive invariant.
THEOREM Invariance == Spec => []IInv
<1>1. QED
  BY InitIInv, NextIInv, PTL DEF Spec

\* A reply that claims no effects is true, and a failure to admit or launch
\* never reached a process.
THEOREM EffectsAreTruthful == Spec => []EffectsTruthful
<1>1. IInv => EffectsTruthful
  BY DEF IInv
<1>2. QED
  BY <1>1, Invariance, PTL

\* A session that a reply offers is proven.
THEOREM SessionsAreProven == Spec => []SessionProven
<1>1. IInv => SessionProven
  BY DEF IInv
<1>2. QED
  BY <1>1, Invariance, PTL

\* Each control of a command is what the highest layer asked for.
THEOREM NothingIsDropped == Spec => []HonorOrRefuse
<1>1. IInv => HonorOrRefuse
  BY DEF IInv
<1>2. QED
  BY <1>1, Invariance, PTL

\* A child stays inside the host's policy, whatever the layers say.
THEOREM PolicyHolds == Spec => []WithinHostPolicy
<1>1. IInv => WithinHostPolicy
  BY DEF IInv
<1>2. QED
  BY <1>1, Invariance, PTL

\* What preflight accepts is not refused for its contents, and what it
\* refuses reaches no child, unless the file system has changed.
THEOREM PreflightIsSound == Spec => []PreflightSound
<1>1. IInv => PreflightSound
  BY DEF IInv
<1>2. QED
  BY <1>1, Invariance, PTL

\* Codex's exit code changes nothing that the host decides on.
THEOREM ExitCodeDoesNotMatter == Spec => []ExitCodeIrrelevant
<1>1. IInv => ExitCodeIrrelevant
  <2> SUFFICES ASSUME IInv, reply # None, outcome # None,
                      outcome.tag = "CommandFailed",
                      prepared.provider = "codex"
               PROVE  LET zero == SettleOutcome([events |-> outcome.events,
                                                 thread |-> None,
                                                 session |-> None], prepared)
                      IN zero.kind # "ok" /\ zero.phase # "Settlement" =>
                           /\ reply.kind = zero.kind
                           /\ reply.phase = zero.phase
                           /\ reply.effects = zero.effects
    BY DEF ExitCodeIrrelevant
  <2> DEFINE e == outcome.events
             result == [events |-> e, thread |-> None, session |-> None]
             thread == Reported(e, result, "thread")
             session == Reported(e, result, "session")
             handle == ResultSession(thread, session, prepared.prior,
                                     prepared.ephemeral)
             zero == SettleOutcome(result, prepared)
             ordered == /\ HasOneTerminal(e)
                        /\ Consistent(thread) /\ Consistent(session)
  <2>1. e \in Streams
    BY DEF IInv, Stages
  <2>2. reply = CommandFailure(e)
    BY DEF IInv, Stages, ReplyTo, CodexReply
  <2>3. zero = IF ~ordered THEN SettlementError
               ELSE IF Last(e).type = "completed" THEN Success(handle)
               ELSE ClassifyTerminalFailure(Last(e).value, handle)
    <3>1. result.events = e
      OBVIOUS
    <3>2. QED
      BY <3>1 DEF SettleOutcome
  <2> HIDE DEF e, thread, session, handle, zero
  <2>4. CASE ~ordered
    <3>1. zero.phase = "Settlement"
      BY <2>3, <2>4, ReplyFields DEF SettlementError
    <3>2. QED
      BY <3>1 DEF zero, e
  <2>5. CASE ordered /\ Last(e).type = "completed"
    <3>1. zero.kind = "ok"
      BY <2>3, <2>5, ReplyFields DEF Success
    <3>2. QED
      BY <3>1 DEF zero, e
  <2>6. CASE ordered /\ Last(e).type # "completed"
    <3>1. Last(e).type = "failed"
      BY <2>1, <2>6, StreamFacts
    <3>2. reply = ClassifyTerminalFailure(Last(e).value, None)
      BY <2>2, <2>6, <3>1 DEF CommandFailure
    <3>3. zero = ClassifyTerminalFailure(Last(e).value, handle)
      BY <2>3, <2>6
    <3>4. /\ reply.kind = zero.kind /\ reply.phase = zero.phase
          /\ reply.effects = zero.effects
      BY <3>2, <3>3, ClassifyFacts
    <3>5. QED
      BY <3>4 DEF zero, e
  <2>7. QED
    BY <2>4, <2>5, <2>6
<1>2. QED
  BY <1>1, Invariance, PTL

=============================================================================
