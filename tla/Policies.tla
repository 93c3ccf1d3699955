---- MODULE Policies ----
(***************************************************************************)
(* The policy service: policy sets with immutable versions that are        *)
(* activated and archived under optimistic concurrency, the default        *)
(* policies made at onboarding, and evaluations that resolve the subject,  *)
(* look for an earlier decision, list the active versions and record a     *)
(* decision, each in a transaction of its own.                             *)
(*                                                                         *)
(* One tenant.  Texts are left out.  Of times there is what the database   *)
(* loses: the nanoseconds by which decided_at exceeds the microsecond      *)
(* (expires_at, a fixed time later, exceeds it by as many), and of a       *)
(* signature the time that it was made over.                               *)
(***************************************************************************)
EXTENDS PolicyEngine, FiniteSets

CONSTANTS
    Custom,        \* policy sets that users may create, with their scope
    Stored,        \* sets that are there with versions, by set and number
    Agents,        \* agents, each of one company
    CompanyOf,
    Levels,        \* autonomy levels the organization service may give an agent
    Inputs,        \* requests for a decision: subject, action, risk, cost...
    Operations,    \* onboarding operations of the tenant
    RequestIds,    \* evaluation request ids
    Evaluators,    \* evaluations that can be under way together
    RowsFit,       \* whether the default rules suit policy_rules
    MaxRequests    \* bound: requests that are started

ASSUME PolicyStoredAssumption == DOMAIN Stored \subseteq DOMAIN Custom
ASSUME PolicyAgentsAssumption == CompanyOf \in [Agents -> STRING]
ASSUME PolicyBoundAssumption == MaxRequests \in Nat /\ RowsFit \in BOOLEAN

\* Tables are finite, and the primary key of policy_rules tells rules apart.
ASSUME PolicyTablesAssumption ==
    /\ IsFiniteSet(DOMAIN Custom) /\ IsFiniteSet(Operations)
    /\ \A p \in DOMAIN Stored : \A n \in DOMAIN Stored[p] :
        LET rules == Stored[p][n].rules IN
        /\ IsFiniteSet(rules)
        /\ \A r \in rules : r.priority \in Int /\ r.id \in Int
        /\ \A r, s \in rules : r.id = s.id => r = s

None == "none"

\* Every onboarding operation makes the default policies under ids of its own.
DefaultNames == {"security", "approval", "read"}
Defaults == Operations \X DefaultNames
PolicyIds == DOMAIN Custom \cup Defaults

VARIABLES
    policy,       \* policy_sets
    bootstrapped, \* policy_bootstrap_requests: operation that made the defaults
    bootstrap,    \* EnsureDefaults calls under way
    decision,     \* policy_decisions, by request id
    evaluation,   \* evaluations under way
    autonomy,     \* autonomy levels of the agents, in the organization service
    answers,      \* history: what evaluations were asked, and the decisions they returned
    left          \* requests that can still be started

tables == <<policy, bootstrapped, decision>>
policiesVars == <<tables, bootstrap, evaluation, autonomy, answers, left>>

NoPolicy == [status |-> None, active |-> 0, version |-> 0]
NoDecision == [n |-> 0, hash |-> <<>>, input |-> <<>>, standing |-> {}, result |-> NoResult,
               decidedAt |-> 0, signed |-> 0]
Asleep == [pc |-> "idle", id |-> None, input |-> <<>>, subject |-> <<>>, bundles |-> {},
           standing |-> {}]

PolicyRows == [status : {None, "draft", "active", "archived"}, active : Nat, version : Nat]

PoliciesTypeOK ==
    /\ policy \in [PolicyIds -> PolicyRows]
    /\ bootstrapped \in Operations \cup {None}
    /\ bootstrap \in [Operations -> {"idle", "insert", "load"}]
    /\ DOMAIN decision = RequestIds
    /\ autonomy \in [Agents -> Levels]
    /\ left \in 0 .. MaxRequests

PoliciesInit ==
    /\ policy = [p \in PolicyIds |->
                    IF p \in DOMAIN Stored THEN [status |-> "draft", active |-> 0, version |-> 1]
                    ELSE NoPolicy]
    /\ bootstrapped = None
    /\ bootstrap = [o \in Operations |-> "idle"]
    /\ decision = [q \in RequestIds |-> NoDecision]
    /\ evaluation = [e \in Evaluators |-> Asleep]
    /\ autonomy \in [Agents -> Levels]
    /\ answers = [q \in RequestIds |-> {}]
    /\ left = MaxRequests

Spend == left > 0 /\ left' = left - 1

-----------------------------------------------------------------------------
(* Versions and their scope. *)

Rule(id, priority, effect, patterns, risks, condition, review) ==
    [id |-> id, priority |-> priority, enabled |-> TRUE, effect |-> effect,
     patterns |-> patterns, resources |-> {}, risks |-> risks, maxEstimate |-> {},
     condition |-> condition, constraints |-> [Unconstrained EXCEPT !.review = review]]

AnyUnder(words) == [words |-> words, wildcard |-> TRUE]
Only(words) == [words |-> words, wildcard |-> FALSE]

defaultPolicies == [
    security |-> Rule(1, 10, "deny",
        {AnyUnder(<<"secret", "admin">>), AnyUnder(<<"vault", "admin">>), AnyUnder(<<"kubernetes", "admin">>),
         AnyUnder(<<"cloud", "metadata">>), AnyUnder(<<"tenant", "billing", "admin">>)}, {}, "true", FALSE),
    approval |-> Rule(2, 20, "require_approval",
        {AnyUnder(<<"deploy">>), Only(<<"github", "pull_request", "merge">>), Only(<<"email", "send">>),
         Only(<<"slack", "post">>), AnyUnder(<<"financial">>), Only(<<"secret", "read">>)},
        {}, "true", TRUE),
    read |-> Rule(3, 100, "allow",
        {AnyUnder(<<"read">>), AnyUnder(<<"research">>), AnyUnder(<<"observe">>)}, {"low"}, "cheap", FALSE) ]

newDefaultPolicy(p) == [default |-> "deny", rules |-> {defaultPolicies[p[2]]}]

\* Versions that are in the tables, and what is in them; they never change.
VersionExists(p, n) ==
    IF p \in Defaults THEN n = 1 /\ policy[p].version > 0 ELSE p \in DOMAIN Stored /\ n \in DOMAIN Stored[p]
Version(p, n) == IF p \in Defaults THEN newDefaultPolicy(p) ELSE Stored[p][n]

ScopeOf(p) == IF p \in Defaults THEN [type |-> "tenant", id |-> None] ELSE Custom[p]

\* The WHERE of the bundle query.
Applies(p, subject) ==
    LET scope == ScopeOf(p) IN
    \/ scope.type = "tenant"
    \/ scope.type = "company" /\ scope.id = subject.company
    \/ scope.type = "agent" /\ subject.type = "agent" /\ scope.id = subject.id

\* Active policy versions.
ActiveVersions == {<<p, policy[p].active>> : p \in {q \in PolicyIds : policy[q].status = "active"}}

\* What stays active for the whole of an evaluation.
StillStanding(row) ==
    evaluation' = [e \in Evaluators |->
        [evaluation[e] EXCEPT !.standing =
            {v \in @ : row[v[1]].status = "active" /\ row[v[1]].active = v[2]}]]

-----------------------------------------------------------------------------
(* Management: each request is one transaction. *)

\* INSERT, with status draft and resource version 1.
insertPolicy(p) == policy' = [policy EXCEPT ![p] = [status |-> "draft", active |-> 0, version |-> 1]]

CreatePolicy(p) ==
    /\ policy[p] = NoPolicy
    /\ insertPolicy(p)
    /\ Spend
    /\ UNCHANGED <<bootstrapped, decision, bootstrap, evaluation, autonomy, answers>>

\* The new version is number 0, which CHECK (policy_version > 0) refuses: the
\* transaction is rolled back.
CreateVersion(p) ==
    /\ policy[p].version > 0
    /\ Spend
    /\ UNCHANGED <<tables, bootstrap, evaluation, autonomy, answers>>

\* UPDATE ... WHERE resource_version = expected AND status <> 'archived'; the
\* deferred foreign key wants the version to exist.
ActivatePolicy(p, n, expected) ==
    /\ policy[p].version > 0
    /\ Spend
    /\ policy' = IF /\ policy[p].version = expected
                    /\ policy[p].status # "archived"
                    /\ VersionExists(p, n)
                 THEN [policy EXCEPT ![p] = [status |-> "active", active |-> n, version |-> @.version + 1]]
                 ELSE policy
    /\ StillStanding(policy')
    /\ UNCHANGED <<bootstrapped, decision, bootstrap, autonomy, answers>>

ArchivePolicy(p, expected) ==
    /\ policy[p].version > 0
    /\ Spend
    /\ policy' = IF policy[p].version = expected /\ policy[p].status # "archived"
                 THEN [policy EXCEPT ![p].status = "archived", ![p].version = @ + 1]
                 ELSE policy
    /\ StillStanding(policy')
    /\ UNCHANGED <<bootstrapped, decision, bootstrap, autonomy, answers>>

-----------------------------------------------------------------------------
(* Default policies. *)

\* Looks for an earlier bootstrap of the tenant.
EnsureDefaultPolicies(o) ==
    /\ bootstrap[o] = "idle"
    /\ Spend
    /\ bootstrap' = [bootstrap EXCEPT ![o] = IF bootstrapped = None THEN "insert" ELSE "load"]
    /\ UNCHANGED <<tables, evaluation, autonomy, answers>>

\* The default policies and the bootstrap request, all or nothing: a second
\* request for the tenant violates its unique key.
EnsureDefaults(o) ==
    /\ bootstrap[o] = "insert"
    /\ IF RowsFit /\ bootstrapped = None
       THEN /\ bootstrapped' = o
            /\ policy' = [p \in PolicyIds |-> IF p \in {o} \X DefaultNames
                            THEN [status |-> "active", active |-> 1, version |-> 1] ELSE policy[p]]
            /\ bootstrap' = [bootstrap EXCEPT ![o] = "load"]
       ELSE /\ bootstrap' = [bootstrap EXCEPT ![o] = "idle"]
            /\ UNCHANGED <<policy, bootstrapped>>
    /\ UNCHANGED <<decision, evaluation, autonomy, answers, left>>

\* Reads a column the table does not have: the answer is an error, and the
\* activity is tried again.
loadBootstrapPolicies(o) ==
    /\ bootstrap[o] = "load"
    /\ bootstrap' = [bootstrap EXCEPT ![o] = "idle"]
    /\ UNCHANGED <<tables, evaluation, autonomy, answers, left>>

-----------------------------------------------------------------------------
(* Evaluation. *)

validateEvaluation(input) == input.cost >= 0

Evaluate(e, q, input) ==
    /\ evaluation[e] = Asleep
    /\ validateEvaluation(input)
    /\ Spend
    /\ evaluation' = [evaluation EXCEPT ![e] =
            [Asleep EXCEPT !.pc = "resolve", !.id = q, !.input = input,
                           !.standing = ActiveVersions]]
    /\ UNCHANGED <<tables, bootstrap, autonomy, answers>>

GetAgentPolicyContext(agent) ==
    [type |-> "agent", id |-> agent, company |-> CompanyOf[agent], autonomy |-> autonomy[agent]]

\* The context of an agent comes from the organization service, not the caller.
resolveSubject(e) ==
    LET subject == evaluation[e].input.subject IN
    /\ evaluation[e].pc = "resolve"
    /\ evaluation' = [evaluation EXCEPT ![e].pc = "find",
            ![e].subject = IF subject.type = "agent" THEN GetAgentPolicyContext(subject.id)
                           ELSE subject]
    /\ UNCHANGED <<tables, bootstrap, autonomy, answers, left>>

\* The hash covers the request with the type, the identifier and the company
\* of the subject, and not the autonomy that was resolved with it.
hashEvaluationInput(run) ==
    [request |-> run.input,
     subject |-> [type |-> run.subject.type, id |-> run.subject.id, company |-> run.subject.company]]

\* The decision in the table of an earlier call with the same input is the
\* answer, whatever the autonomy of the agent has become; with another input
\* it is an error.
Answer(run, given) == [asked |-> run.input, given |-> given]

FindDecisionByRequestID(e) ==
    LET run == evaluation[e]
        existing == decision[run.id] IN
    /\ run.pc = "find"
    /\ IF existing = NoDecision
       THEN /\ evaluation' = [evaluation EXCEPT ![e].pc = "list"]
            /\ UNCHANGED answers
       ELSE /\ evaluation' = [evaluation EXCEPT ![e] = Asleep]
            /\ answers' = IF existing.hash = hashEvaluationInput(run)
                          THEN [answers EXCEPT ![run.id] = @ \cup {Answer(run, existing)}]
                          ELSE answers
    /\ UNCHANGED <<tables, bootstrap, autonomy, left>>

ListActiveBundles(e) ==
    /\ evaluation[e].pc = "list"
    /\ evaluation' = [evaluation EXCEPT ![e].pc = "record",
            ![e].bundles = {v \in ActiveVersions : Applies(v[1], evaluation[e].subject)}]
    /\ UNCHANGED <<tables, bootstrap, autonomy, answers, left>>

\* Mutant: ON CONFLICT DO NOTHING, and the caller gets its own decision.
AlwaysInserts(q) == TRUE

\* UNIQUE (tenant_id, evaluation_request_id).
insertDecision(q) == decision[q] = NoDecision

\* A column of type timestamptz keeps microseconds.
Kept(made) == [made EXCEPT !.decidedAt = 0]

\* The evaluator runs on the bundles in the order they came; an error of a
\* condition, and a request id that was taken meanwhile, fail the call.  The
\* caller gets the decision as it was made, not as it is kept.
RecordDecision(e) ==
    LET run == evaluation[e] IN
    /\ run.pc = "record"
    /\ evaluation' = [evaluation EXCEPT ![e] = Asleep]
    /\ \E order \in SetToSeqs(run.bundles) :
        LET final == EvaluateBundles(run.input, run.subject,
                                     [i \in DOMAIN order |-> Version(order[i][1], order[i][2])])
        IN \E nanoseconds \in 0 .. 1 :
            LET made == [n |-> left + 1, hash |-> hashEvaluationInput(run), input |-> run.input,
                         standing |-> {v \in run.standing : Applies(v[1], run.subject)},
                         result |-> final.result,
                         decidedAt |-> nanoseconds, signed |-> nanoseconds] IN
            IF insertDecision(run.id) /\ ~ final.error
            THEN /\ decision' = [decision EXCEPT ![run.id] = Kept(made)]
                 /\ answers' = [answers EXCEPT ![run.id] = @ \cup {Answer(run, made)}]
            ELSE UNCHANGED <<decision, answers>>
    /\ UNCHANGED <<policy, bootstrapped, bootstrap, autonomy, left>>

\* The organization service or the database does not answer: no decision.
FailClosed(e) ==
    /\ evaluation[e] # Asleep
    /\ evaluation' = [evaluation EXCEPT ![e] = Asleep]
    /\ UNCHANGED <<tables, bootstrap, autonomy, answers, left>>

\* The organization service changes the agent.
ChangeAutonomy(agent, level) ==
    /\ autonomy[agent] # level
    /\ Spend
    /\ autonomy' = [autonomy EXCEPT ![agent] = level]
    /\ UNCHANGED <<tables, bootstrap, evaluation, answers>>

-----------------------------------------------------------------------------

PoliciesNext ==
    \/ \E p \in DOMAIN Custom : CreatePolicy(p) \/ CreateVersion(p)
    \/ \E p \in PolicyIds :
        \/ \E expected \in 1 .. policy[p].version :
            \/ ArchivePolicy(p, expected)
            \/ \E n \in 1 .. 2 : ActivatePolicy(p, n, expected)
    \/ \E o \in Operations :
        EnsureDefaultPolicies(o) \/ EnsureDefaults(o) \/ loadBootstrapPolicies(o)
    \/ \E e \in Evaluators :
        \/ \E q \in RequestIds, input \in Inputs : Evaluate(e, q, input)
        \/ resolveSubject(e) \/ FindDecisionByRequestID(e) \/ ListActiveBundles(e)
        \/ RecordDecision(e) \/ FailClosed(e)
    \/ \E agent \in Agents, level \in Levels : ChangeAutonomy(agent, level)

PoliciesSpec == PoliciesInit /\ [][PoliciesNext]_policiesVars

-----------------------------------------------------------------------------

\* Calls with the same request id never get two decisions that differ in more
\* than the nanoseconds of their times, and none gets a decision about another
\* request, however they overlap and whatever changes of policies and agents
\* lie between them (evaluation.go, Evaluate and RecordDecision).
AnswersAgree ==
    \A q \in RequestIds : \A a, b \in answers[q] :
        /\ Kept(a.given) = Kept(b.given)
        /\ a.given.input = a.asked

\* Not kept by the code: the signature of every answer is one over the answer.
\* That of a decision that was read back is over nanoseconds it has lost.
SignaturesVerify ==
    \A q \in RequestIds : \A a \in answers[q] : a.given.signed = a.given.decidedAt

\* A decision is at least as strict as every policy version that applied to
\* the request and stayed active from its first step to its last, in
\* whatever order the versions were read (evaluator.go, Evaluate).
StandingPoliciesAreObeyed ==
    \A q \in RequestIds : \A v \in decision[q].standing :
        \A effect \in EffectsOf(Version(v[1], v[2]), decision[q].input) :
            severity(decision[q].result.effect) >= severity(effect)

\* Not kept by the code: a decision that is not a denial keeps within the
\* domains of every version that applied to it throughout.  Disjoint domains
\* intersect to the empty list, which means no restriction (constraints.go).
StandingDomainsAreKept ==
    \A q \in RequestIds : \A v \in decision[q].standing :
        \A domains \in DomainsOf(Version(v[1], v[2]), decision[q].input) :
            decision[q].result.effect # "deny" =>
                /\ decision[q].result.constraints.domains # {}
                /\ decision[q].result.constraints.domains \subseteq domains
====
