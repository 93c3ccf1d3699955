---- MODULE PolicyEngine ----
(***************************************************************************)
(* The policy evaluator: how the rules of the active policy versions that  *)
(* apply to a request are matched and combined into one effect with        *)
(* constraints.                                                            *)
(*                                                                         *)
(* An action is the sequence of its words ("deploy.prod" is                *)
(* <<"deploy", "prod">>); a pattern has a final wildcard or has none.      *)
(* Optional numbers are sets of at most one number, and an empty list of   *)
(* allowed domains, as in the code, is no restriction.  Allowed resources  *)
(* and the runtime limit combine like domains and the cost limit and are   *)
(* left out.                                                               *)
(***************************************************************************)
EXTENDS Integers, Sequences, SequencesExt, FiniteSetsExt

Undecided == ""

Unconstrained == [maxCost |-> {}, domains |-> {}, review |-> FALSE]
NoResult == [effect |-> Undecided, constraints |-> Unconstrained]
Outcome(effect, constraints) == [effect |-> effect, constraints |-> constraints]

severity(effect) ==
    CASE effect = "deny" -> 4
      [] effect = "require_approval" -> 3
      [] effect = "allow_with_constraints" -> 2
      [] effect = "allow" -> 1
      [] OTHER -> 0

-----------------------------------------------------------------------------
(* Constraints. *)

minimumInt64(left, right) ==
    IF left = {} THEN right ELSE IF right = {} THEN left ELSE {Min(left \cup right)}

\* An empty list is no restriction, and an empty intersection an empty list.
intersection(left, right) ==
    IF left = {} THEN right ELSE IF right = {} THEN left ELSE left \cap right

MergeConstraints(current, incoming) ==
    [maxCost |-> minimumInt64(current.maxCost, incoming.maxCost),
     domains |-> intersection(current.domains, incoming.domains),
     review |-> current.review \/ incoming.review]

\* Mutant: the later result replaces the earlier one.
LastWins(current, incoming) ==
    IF incoming.effect = Undecided THEN current
    ELSE [incoming EXCEPT !.constraints = MergeConstraints(current.constraints, @)]

combine(current, incoming) ==
    IF incoming.effect = Undecided THEN current
    ELSE IF current.effect = Undecided THEN incoming
    ELSE IF severity(incoming.effect) > severity(current.effect)
    THEN [incoming EXCEPT !.constraints = MergeConstraints(current.constraints, @)]
    ELSE [current EXCEPT !.constraints = MergeConstraints(@, incoming.constraints)]

-----------------------------------------------------------------------------
(* Matching. *)

ActionMatches(pattern, action) ==
    IF pattern.wildcard THEN IsStrictPrefix(pattern.words, action) ELSE pattern.words = action

\* Empty sets of resource types and risks admit all.
RuleMatchesPrefilter(rule, input) ==
    /\ \E pattern \in rule.patterns : ActionMatches(pattern, input.action)
    /\ rule.resources # {} => input.resource \in rule.resources
    /\ rule.risks # {} => input.risk \in rule.risks
    /\ \A limit \in rule.maxEstimate : input.cost <= limit

\* What the compiled CEL expression of the rule gives: a condition is a limit
\* on the estimated cost, or it fails at run time.
CELEvaluate(condition, input) ==
    IF condition = "fails" THEN "error"
    ELSE IF condition = "true" \/ input.cost <= 100000 THEN "true" ELSE "false"

isReadAction(action) ==
    Head(action) \in {"read", "observe", "research"} \/ Last(action) = "read"

NeedsApproval == Outcome("require_approval", [Unconstrained EXCEPT !.review = TRUE])

\* What the autonomy level of an agent admits whatever the policies say.
autonomyBaseline(subject, action) ==
    IF subject.type # "agent" THEN NoResult
    ELSE CASE subject.autonomy = "observe_only" /\ isReadAction(action) ->
                    Outcome("allow_with_constraints", Unconstrained)
           [] subject.autonomy \in {"suggest", "approval_required"} -> NeedsApproval
           [] subject.autonomy = "policy_bounded" -> NoResult
           [] OTHER -> Outcome("deny", Unconstrained)

-----------------------------------------------------------------------------
(* Evaluation. *)

\* Rules are tried by priority, and by identifier within a priority.
Before(left, right) ==
    left.priority < right.priority \/ (left.priority = right.priority /\ left.id < right.id)

ByPriority(rules) ==
    CHOOSE s \in SetToSeqs(rules) : \A i, j \in DOMAIN s : i < j => Before(s[i], s[j])

\* One rule: it may end the evaluation with a denial or an error.
TryRule(sofar, rule, input) ==
    IF sofar.ended \/ ~ rule.enabled \/ ~ RuleMatchesPrefilter(rule, input) THEN sofar
    ELSE CASE CELEvaluate(rule.condition, input) = "error" ->
                    [sofar EXCEPT !.ended = TRUE, !.error = TRUE]
           [] CELEvaluate(rule.condition, input) = "false" -> sofar
           [] OTHER ->
                LET result == combine(sofar.result, Outcome(rule.effect, rule.constraints))
                IN  [sofar EXCEPT !.result = result, !.ended = (result.effect = "deny")]

\* One bundle: its default effect first, and then its rules one by one.
TryBundle(sofar, bundle, input) ==
    LET default == Outcome(bundle.default, Unconstrained)
        rules == ByPriority(bundle.rules)
        after[i \in 0 .. Len(rules)] ==
            IF i = 0 THEN [sofar EXCEPT !.result = combine(@, default)]
            ELSE TryRule(after[i - 1], rules[i], input)
    IN  IF sofar.ended THEN sofar ELSE after[Len(rules)]

\* The bundles come in the order the database returns them.
EvaluateBundles(input, subject, bundles) ==
    LET after[i \in 0 .. Len(bundles)] ==
            IF i = 0
            THEN [result |-> autonomyBaseline(subject, input.action), ended |-> FALSE, error |-> FALSE]
            ELSE TryBundle(after[i - 1], bundles[i], input)
        final == after[Len(bundles)]
    IN  IF final.result.effect = Undecided
        THEN [final EXCEPT !.result = Outcome("deny", Unconstrained)]
        ELSE final

\* Effects a bundle asks for by itself.
EffectsOf(bundle, input) ==
    {bundle.default} \cup
    {rule.effect : rule \in {r \in bundle.rules :
        r.enabled /\ RuleMatchesPrefilter(r, input) /\ CELEvaluate(r.condition, input) = "true"}}

\* Domains to which some rule of the bundle restricts the request.
DomainsOf(bundle, input) ==
    {rule.constraints.domains : rule \in {r \in bundle.rules :
        /\ r.enabled /\ RuleMatchesPrefilter(r, input)
        /\ CELEvaluate(r.condition, input) = "true"
        /\ r.constraints.domains # {}}}
====
