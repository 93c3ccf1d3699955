---- MODULE MCPolicies ----
EXTENDS Policies, TLC

CompanyPolicy == <<"custom", "company">>
AgentPolicy == <<"custom", "agent">>

MCCustom == CompanyPolicy :> [type |-> "company", id |-> "acme"]
         @@ <<"custom", "tenant">> :> [type |-> "tenant", id |-> None]
         @@ AgentPolicy :> [type |-> "agent", id |-> "scout"]

\* Overlapping calls are alike, and so are onboarding operations.
Interchangeable == Permutations(Evaluators) \cup Permutations(Operations)

Limited(domains, condition) ==
    [Rule(4, 50, "allow_with_constraints", {AnyUnder(<<"deploy">>)}, {}, condition, FALSE)
        EXCEPT !.constraints.domains = domains]

\* Two versions for the company, one for the agent.
MCStored ==
    CompanyPolicy :> << [default |-> "require_approval", rules |-> {Limited({"a", "b"}, "true")}],
                    [default |-> "require_approval", rules |-> {Limited({"b"}, "fails")}] >>
 @@ AgentPolicy :> << [default |-> "require_approval",
                   rules |-> {Limited({"b", "c"}, "cheap"),
                              Rule(5, 50, "deny", {Only(<<"deploy", "core">>)}, {}, "true", FALSE)}] >>

\* The company and the agent are restricted to different domains.
MCDisjoint ==
    CompanyPolicy :> << [default |-> "require_approval", rules |-> {Limited({"a"}, "true")}] >>
 @@ AgentPolicy :> << [default |-> "require_approval", rules |-> {Limited({"b"}, "true")}] >>

MCCompanyOf == "scout" :> "acme"

Ask(subject, action) ==
    [subject |-> subject, action |-> action, resource |-> "site", risk |-> "low", cost |-> 5]
Scout == [type |-> "agent", id |-> "scout"]
Owner == [type |-> "user", id |-> "owner", company |-> "acme"]

MCInputs == {Ask(Scout, <<"deploy", "core">>), Ask(Scout, <<"deploy", "web">>),
             Ask(Owner, <<"deploy", "web">>)}
====
