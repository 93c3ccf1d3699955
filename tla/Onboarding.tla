----------------------------- MODULE Onboarding -----------------------------
(***************************************************************************)
(* Onboarding of one tenant: the tenant service's tenant and operation     *)
(* rows, and the Temporal workflow of the execution orchestrator that      *)
(* drives them through activities.                                         *)
(*                                                                         *)
(* An activity attempt is a call to another service.  The workflow gives   *)
(* an attempt up when it times out and starts the next one, while the call *)
(* it gave up is still running: calls of several attempts, and of          *)
(* different activities, interleave at the server.  CompleteOnboarding and *)
(* FailOnboarding read the operation without a lock before they update, so *)
(* each is two steps.                                                      *)
(***************************************************************************)
EXTENDS Naturals, Sequences, FiniteSets

CONSTANT
    MaxAttempts    \* bound: RetryPolicy.MaximumAttempts (20 and 100)

ASSUME OnboardingAssumption == MaxAttempts \in Nat \ {0}

Ensures == {"EnsureDefaultCompany", "EnsureDefaultPolicies", "EnsureTenantRuntime"}
Activities == Ensures \cup {"MarkRunning", "Complete", "Fail"}
Closed == {"none", "succeeded", "failed", "timed_out"}

VARIABLES
    tenant,    \* tenant_tenants: status and version
    op,        \* tenant_onboarding_operations: state
    outbox,    \* tenant_outbox, as the sequence of inserted events
    ensured,   \* what the organization, policy and runtime services hold
    wf,        \* the activity the workflow waits for, or how it closed
    attempt,   \* attempts the workflow started of that activity
    call       \* call[a][n]: attempt n of activity a at the server

rowVars == <<tenant, op, outbox>>
onboardingVars == <<rowVars, ensured, wf, attempt, call>>

Statuses == {"none", "provisioning", "active", "provisioning_failed", "archived"}
OpStates == {"none", "pending", "running", "succeeded", "failed"}

\* A call is not sent, on its way, past its read of the operation, or over.
CallStates == {"unsent", "sent", "read", "ok", "error"}

Event(type, version) ==
    [type |-> type, version |-> version, status |-> tenant'.status, op |-> op']

insertOutbox(type, version) == outbox' = Append(outbox, Event(type, version))

OnboardingInit ==
    /\ tenant = [status |-> "none", version |-> 0]
    /\ op = "none"
    /\ outbox = << >>
    /\ ensured = {}
    /\ wf = "none"
    /\ attempt = 0
    /\ call = [a \in Activities |-> [n \in 1 .. MaxAttempts |-> "unsent"]]

-----------------------------------------------------------------------------
(* The tenant service: user requests.                                      *)

NewTenant == [status |-> "provisioning", version |-> 1]

\* A retry with the same request ID finds the tenant and changes nothing.
CreateTenant ==
    /\ tenant.status = "none"
    /\ tenant' = NewTenant
    /\ op' = "pending"
    /\ insertOutbox("tenant.created", 1)
    /\ UNCHANGED <<ensured, wf, attempt, call>>

\* The check of the version makes the read and the update one step.  The
\* owner may archive in any status but archived.
ArchiveTenant ==
    /\ tenant.status \notin {"none", "archived"}
    /\ tenant' = [status |-> "archived", version |-> tenant.version + 1]
    /\ UNCHANGED op
    /\ insertOutbox("tenant.archived", tenant.version + 1)
    /\ UNCHANGED <<ensured, wf, attempt, call>>

-----------------------------------------------------------------------------
(* The tenant service: the calls of the workflow.                          *)

Reply(a, n, result) == call' = [call EXCEPT ![a][n] = result]

Fails(a, n) == Reply(a, n, "error") /\ UNCHANGED rowVars

MarkOnboardingRunning(n) ==
    /\ call["MarkRunning"][n] = "sent"
    /\ \/ /\ op = "pending"
          /\ op' = "running"
          /\ UNCHANGED tenant
          /\ insertOutbox("tenant.onboarding_started", 2)
          /\ Reply("MarkRunning", n, "ok")
       \/ /\ op \in {"running", "succeeded"}
          /\ Reply("MarkRunning", n, "ok")
          /\ UNCHANGED rowVars
       \/ /\ op = "failed"
          /\ Fails("MarkRunning", n)
    /\ UNCHANGED <<ensured, wf, attempt>>

\* The unlocked read of the operation, and the returns it leads to.
CompleteReads(n) ==
    /\ call["Complete"][n] = "sent"
    /\ call' = [call EXCEPT !["Complete"][n] =
                  CASE op = "succeeded" -> "ok"
                    [] op = "running"   -> "read"
                    [] OTHER            -> "error"]
    /\ UNCHANGED <<rowVars, ensured, wf, attempt>>

\* Mutant: the update does not ask for the status it replaces.
CompleteUpdatesAnyStatus(n) ==
    /\ call["Complete"][n] = "read"
    /\ tenant' = [status |-> "active", version |-> tenant.version + 1]
    /\ op' = IF op = "running" THEN "succeeded" ELSE op
    /\ insertOutbox("tenant.activated", 2)
    /\ Reply("Complete", n, "ok")
    /\ UNCHANGED <<ensured, wf, attempt>>

\* The tenant must still be provisioning; the operation row is updated if it
\* still runs, and nobody looks whether it was.
CompleteUpdates(n) ==
    /\ call["Complete"][n] = "read"
    /\ \/ /\ tenant.status = "provisioning"
          /\ tenant' = [status |-> "active", version |-> tenant.version + 1]
          /\ op' = IF op = "running" THEN "succeeded" ELSE op
          /\ insertOutbox("tenant.activated", 2)
          /\ Reply("Complete", n, "ok")
       \/ /\ tenant.status # "provisioning"
          /\ Fails("Complete", n)
    /\ UNCHANGED <<ensured, wf, attempt>>

FailReads(n) ==
    /\ call["Fail"][n] = "sent"
    /\ call' = [call EXCEPT !["Fail"][n] =
                  CASE op = "failed"    -> "ok"
                    [] op = "succeeded" -> "error"
                    [] OTHER            -> "read"]
    /\ UNCHANGED <<rowVars, ensured, wf, attempt>>

\* Mutant: the operation is failed whatever its state.
FailUpdatesAnyState(n) ==
    /\ call["Fail"][n] = "read"
    /\ tenant' = IF tenant.status = "provisioning"
                   THEN [status |-> "provisioning_failed",
                         version |-> tenant.version + 1]
                   ELSE tenant
    /\ op' = "failed"
    /\ insertOutbox("tenant.onboarding_failed", 2)
    /\ Reply("Fail", n, "ok")
    /\ UNCHANGED <<ensured, wf, attempt>>

\* Both updates are conditional and neither result is looked at; the event
\* is inserted in any case.
FailUpdates(n) ==
    /\ call["Fail"][n] = "read"
    /\ tenant' = IF tenant.status = "provisioning"
                   THEN [status |-> "provisioning_failed",
                         version |-> tenant.version + 1]
                   ELSE tenant
    /\ op' = IF op \in {"pending", "running"} THEN "failed" ELSE op
    /\ insertOutbox("tenant.onboarding_failed", 2)
    /\ Reply("Fail", n, "ok")
    /\ UNCHANGED <<ensured, wf, attempt>>

\* A database error, a rollback or a lost connection before the commit.
CallFails(a, n) ==
    /\ call[a][n] \in {"sent", "read"}
    /\ Fails(a, n)
    /\ UNCHANGED <<ensured, wf, attempt>>

-----------------------------------------------------------------------------
(* The organization, policy and runtime services.                          *)
Ensure(a, n) ==
    /\ call[a][n] = "sent"
    /\ ensured' = ensured \cup {a}
    /\ Reply(a, n, "ok")
    /\ UNCHANGED <<rowVars, wf, attempt>>

-----------------------------------------------------------------------------
(* The execution orchestrator.                                             *)

Following ==
    [MarkRunning           |-> "EnsureDefaultCompany",
     EnsureDefaultCompany  |-> "EnsureDefaultPolicies",
     EnsureDefaultPolicies |-> "EnsureTenantRuntime",
     EnsureTenantRuntime   |-> "Complete",
     Complete              |-> "succeeded",
     Fail                  |-> "failed"]

\* Mutant: the workflow fails without telling the tenant service.
AfterFailureSilent(a) == "failed"

\* failWorkflow, except when the operation was never marked running.
AfterFailure(a) ==
    IF a \in {"MarkRunning", "Fail"} THEN "failed" ELSE "Fail"

\* tenant.created is delivered at least once; the workflow ID and its reuse
\* policy let the first delivery start the workflow and ignore the others.
TriggerHandle ==
    /\ outbox # << >>
    /\ wf = "none"
    /\ wf' = "MarkRunning"
    /\ attempt' = 0
    /\ UNCHANGED <<rowVars, ensured, call>>

GoTo(a) == wf' = a /\ attempt' = 0

\* The activity's first attempt, or the next one after an error or a timeout.
StartAttempt ==
    /\ wf \in Activities
    /\ attempt < MaxAttempts
    /\ attempt' = attempt + 1
    /\ call' = [call EXCEPT ![wf][attempt + 1] = "sent"]
    /\ UNCHANGED <<rowVars, ensured, wf>>

ActivityCompletes ==
    /\ wf \in Activities
    /\ attempt > 0
    /\ call[wf][attempt] = "ok"
    /\ GoTo(Following[wf])
    /\ UNCHANGED <<rowVars, ensured, call>>

\* EnsureTenantRuntime alone has errors that are not retried.
ActivityFailsForGood ==
    /\ wf = "EnsureTenantRuntime"
    /\ attempt > 0
    /\ call[wf][attempt] = "error"
    /\ GoTo(AfterFailure(wf))
    /\ UNCHANGED <<rowVars, ensured, call>>

\* The last attempt failed or timed out.
AttemptsExhausted ==
    /\ wf \in Activities
    /\ attempt = MaxAttempts
    /\ call[wf][attempt] # "ok"
    /\ GoTo(AfterFailure(wf))
    /\ UNCHANGED <<rowVars, ensured, call>>

\* WorkflowExecutionTimeout closes the workflow wherever it is.
ExecutionTimeout ==
    /\ wf \in Activities
    /\ GoTo("timed_out")
    /\ UNCHANGED <<rowVars, ensured, call>>

Server ==
    \E n \in 1 .. MaxAttempts :
       \/ MarkOnboardingRunning(n)
       \/ CompleteReads(n)
       \/ CompleteUpdates(n)
       \/ FailReads(n)
       \/ FailUpdates(n)
       \/ \E a \in Ensures : Ensure(a, n)
       \/ \E a \in Activities : CallFails(a, n)

Workflow ==
    \/ StartAttempt
    \/ ActivityCompletes
    \/ ActivityFailsForGood
    \/ AttemptsExhausted
    \/ ExecutionTimeout

OnboardingNext ==
    \/ CreateTenant
    \/ ArchiveTenant
    \/ TriggerHandle
    \/ Server
    \/ Workflow

OnboardingSafety == OnboardingInit /\ [][OnboardingNext]_onboardingVars

(***************************************************************************)
(* Kafka delivers tenant.created (Outbox), Temporal schedules the          *)
(* workflow, and the call the workflow waits for ends.  Nothing is assumed *)
(* of the calls it gave up.                                                *)
(***************************************************************************)
CurrentCall ==
    /\ wf \in Activities
    /\ attempt > 0
    /\ Server
    /\ call'[wf][attempt] # call[wf][attempt]

OnboardingFairness ==
    /\ WF_onboardingVars(TriggerHandle)
    /\ WF_onboardingVars(Workflow)
    /\ WF_onboardingVars(CurrentCall)

OnboardingSpec == OnboardingSafety /\ OnboardingFairness

-----------------------------------------------------------------------------
OnboardingTypeOK ==
    /\ tenant \in [status : Statuses, version : Nat]
    /\ op \in OpStates
    /\ outbox \in Seq([type : STRING, version : Nat,
                       status : Statuses, op : OpStates])
    /\ ensured \subseteq Ensures
    /\ wf \in Activities \cup Closed
    /\ attempt \in 0 .. MaxAttempts
    /\ call \in [Activities -> [1 .. MaxAttempts -> CallStates]]

(* However attempts of Complete and Fail that were given up interleave     *)
(* with later ones and with an archiving owner, the tenant row and the     *)
(* operation row tell the same story (onboarding.go CompleteOnboarding and *)
(* FailOnboarding, tenant.go ArchiveTenant).                               *)
RowsAgree ==
    /\ tenant.status = "provisioning" => op \in {"pending", "running"}
    /\ tenant.status = "active" => op = "succeeded"
    /\ tenant.status = "provisioning_failed" => op = "failed"

(* A late attempt never reopens or overturns an operation, and never       *)
(* brings an archived tenant back.                                         *)
OutcomeIsFinal ==
    [][/\ op \in {"succeeded", "failed"} => op' = op
       /\ tenant.status = "archived" => tenant' = tenant
       /\ tenant.status = "active" => tenant'.status \in {"active", "archived"}]_onboardingVars

Emitted(type) == {k \in DOMAIN outbox : outbox[k].type = type}

\* Nobody is left to report: the last attempt at marking the operation
\* running, or at failing it, was lost.
ReportLost == \E a \in {"MarkRunning", "Fail"} : call[a][MaxAttempts] \notin {"unsent", "ok"}

(* The operation a user polls reaches an outcome, however the activities   *)
(* fail, unless the execution timeout closes the workflow or the tenant    *)
(* service is away for as long as an activity is retried (workflow.go      *)
(* failWorkflow).                                                          *)
OperationEnds ==
    op = "pending" ~> \/ op \in {"succeeded", "failed"}
                      \/ wf = "timed_out"
                      \/ wf = "failed" /\ ReportLost

(* Not kept by the code.  onboarding.go says of FailOnboarding that it     *)
(* "records a terminal provisioning failure"; a call overtaken by a late   *)
(* Complete announces the failure of an operation that succeeded.          *)
FailureIsTrue ==
    \A k \in Emitted("tenant.onboarding_failed") : outbox[k].op = "failed"

TenantEvents ==
    {k \in DOMAIN outbox : outbox[k].type # "tenant.onboarding_started"}

(* Not kept by the code.  event.proto calls aggregate_version a "monotonic *)
(* aggregate version used for ordering"; archiving may have used the fixed *)
(* version of the onboarding events.                                       *)
VersionsAreMonotonic ==
    \A j, k \in TenantEvents : j < k => outbox[j].version < outbox[k].version
=============================================================================
