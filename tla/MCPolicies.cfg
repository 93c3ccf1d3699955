SPECIFICATION PoliciesSpec
CONSTANTS
    Custom <- MCCustom
    Stored <- MCStored
    Agents = {"scout"}
    CompanyOf <- MCCompanyOf
    Levels = {"observe_only", "policy_bounded"}
    Inputs <- MCInputs
    Operations = {o1, o2}
    RequestIds = {"q1"}
    Evaluators = {e1, e2}
    RowsFit = TRUE
    MaxRequests = 4
SYMMETRY Interchangeable
INVARIANTS
    AnswersAgree
    StandingPoliciesAreObeyed
CHECK_DEADLOCK FALSE
