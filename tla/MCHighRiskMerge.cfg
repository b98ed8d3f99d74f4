\* One request, which may ask for a low risk, and whose risk may be critical.
SPECIFICATION Spec
CONSTANTS
    Callers = {"a"}
    Plan <- MCPlan
    DependsOn <- MCDependsOn
    Calculated = {"low", "critical"}
    Requested = {"unasked", "low"}
    AutoMerge = {"low"}
    AutoDeploy = FALSE
    MaxAttempts = 1
    MaxRetries = 1
INVARIANTS
    NoHighRiskMerge
\* The request is settled.
CHECK_DEADLOCK FALSE
