CONSTANTS
    Unset = Unset
    Admits = {a1}
    Uses = {u1}
    Deployments <- MCDeployments
    Requests <- MCRequests
    Credentials <- MCCredentials
    Relations <- MCRelations
    Invocations <- MCInvocations
    MaxTime = 2
    MaxAdmissions = 1
    MaxAnswers = 2
    EvidenceLife = 1
    MaxEvidence = 1
SPECIFICATION Spec
CHECK_DEADLOCK FALSE
INVARIANTS
    AdmissionAgeKept
