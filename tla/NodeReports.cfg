SPECIFICATION Spec
CONSTANTS
    WebTexts = {w1}
    AppTexts = {a1}
    WebRequests = {r1}
    AppRequests = {r2}
    Mixes = {{w1, a1, r1}, {w1, r2}, {a1, r2}}
    MaxEarly = 1
    MaxReports = 3
    MaxRestarts = 1
CHECK_DEADLOCK FALSE
INVARIANTS
    TypeOK
    StatusBacked
    EvidenceReflected
    EveryReportOnce
    AppsNeverEarly
    AcksNotStranded
PROPERTIES
    NoStepBack
    AnswerSettles
