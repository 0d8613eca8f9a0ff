SPECIFICATION Spec
CONSTANTS
    WebTexts = {w1}
    AppTexts = {}
    WebRequests = {}
    AppRequests = {}
    Mixes = {{w1}}
    MaxEarly = 1
    MaxReports = 1
    MaxRestarts = 0
CHECK_DEADLOCK FALSE
INVARIANTS
    NothingStranded
