\* One job, three threads (a timer and two dispatchers), one fault.
SPECIFICATION FairSpec
CONSTANTS
    Job = {a}
    ManualAllowed = {a}
    Switched = {a}
    Thread = {w1, w2, w3}
    Record = {r1, r2, r3, r4}
    None = None
    MaxFaults = 1
INVARIANT RowsTellRuns
PROPERTIES VerdictsFinal RequestsServed RunsEnd
