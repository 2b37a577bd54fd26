SPECIFICATION LimiterSpec
CONSTANTS
    q1 = q1  q2 = q2
    slow = slow  fast = fast  off = off
    Callers = {q1, q2}
    Keys = {slow, fast, off}
    PerMin <- Budgets
    Second = 1
    Minute = 2
    MaxWait = 1
    MaxTime = 6
    Idle = Idle
    Absent = Absent
    NotYet = NotYet
SYMMETRY RequestSymmetry
INVARIANTS AdmittedWithinBudget RetryAfterHonest
