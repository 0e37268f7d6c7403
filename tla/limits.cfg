\* Two callers of one tool, on one loop or on private loops in threads.  A call costs
\* two tokens, so that a bucket may hold half of one; the deque holds three calls, and
\* a window may have more.
CONSTANTS
    Callers = {t1, t2}
    Inputs = {a, b}
    Burst = 5
    Rate = 1
    Cost = 2
    MaxRepeats = 2
    Window = 3
    RecentMax = 3
    Privacies = {FALSE, TRUE}
    MaxClock <- MCMaxClock
    MaxAdmitted <- MCMaxAdmitted
    Nobody = Nobody
SPECIFICATION Spec
SYMMETRY Symmetric
INVARIANTS
    TypeOK
    RateBound
    LoopBoundOfAll
PROPERTIES
    RetryAfterIsEnough
