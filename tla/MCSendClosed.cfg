\* Violation run: Server.Go/Call0 racing the loop's Server.Close sends on a closed chanCall.
CONSTANTS
    m1 = m1  m2 = m2  c1 = c1  c2 = c2  f1 = f1  f2 = f2
    Mods <- MCMods
    TMods <- MCMods
    Callers <- MCCallers1
    Fns <- MCFns
    QCap = 1
    AsynCap = 1
    MaxCalls = 3
    JobKinds = {"ok"}
    JobCap = 2
    MaxTimers = 2
    HandlerEffects = {"return"}
SPECIFICATION Spec
INVARIANT NoSendOnClosedChannel
CHECK_DEADLOCK FALSE
