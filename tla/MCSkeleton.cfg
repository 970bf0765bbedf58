\* Pass run: loops, RPC, timers (returning or panicking) and shutdown of two modules.
CONSTANTS
    m1 = m1  m2 = m2  c1 = c1  c2 = c2  f1 = f1  f2 = f2
    Mods <- MCMods
    TMods <- MCMods
    Callers <- MCCallers1
    Fns <- MCFns
    QCap = 1
    AsynCap = 1
    MaxCalls = 3
    JobKinds = {"ok", "panic"}
    JobCap = 2
    MaxTimers = 2
    HandlerEffects = {"return", "panic", "go", "timer", "asyn"}
SPECIFICATION Spec
INVARIANT TypeOK
 
PROPERTY CallAnsweredUnlessCrashed
CHECK_DEADLOCK FALSE
