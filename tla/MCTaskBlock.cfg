CONSTANTS
    Tasks <- MCTasks
    MaxTime <- MCMaxTime
    Durations <- MCDurations

SPECIFICATION Spec

INVARIANT TypeOK
INVARIANT TimerQuiescent
INVARIANT InterruptedUntilUnset
INVARIANT RemainingInRange
INVARIANT SleepBalanced

PROPERTY BlockReturns
