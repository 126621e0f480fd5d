CONSTANTS
    Tasks <- MCTasks
    MaxTime <- MCMaxTime
    Durations <- MCDurations
SPECIFICATION Spec
PROPERTY ImplementsContract
