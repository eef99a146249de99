SPECIFICATION Spec
CONSTANT Options <- MCOptions
CONSTANT MaxParallel = 2
INVARIANT AnsweredOnce
PROPERTY Ends
\* Both ends are real: the program is done, or its main thread waits for ever
\* for a thread whose stop was overwritten.
CHECK_DEADLOCK FALSE
