\* Four concurrent submissions, two of each kind, against two slots.
SPECIFICATION Spec
CONSTANTS
    s1 = s1
    s2 = s2
    a1 = a1
    a2 = a2
    Jobs <- MCJobs
    AsyncJobs <- MCAsyncJobs
    QueueCapacity = 2
    Worker = Worker
    None = None
INVARIANTS TypeOK NoLostWakeup EveryJobAccounted NoBrokenPromise
PROPERTIES AnsweredOnce NothingAcceptedAfterStop ImplementsSerial EveryCallAnswered DestructorReturns
