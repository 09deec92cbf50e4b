SPECIFICATION FairSpec
CONSTANTS
    n_ = 3
    a = a
    b = b
    c = c
    Jobs = {a, b, c}
    Nil = Nil
    Owner = Owner
    Submitter <- MCSubmitter
    Channel <- MCChannel
INVARIANTS OwnPillOnly AnswersKept
PROPERTIES AcceptedRuns DtorReturns ImplementsExecutor
