SPECIFICATION Spec
CONSTANTS
    a = a
    b = b
    N = 2
    Name = {a, b}
    Kinds = {"SagaWorkflow"}
INVARIANT FailureRollsBack
