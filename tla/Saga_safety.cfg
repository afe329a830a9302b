SPECIFICATION Spec
CONSTANTS
    a = a
    b = b
    N = 3
    Name = {a, b}
    Kinds = {"ExecuteSaga", "SagaWorkflow", "SagaWithSignals"}
INVARIANT EffectsAccounted
PROPERTY ImplementsSaga
