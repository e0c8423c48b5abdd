CONSTANTS
    Names = {alice, bob}
    EnvAdmin = alice
    Workers = {w1, w2}
    Boss = boss
    None = none
    MaxRequests = 4
    MaxRestarts = 1
SPECIFICATION Spec
INVARIANTS TypeOK SingleCompletion AdministratorExists
PROPERTY StepsDone
SYMMETRY Symmetry
CHECK_DEADLOCK FALSE
