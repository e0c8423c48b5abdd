CONSTANTS
    alice = alice
    bob = bob
    p1 = p1
    p2 = p2
    Credentials <- Typed
    Names = {alice, bob}
    Passwords = {p1, p2}
    First = alice
    FirstPassword = p1
    Sessions = {s1, s2}
    Tokens = {k1}
    Threads = {t1, t2}
    None = none
    MaxUsers = 2
    Life = 1
    BasicTTL = 2
    LoginLimit = 1
    LoginWindow = 2
    MaxTime = 2
    MaxRequests = 3
SPECIFICATION Spec
INVARIANTS TypeOK GrantIsRecent KeptWhileUsed
PROPERTY LastAdministrator
SYMMETRY Symmetry
CHECK_DEADLOCK FALSE
