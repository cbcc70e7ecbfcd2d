SPECIFICATION Spec
CONSTANTS
    Proc = {p1, p2, p3}
    Creates <- MCCreates
    Updates <- MCUpdates
    Logins <- MCLogins
    A = A
    B = B
    X = X
    Y = Y
    Empty = Empty
    Absent = Absent
    Null = Null
    MaxUsers = 2
    p1 = p1
    p2 = p2
    p3 = p3
SYMMETRY Symmetry
INVARIANTS
    TypeOK
    UsersDistinct
    TokensResolve
    UpdatesStick
    LoginHonest
