SPECIFICATION Spec
CONSTANTS
    u1 = u1
    u2 = u2
    t1 = t1
    t2 = t2
    t3 = t3
    x = x
    y = y
    Users = {u1, u2}
    Tokens = {t1, t2, t3}
    Secrets = {x, y}
    NoSecret = NoSecret
SYMMETRY Symmetry
INVARIANTS
    TypeOK
    StoreInv
    ExchangedOnce
PROPERTIES
    KeepsTokenPromise
