CONSTANTS
    ann = ann  bob = bob  t1 = t1  t2 = t2  w1 = w1
    NoTask = NoTask  NoUser = NoUser
    User = {ann}
    Task = {t1}
    Writer = {w1}
    MaxWrites = 2
    MaxFails = 0
SPECIFICATION Spec
INVARIANT InvalidateReloads
