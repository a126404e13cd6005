\* Three replicas race for the config map, and come up whoever wins.
CONSTANTS
    r1 = r1  r2 = r2  r3 = r3  u1 = u1  u2 = u2
    None = None  Absent = Absent  Empty = Empty
    Replicas = {r1, r2, r3}
    Uuids = {u1, u2}
    InitialMaps <- AnyMap
SPECIFICATION FairSpec
INVARIANTS UuidInv
PROPERTIES RegisterSpec EventuallyUp
