\* One name registered twice, by the same instance or by another one; one crash.
CONSTANTS
    n1 = n1  n2 = n2  i1 = i1  i2 = i2  e1 = e1  e2 = e2  e3 = e3  w1 = w1  w2 = w2
    None = None
    Nodes = {n1}
    Instances = {i1, i2}
    Eips = {e1, e2}
    Workers = {w1}
    NameOf <- OneName
    OtherEip <- NoOthers
    ProcessingEipType = "AnycastEIP"
    TagLag = FALSE
    MaxIncarnations = 2
    LabelChoices = {TRUE}
    OtherLabels = TRUE
    MaxCrashes = 1
SPECIFICATION LedgerSpec
SYMMETRY Symmetric
CHECK_DEADLOCK FALSE
INVARIANTS TypeOK OneAddressPerNode NoSilentLeak LedgerInv
PROPERTIES BookSpec
