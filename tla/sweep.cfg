\* One registration, two addresses under a lagging tag index, one crash; the sweep next to the workers.
CONSTANTS
    n1 = n1  n2 = n2  i1 = i1  i2 = i2  e1 = e1  e2 = e2  e3 = e3  w1 = w1  w2 = w2
    None = None
    Nodes = {n1}
    Instances = {i1}
    Eips = {e1, e2}
    Workers = {w1}
    NameOf <- OneName1
    OtherEip <- NoOthers1
    ProcessingEipType = "AnycastEIP"
    TagLag = TRUE
    MaxIncarnations = 1
    LabelChoices = {TRUE}
    OtherLabels = FALSE
    MaxCrashes = 1
SPECIFICATION SweepFairSpec

CHECK_DEADLOCK FALSE
INVARIANTS SweepTypeOK SettledSpared
PROPERTIES EventuallySwept SettledKept
