\* Liveness: one registration that may go away, one crash, any number of errors.
CONSTANTS
    n1 = n1  n2 = n2  i1 = i1  i2 = i2  e1 = e1  e2 = e2  e3 = e3  w1 = w1  w2 = w2
    None = None
    Nodes = {n1}
    Instances = {i1}
    Eips = {e1}
    Workers = {w1}
    NameOf <- OneName1
    OtherEip <- NoOthers1
    ProcessingEipType = "AnycastEIP"
    TagLag = FALSE
    MaxIncarnations = 1
    LabelChoices = {TRUE}
    OtherLabels = TRUE
    MaxCrashes = 1
SPECIFICATION FairSpec

CHECK_DEADLOCK FALSE
PROPERTIES EventuallyServed EventuallyReclaimed
