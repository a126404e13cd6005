\* Two registrations of a name by two instances share one address; one crash, nobody told of the last deletion.
CONSTANTS
    n1 = n1  n2 = n2  i1 = i1  i2 = i2  e1 = e1  e2 = e2  e3 = e3  w1 = w1  w2 = w2
    None = None
    Nodes = {n1}
    Instances = {i1, i2}
    Eips = {e1}
    Workers = {w1}
    NameOf <- OneName
    OtherEip <- NoOthers
    ProcessingEipType = "AnycastEIP"
    TagLag = FALSE
    MaxIncarnations = 2
    LabelChoices = {TRUE}
    OtherLabels = FALSE
    MaxCrashes = 1
SPECIFICATION SweepFairSpec

CHECK_DEADLOCK FALSE
PROPERTIES UntoldSwept
