\* Two nodes, two workers, one crash.
CONSTANTS
    n1 = n1  n2 = n2  i1 = i1  i2 = i2  e1 = e1  e2 = e2  e3 = e3  w1 = w1  w2 = w2
    None = None
    Nodes = {n1, n2}
    Instances = {i1, i2}
    Eips = {e1, e2}
    Workers = {w1, w2}
    NameOf <- TwoNames
    OtherEip <- NoOthers
    ProcessingEipType = "AnycastEIP"
    TagLag = FALSE
    MaxIncarnations = 1
    LabelChoices = {TRUE}
    OtherLabels = FALSE
    MaxCrashes = 1
SPECIFICATION Spec
SYMMETRY SymmetricNodes
CHECK_DEADLOCK FALSE
INVARIANTS TaintedWhileBinding NoMixUp IInv OnceInv TaintInv
