\* One registration, by either of two instances, the second with addresses of other kinds; labels that
\* change, and a tag index that may lag: a node can get a second address.
CONSTANTS
    n1 = n1  n2 = n2  i1 = i1  i2 = i2  e1 = e1  e2 = e2  e3 = e3  w1 = w1  w2 = w2
    None = None
    Nodes = {n1}
    Instances = {i1, i2}
    Eips = {e1, e2}
    Workers = {w1}
    NameOf <- OneName
    OtherEip <- Others
    ProcessingEipType = "AnycastEIP"
    TagLag = TRUE
    MaxIncarnations = 1
    LabelChoices = {TRUE, FALSE}
    OtherLabels = TRUE
    MaxCrashes = 1
SPECIFICATION Spec
SYMMETRY Symmetric
CHECK_DEADLOCK FALSE
INVARIANTS OpenOnlyWhenBound AnnotationCurrent OthersRespected
PROPERTIES LivingKept
