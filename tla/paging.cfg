\* Pages of two rows and batches of two; two rows are added or removed during the sweep;
\* wrong totals that are too small, and that change from answer to answer.
CONSTANTS
    r1 = r1  r2 = r2  r3 = r3  r4 = r4  r5 = r5
    Rows = {r1, r2, r3, r4, r5}
    Gone = {r1, r2, r4, r5}
    InitialRows <- FirstRows
    Limit = 2
    RetryTimeLimit = 4
    BatchSize = 2
    Limit2 = 4
    RetryTimeLimit2 = 3
    MaxInt32 = 100
    WrongTotals = {0, 98, 99}
    MaxChanges = 2
SPECIFICATION Spec
\* A sweep stops.
CHECK_DEADLOCK FALSE
INVARIANTS TypeOK BoundedLoss PagingInv
PROPERTIES Terminates
