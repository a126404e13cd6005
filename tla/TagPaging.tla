------------------------------ MODULE TagPaging ------------------------------
(***************************************************************************)
(* How ReverseReconcile finds the addresses whose node is gone:            *)
(* getAllAnycastIpOfCluster pages through the rows of the tag index, and   *)
(* getLegacyAnycastIds asks for the tags of the addresses found, a batch   *)
(* at a time.  Both are loops over offset and limit that end on a total    *)
(* reported by the service, while the workers add and remove rows.         *)
(*                                                                         *)
(* The order of the rows is the service's; a row that is removed moves the *)
(* rows behind it.  An answer may be an error, may be missing, or may      *)
(* report a wrong total, which the code guards against with a limit on     *)
(* the rounds.                                                             *)
(***************************************************************************)
EXTENDS Integers, Sequences, SequencesExt, FiniteSets

CONSTANTS
    Rows,               \* address ids with a row in the tag index, now or later
    Gone,               \* those whose node is not in the list of nodes
    InitialRows,        \* the sequences of rows the service may hold at the start
    Limit,              \* limit: rows per page of the first loop (200)
    RetryTimeLimit,     \* retryTimeLimit: the rounds are 1 .. RetryTimeLimit - 1 (101)
    BatchSize,          \* addresses per batch of the second loop (20)
    Limit2,             \* limit2: rows per page of the second loop (400)
    RetryTimeLimit2,    \* retryTimeLimit2 (501)
    MaxInt32,           \* math.MaxInt32: a total nobody reports
    WrongTotals,        \* totals a wrong answer may report
    MaxChanges          \* bound: rows added or removed during the sweep

ASSUME PagingAssumption ==
    /\ IsFiniteSet(Rows) /\ Gone \subseteq Rows
    /\ InitialRows \subseteq Seq(Rows) /\ \A s \in InitialRows : IsInjective(s)
    /\ {Limit, BatchSize, RetryTimeLimit} \subseteq Nat \ {0}
    /\ RetryTimeLimit2 \in Nat /\ 1 < RetryTimeLimit2
    /\ Limit2 \in Nat /\ 2 * BatchSize <= Limit2
    /\ MaxInt32 \in Nat /\ Limit <= MaxInt32 /\ Limit2 <= MaxInt32
    /\ WrongTotals \subseteq Nat
    /\ MaxChanges \in Nat

VARIABLES
    rows,           \* the rows of the cluster in the tag index
    pc,             \* list, batch, keys, done or failed
    i, offset, totalCount,      \* of the loop that is running
    resourceIds,    \* what the first loop has found
    left, batch,    \* existedAnycastIds and curUsedAnycastId of the second loop
    legacyIds,      \* legacyAnycastIds
    removed,        \* history: rows removed so far
    stable,         \* history: rows that have been there all the time
    changes,        \* rows added or removed so far
    degraded        \* history: an answer was wrong or missing, or the rounds ran out

loopVars == <<i, offset, totalCount>>
indexVars == <<rows, removed, stable, changes>>
vars == <<rows, pc, i, offset, totalCount, resourceIds, left, batch, legacyIds,
          removed, stable, changes, degraded>>

\* The offset never leaves the pages that were asked for, and the rounds their limit.
TypeOK ==
    /\ rows \in Seq(Rows)
    /\ pc \in {"list", "batch", "keys", "done", "failed"}
    /\ i \in 1 .. IF pc = "keys" THEN RetryTimeLimit2 ELSE RetryTimeLimit
    /\ offset \in 0 .. (i - 1) * IF pc = "keys" THEN Limit2 ELSE Limit
    /\ totalCount \in {MaxInt32} \cup WrongTotals \cup 0 .. 2 * Cardinality(Rows)
    /\ resourceIds \in Seq(Rows) /\ left \in Seq(Rows) /\ batch \in Seq(Rows)
    /\ Len(batch) <= BatchSize
    /\ legacyIds \subseteq Gone
    /\ removed \in Nat /\ stable \subseteq Rows /\ changes \in 0 .. MaxChanges
    /\ degraded \in BOOLEAN

Init ==
    /\ rows \in InitialRows
    /\ pc = "list"
    /\ i = 1 /\ offset = 0 /\ totalCount = MaxInt32
    /\ resourceIds = <<>> /\ left = <<>> /\ batch = <<>>
    /\ legacyIds = {}
    /\ removed = 0 /\ stable = ToSet(rows) /\ changes = 0
    /\ degraded = FALSE

-----------------------------------------------------------------------------
(***************************************************************************)
(* The loops.                                                              *)
(***************************************************************************)
\* Mutant: one round more.
MoreRounds(limit, retry) == i <= retry /\ limit + offset <= totalCount

More(limit, retry) == i < retry /\ limit + offset <= totalCount

\* The length of the page that is asked for when the service has n rows.
PageLength(n, limit) ==
    IF offset + limit <= n THEN limit ELSE IF offset <= n THEN n - offset ELSE 0

\* Mutant: the round is not counted.
AnsweredUncounted(length, total) ==
    offset' = offset + length /\ totalCount' = total /\ UNCHANGED i

\* Mutant: every row is counted by its two tags.
AnsweredByTags(length, total) ==
    offset' = offset + 2 * length /\ totalCount' = total /\ i' = i + 1

Answered(length, total) ==
    offset' = offset + length /\ totalCount' = total /\ i' = i + 1

FirstRound == i' = 1 /\ offset' = 0 /\ totalCount' = MaxInt32

RoundsUsedUp(limit, retry) == i = retry /\ limit + offset <= totalCount

\* DescribeResourcesByTags with the uuid of the cluster.
ListPage ==
    /\ pc = "list"
    /\ More(Limit, RetryTimeLimit)
    /\ LET length == PageLength(Len(rows), Limit) IN
       /\ resourceIds' = resourceIds \o SubSeq(rows, offset + 1, offset + length)
       /\ \E total \in {Len(rows)} \cup WrongTotals :
             /\ Answered(length, total)
             /\ degraded' = (degraded \/ total # Len(rows))
    /\ UNCHANGED <<indexVars, pc, left, batch, legacyIds>>

\* The list is handed on; an empty one ends the sweep.
Listed ==
    /\ pc' = IF resourceIds = <<>> THEN "done" ELSE "batch"
    /\ left' = resourceIds
    /\ UNCHANGED <<indexVars, resourceIds, batch, legacyIds>>

ListEnds ==
    /\ pc = "list"
    /\ ~More(Limit, RetryTimeLimit)
    /\ Listed
    /\ FirstRound
    /\ degraded' = (degraded \/ RoundsUsedUp(Limit, RetryTimeLimit))

\* An answer without a response ends the loop, but err is nil: what was found so far
\* is taken for the whole list.
ListCutShort ==
    /\ pc = "list"
    /\ More(Limit, RetryTimeLimit)
    /\ Listed
    /\ FirstRound
    /\ degraded' = TRUE

\* Mutant: the next batch starts one address too late.
NextBatchSkips ==
    /\ pc = "batch"
    /\ left # <<>>
    /\ LET n == IF Len(left) > BatchSize THEN BatchSize ELSE Len(left) IN
       /\ batch' = SubSeq(left, 1, n)
       /\ left' = SubSeq(left, n + 2, Len(left))
    /\ pc' = "keys"
    /\ FirstRound
    /\ UNCHANGED <<indexVars, resourceIds, legacyIds, degraded>>

NextBatch ==
    /\ pc = "batch"
    /\ left # <<>>
    /\ LET n == IF Len(left) > BatchSize THEN BatchSize ELSE Len(left) IN
       /\ batch' = SubSeq(left, 1, n)
       /\ left' = SubSeq(left, n + 1, Len(left))
    /\ pc' = "keys"
    /\ FirstRound
    /\ UNCHANGED <<indexVars, resourceIds, legacyIds, degraded>>

LastBatchDone ==
    /\ pc = "batch"
    /\ left = <<>>
    /\ pc' = "done"
    /\ UNCHANGED <<indexVars, loopVars, resourceIds, left, batch, legacyIds, degraded>>

\* DescribeResourceTagsByTagKeys for the addresses of the batch, in an order of the
\* service's.  The total may count addresses or their tags (the code asks for two tags
\* of each).
KeysPage ==
    /\ pc = "keys"
    /\ More(Limit2, RetryTimeLimit2)
    /\ LET found == ToSet(batch) \cap ToSet(rows)
           n == Cardinality(found)
           totals == {n, 2 * n}
       IN  /\ \E page \in SUBSET found :
                 /\ Cardinality(page) = PageLength(n, Limit2)
                 /\ legacyIds' = legacyIds \cup (page \cap Gone)
           /\ \E total \in totals \cup WrongTotals :
                 /\ Answered(PageLength(n, Limit2), total)
                 /\ degraded' = (degraded \/ total \notin totals)
    /\ UNCHANGED <<indexVars, pc, resourceIds, left, batch>>

KeysEnd ==
    /\ pc = "keys"
    /\ ~More(Limit2, RetryTimeLimit2)
    /\ pc' = "batch"
    /\ FirstRound
    /\ UNCHANGED <<indexVars, resourceIds, left, batch, legacyIds, degraded>>

\* An error of either call, or a missing response of the second, ends the sweep.
CallFails ==
    /\ \/ pc = "list" /\ More(Limit, RetryTimeLimit)
       \/ pc = "keys" /\ More(Limit2, RetryTimeLimit2)
    /\ pc' = "failed"
    /\ FirstRound
    /\ UNCHANGED <<indexVars, resourceIds, left, batch, legacyIds, degraded>>

Sweep ==
    \/ ListPage \/ ListEnds \/ ListCutShort
    \/ NextBatch \/ LastBatchDone \/ KeysPage \/ KeysEnd
    \/ CallFails

-----------------------------------------------------------------------------
(***************************************************************************)
(* Meanwhile the workers allocate and release.                             *)
(***************************************************************************)
IndexChanged == changes < MaxChanges /\ changes' = changes + 1

RowAdded(r) ==
    /\ r \notin ToSet(rows)
    /\ IndexChanged
    /\ \E k \in 1 .. Len(rows) + 1 : rows' = InsertAt(rows, k, r)
    /\ UNCHANGED <<pc, loopVars, resourceIds, left, batch, legacyIds, removed, stable, degraded>>

RowRemoved(k) ==
    /\ IndexChanged
    /\ rows' = RemoveAt(rows, k)
    /\ removed' = removed + 1
    /\ stable' = stable \ {rows[k]}
    /\ UNCHANGED <<pc, loopVars, resourceIds, left, batch, legacyIds, degraded>>

Next ==
    \/ Sweep
    \/ pc \notin {"done", "failed"} /\ \E r \in Rows : RowAdded(r)
    \/ pc \notin {"done", "failed"} /\ \E k \in 1 .. Len(rows) : RowRemoved(k)

\* The sweep runs in a goroutine that is never stopped.
Spec == Init /\ [][Next]_vars /\ WF_vars(Sweep)

-----------------------------------------------------------------------------
\* What a sweep may miss: of the legacy addresses that were there all the time, fewer
\* than a page that the first loop never asks for, and one for each row that was removed
\* while it was paging.  The batches of the second loop lose none.  The page is really missed,
\* although the list is to be "all anycast ip" of the cluster (getAllAnycastIpOfCluster).
BoundedLoss ==
    pc = "done" /\ ~degraded => Cardinality((Gone \cap stable) \ legacyIds) < Limit + removed

\* A sweep ends, even when the service goes on reporting wrong totals ("avoid infinite
\* loop even if tag api response has wrong info").
Terminates == <>(pc \in {"done", "failed"})
=============================================================================
