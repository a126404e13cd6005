--------------------------- MODULE TagPaging_proof ---------------------------
(***************************************************************************)
(* What a sweep may miss, for any number of rows and any sizes of pages    *)
(* and batches: proofs of the two invariants of TagPaging.                 *)
(*                                                                         *)
(* A sweep loses an address in two ways.  A row behind the offset moves    *)
(* before it when a row is removed: at most one per removal                *)
(* (PassedFound).  And the first loop ends although rows are left after    *)
(* the offset: fewer than a page, by its condition on the last total, and  *)
(* rows added since then do not count (RestCounted).  The second loop      *)
(* loses none, because a batch is smaller than a page of it and its first  *)
(* round always runs (BatchesKeep).                                        *)
(***************************************************************************)
EXTENDS TagPaging, FiniteSetTheorems, TLAPS

Found == ToSet(resourceIds)

\* The old rows that lie before the offset now.
Passed == {r \in stable : \E k \in 1 .. Len(rows) : k <= offset /\ rows[k] = r}

\* The rows the last total promises behind the offset.
Rest == IF offset <= totalCount THEN totalCount - offset ELSE 0

\* A row is listed once, and the old rows are still there.
RowsOnce == IsInjective(rows) /\ stable \subseteq ToSet(rows)

\* Before the first answer of a loop the total is the one nobody reports.
TotalUnset == i = 1 => totalCount = MaxInt32

\* Of the old rows before the offset, at most one per removed row was not read.
PassedFound == pc = "list" => Cardinality(Passed \ Found) <= removed

\* After a right answer, at most the rest it reported is missing as well.
RestCounted ==
    pc = "list" /\ ~degraded /\ 1 < i => Cardinality(stable \ Found) <= removed + Rest

\* The first loop ends with less than a page to go.
FewMissed ==
    pc \in {"batch", "keys", "done"} /\ ~degraded
        => Cardinality(stable \ Found) < Limit + removed

\* A legacy address that was listed is known to be one, or its batch has yet to be asked for.
Pending == ToSet(left) \cup IF pc = "keys" /\ i = 1 THEN ToSet(batch) ELSE {}

BatchesKeep ==
    /\ pc \in {"batch", "keys", "done"} => Gone \cap stable \cap Found \subseteq legacyIds \cup Pending
    /\ pc = "done" => left = <<>>

\* The inductive invariant of the two loops (the for statements of
\* getAllAnycastIpOfCluster and getLegacyAnycastIds).
PagingInv ==
    /\ TypeOK
    /\ RowsOnce /\ TotalUnset
    /\ PassedFound /\ RestCounted /\ FewMissed
    /\ BatchesKeep

-----------------------------------------------------------------------------
(***************************************************************************)
(* Sequences of rows.                                                      *)
(***************************************************************************)
\* A part of a larger finite set is finite and not larger.
LEMMA PartSmaller ==
    ASSUME NEW T, IsFiniteSet(T), NEW S, S \subseteq T
    PROVE  /\ IsFiniteSet(S) /\ Cardinality(S) \in Nat /\ Cardinality(T) \in Nat
           /\ Cardinality(S) <= Cardinality(T)
  BY FS_Subset, FS_CardinalityType

\* What two finite sets hold together is not more than what each holds.
LEMMA UnionBound ==
    ASSUME NEW A, IsFiniteSet(A), NEW B, IsFiniteSet(B), NEW S, S \subseteq A \cup B
    PROVE  Cardinality(S) \in Nat /\ Cardinality(S) <= Cardinality(A) + Cardinality(B)
<1>1. IsFiniteSet(A \cup B) /\ Cardinality(A \cup B) = Cardinality(A) + Cardinality(B) - Cardinality(A \cap B)
  BY FS_Union
<1>2. Cardinality(A \cap B) \in Nat
  BY PartSmaller
<1>3. Cardinality(A) \in Nat /\ Cardinality(B) \in Nat
  BY FS_CardinalityType
<1> QED
  BY <1>1, <1>2, <1>3, PartSmaller

\* Rows that are listed once are no more than there are.
LEMMA RowsFit ==
    ASSUME NEW s \in Seq(Rows), IsInjective(s)
    PROVE  Len(s) \in Nat /\ Len(s) <= Cardinality(Rows) /\ Cardinality(Rows) \in Nat
<1>1. s \in Injection(1 .. Len(s), Rows)
  BY DEF IsInjective, Injection
<1>2. Len(s) \in Nat
  OBVIOUS
<1>3. Cardinality(1 .. Len(s)) = Len(s)
  BY <1>2, FS_Interval
<1> QED
  BY <1>1, <1>2, <1>3, FS_Injection, FS_CardinalityType, PagingAssumption

\* The rows behind the k-th are at most as many as their positions.
LEMMA TailSmall ==
    ASSUME NEW s \in Seq(Rows), NEW k \in Nat
    PROVE  Cardinality({s[j] : j \in k + 1 .. Len(s)}) <= IF k <= Len(s) THEN Len(s) - k ELSE 0
<1> DEFINE P == k + 1 .. Len(s)
           f == [j \in P |-> s[j]]
<1>1. f \in Surjection(P, {s[j] : j \in P})
  BY DEF Surjection
<1>2. Len(s) \in Nat /\ k + 1 \in Int
  OBVIOUS
<1>3. /\ IsFiniteSet(P)
      /\ Cardinality(P) = IF k + 1 > Len(s) THEN 0 ELSE Len(s) - (k + 1) + 1
  <2>1. \A a, b \in Int :
            /\ IsFiniteSet(a .. b)
            /\ Cardinality(a .. b) = IF a > b THEN 0 ELSE b - a + 1
    BY FS_Interval
  <2>2. k + 1 \in Int /\ Len(s) \in Int
    BY <1>2
  <2> QED
    BY <2>1, <2>2, Zenon
<1>4. Cardinality(P) = IF k <= Len(s) THEN Len(s) - k ELSE 0
  BY <1>2, <1>3
<1> QED
  BY <1>1, <1>3, <1>4, FS_Surjection

\* A part of a list, position by position.
LEMMA PartOfSeq ==
    ASSUME NEW s \in Seq(Rows), NEW m \in Nat \ {0}, NEW n \in Nat, n <= Len(s) \/ n < m
    PROVE  /\ SubSeq(s, m, n) \in Seq(Rows)
           /\ Len(SubSeq(s, m, n)) = IF m <= n THEN n - m + 1 ELSE 0
           /\ \A j \in 1 .. n - m + 1 : SubSeq(s, m, n)[j] = s[m + j - 1]
  OBVIOUS

\* Two lists, one after the other.
LEMMA Joined ==
    ASSUME NEW a \in Seq(Rows), NEW b \in Seq(Rows)
    PROVE  /\ a \o b \in Seq(Rows) /\ Len(a \o b) = Len(a) + Len(b)
           /\ \A j \in 1 .. Len(a) : (a \o b)[j] = a[j]
           /\ \A j \in 1 .. Len(b) : (a \o b)[Len(a) + j] = b[j]
  OBVIOUS

\* What a list holds.
LEMMA Listing ==
    ASSUME NEW s \in Seq(Rows)
    PROVE  /\ \A j \in 1 .. Len(s) : s[j] \in ToSet(s)
           /\ \A x \in ToSet(s) : \E j \in 1 .. Len(s) : s[j] = x
           /\ ToSet(s) \subseteq Rows
  BY DEF ToSet

\* Two lists hold what either holds.
LEMMA JoinedListing ==
    ASSUME NEW a \in Seq(Rows), NEW b \in Seq(Rows)
    PROVE  ToSet(a) \cup ToSet(b) = ToSet(a \o b)
<1> DEFINE c == a \o b
<1>j. /\ c \in Seq(Rows) /\ Len(c) = Len(a) + Len(b) /\ Len(a) \in Nat /\ Len(b) \in Nat
      /\ \A j \in 1 .. Len(a) : c[j] = a[j]
      /\ \A j \in 1 .. Len(b) : c[Len(a) + j] = b[j]
  BY Joined
<1> HIDE DEF c
<1>1. \A x \in ToSet(c) : x \in ToSet(a) \cup ToSet(b)
  <2> TAKE x \in ToSet(c)
  <2>1. PICK j \in 1 .. Len(c) : c[j] = x
    BY <1>j, Listing
  <2>2. CASE j <= Len(a)
    <3>1. j \in 1 .. Len(a) /\ a[j] = x
      BY <1>j, <2>1, <2>2
    <3> QED
      BY <3>1, Listing
  <2>3. CASE j > Len(a)
    <3>1. j - Len(a) \in 1 .. Len(b) /\ Len(a) + (j - Len(a)) = j
      BY <1>j, <2>1, <2>3
    <3>2. b[j - Len(a)] = x
      BY <1>j, <2>1, <3>1
    <3> QED
      BY <3>1, <3>2, Listing
  <2> QED
    BY <1>j, <2>1, <2>2, <2>3
<1>2. \A x \in ToSet(a) : x \in ToSet(c)
  <2> TAKE x \in ToSet(a)
  <2>1. PICK j \in 1 .. Len(a) : a[j] = x
    BY Listing
  <2>2. j \in 1 .. Len(c) /\ c[j] = x
    BY <1>j, <2>1
  <2> QED
    BY <1>j, <2>2, Listing
<1>3. \A x \in ToSet(b) : x \in ToSet(c)
  <2> TAKE x \in ToSet(b)
  <2>1. PICK j \in 1 .. Len(b) : b[j] = x
    BY Listing
  <2>2. Len(a) + j \in 1 .. Len(c) /\ c[Len(a) + j] = x
    BY <1>j, <2>1
  <2> QED
    BY <1>j, <2>2, Listing
<1> QED
  BY <1>1, <1>2, <1>3 DEF c

\* One row more: the rows from position k move back by one.
LEMMA Inserted ==
    ASSUME NEW s \in Seq(Rows), NEW k \in 1 .. Len(s) + 1, NEW r \in Rows
    PROVE  /\ InsertAt(s, k, r) \in Seq(Rows) /\ Len(InsertAt(s, k, r)) = Len(s) + 1
           /\ \A j \in 1 .. Len(s) + 1 :
                 InsertAt(s, k, r)[j] = IF j < k THEN s[j] ELSE IF j = k THEN r ELSE s[j - 1]
<1> DEFINE a == SubSeq(s, 1, k - 1)
           b == SubSeq(s, k, Len(s))
<1>1. /\ a \in Seq(Rows) /\ Len(a) = k - 1
      /\ \A j \in 1 .. k - 1 : a[j] = s[j]
  BY PartOfSeq
<1>2. /\ b \in Seq(Rows) /\ Len(b) = Len(s) - k + 1
      /\ \A j \in 1 .. Len(s) - k + 1 : b[j] = s[k + j - 1]
  BY PartOfSeq
<1> HIDE DEF a, b
<1> DEFINE one == <<r>>
<1>3. one \in Seq(Rows) /\ Len(one) = 1 /\ one[1] = r
  OBVIOUS
<1> HIDE DEF one
<1> DEFINE c == a \o one
<1>c. /\ c \in Seq(Rows) /\ Len(c) = Len(a) + Len(one)
      /\ \A j \in 1 .. Len(a) : c[j] = a[j]
      /\ \A j \in 1 .. Len(one) : c[Len(a) + j] = one[j]
  BY <1>1, <1>3, Joined
<1> HIDE DEF c
<1>4. /\ c \in Seq(Rows) /\ Len(c) = k
      /\ \A j \in 1 .. k : c[j] = IF j < k THEN s[j] ELSE r
  <2>1. 1 \in 1 .. Len(one) /\ Len(a) + 1 = k
    BY <1>1, <1>3
  <2>2. c[k] = r
    BY <1>3, <1>c, <2>1
  <2> QED
    BY <1>1, <1>3, <1>c, <2>2
<1> DEFINE t == InsertAt(s, k, r)
<1>t. t = c \o b
  BY DEF InsertAt, a, b, c, one
<1> HIDE DEF t
<1>5. /\ t \in Seq(Rows) /\ Len(t) = Len(c) + Len(b)
      /\ \A j \in 1 .. Len(c) : t[j] = c[j]
      /\ \A j \in 1 .. Len(b) : t[Len(c) + j] = b[j]
  BY <1>2, <1>4, <1>t, Joined
<1>6. Len(t) = Len(s) + 1
  BY <1>2, <1>4, <1>5
<1>7. \A j \in 1 .. Len(t) : t[j] = IF j < k THEN s[j] ELSE IF j = k THEN r ELSE s[j - 1]
  <2>1. ASSUME NEW j \in 1 .. Len(t), j > k
        PROVE  t[j] = s[j - 1]
    <3>1. j - k \in 1 .. Len(b) /\ Len(c) + (j - k) = j /\ k + (j - k) - 1 = j - 1
      BY <1>2, <1>4, <1>5, <2>1
    <3> QED
      BY <1>2, <1>5, <3>1
  <2> QED
    BY <1>4, <1>5, <2>1
<1> QED
  BY <1>5, <1>6, <1>7 DEF t

\* One row less: the rows behind position k move forward by one.
LEMMA Cut ==
    ASSUME NEW s \in Seq(Rows), NEW k \in 1 .. Len(s), NEW t, t = RemoveAt(s, k)
    PROVE  /\ t \in Seq(Rows) /\ Len(t) = Len(s) - 1
           /\ \A j \in 1 .. Len(t) : t[j] = IF j < k THEN s[j] ELSE s[j + 1]
<1> DEFINE a == SubSeq(s, 1, k - 1)
           b == SubSeq(s, k + 1, Len(s))
<1>1. /\ a \in Seq(Rows) /\ Len(a) = k - 1
      /\ \A j \in 1 .. k - 1 : a[j] = s[j]
  BY PartOfSeq
<1>2. /\ b \in Seq(Rows) /\ Len(b) = Len(s) - k
      /\ \A j \in 1 .. Len(s) - k : b[j] = s[k + j]
  BY PartOfSeq
<1> HIDE DEF a, b
<1>t. t = a \o b
  BY DEF RemoveAt, a, b
<1>3. /\ t \in Seq(Rows) /\ Len(t) = Len(a) + Len(b)
      /\ \A j \in 1 .. Len(a) : t[j] = a[j]
      /\ \A j \in 1 .. Len(b) : t[Len(a) + j] = b[j]
  <2>1. /\ a \o b \in Seq(Rows) /\ Len(a \o b) = Len(a) + Len(b)
        /\ \A j \in 1 .. Len(a) : (a \o b)[j] = a[j]
        /\ \A j \in 1 .. Len(b) : (a \o b)[Len(a) + j] = b[j]
    BY <1>1, <1>2, Joined
  <2> QED
    BY <2>1, <1>t, Zenon
<1>4. \A j \in 1 .. Len(t) : t[j] = IF j < k THEN s[j] ELSE s[j + 1]
  <2>1. ASSUME NEW j \in 1 .. Len(t), j >= k
        PROVE  t[j] = s[j + 1]
    <3>1. j - k + 1 \in 1 .. Len(b) /\ Len(a) + (j - k + 1) = j /\ k + (j - k + 1) = j + 1
      BY <1>1, <1>2, <1>3, <2>1
    <3>2. t[j] = b[j - k + 1] /\ b[j - k + 1] = s[k + (j - k + 1)]
      BY <1>2, <1>3, <3>1
    <3> QED
      BY <3>1, <3>2
  <2> QED
    BY <1>1, <1>3, <2>1
<1> QED
  BY <1>1, <1>2, <1>3, <1>4

-----------------------------------------------------------------------------
(***************************************************************************)
(* The first loop.                                                         *)
(***************************************************************************)
\* The sweep starts from nothing found and no total.
LEMMA PagingStarts == Init => PagingInv
<1> SUFFICES ASSUME Init PROVE PagingInv
  OBVIOUS
<1>1. rows \in Seq(Rows) /\ IsInjective(rows)
  BY PagingAssumption DEF Init
<1>2. /\ 1 <= RetryTimeLimit /\ RetryTimeLimit \in Nat /\ (1 - 1) * Limit = 0
      /\ MaxChanges \in Nat /\ BatchSize \in Nat
  BY PagingAssumption
<1>3. TypeOK
  <2>1. /\ <<>> \in Seq(Rows) /\ Len(<<>>) = 0 /\ 0 <= BatchSize
        /\ 0 \in 0 .. MaxChanges /\ 1 \in 1 .. RetryTimeLimit /\ 0 \in 0 .. (1 - 1) * Limit
    BY <1>2
  <2>2. ToSet(rows) \subseteq Rows
    BY <1>1, Listing
  <2> QED
    BY <1>1, <2>1, <2>2 DEF Init, TypeOK
<1>4. Passed \ Found = {}
  BY <1>1 DEF Init, Passed
<1>5. PassedFound
  <2>1. Cardinality(Passed \ Found) = 0
    BY <1>4, FS_EmptySet
  <2> QED
    BY <2>1 DEF Init, PassedFound
<1> QED
  BY <1>1, <1>3, <1>5 DEF Init, PagingInv, RowsOnce, TotalUnset, RestCounted, FewMissed, BatchesKeep

\* A page of the first loop: the offset passes the rows that are read, and nothing else.
LEMMA ListPageKeeps == PagingInv /\ ListPage => PagingInv'
<1> SUFFICES ASSUME PagingInv, ListPage PROVE PagingInv'
  OBVIOUS
<1> DEFINE length == PageLength(Len(rows), Limit)
           page == SubSeq(rows, offset + 1, offset + length)
<1>1. /\ pc = "list" /\ pc' = "list" /\ i < RetryTimeLimit /\ i' = i + 1
      /\ offset' = offset + length /\ totalCount' \in {Len(rows)} \cup WrongTotals
      /\ resourceIds' = resourceIds \o page
      /\ degraded' = (degraded \/ totalCount' # Len(rows))
      /\ rows' = rows /\ stable' = stable /\ removed' = removed /\ changes' = changes
      /\ left' = left /\ batch' = batch /\ legacyIds' = legacyIds
  BY DEF ListPage, More, Answered, indexVars
<1>2. /\ rows \in Seq(Rows) /\ resourceIds \in Seq(Rows) /\ removed \in Nat
      /\ Limit \in Nat \ {0} /\ RetryTimeLimit \in Nat
      /\ i \in 1 .. RetryTimeLimit /\ offset \in 0 .. (i - 1) * Limit
  BY <1>1, PagingAssumption DEF PagingInv, TypeOK
<1>3. Len(rows) \in Nat /\ offset \in Nat
  BY <1>2
<1>4. /\ length \in 0 .. Limit
      /\ 0 < length => offset + length <= Len(rows)
      /\ length < Limit => Len(rows) <= offset + length
  BY <1>2, <1>3 DEF PageLength
<1> HIDE DEF length
<1>5. /\ page \in Seq(Rows) /\ Len(page) = length
      /\ \A j \in 1 .. length : page[j] = rows[offset + j]
  BY <1>2, <1>3, <1>4, PartOfSeq
<1> HIDE DEF page
<1>6. /\ resourceIds' \in Seq(Rows) /\ Found' = Found \cup ToSet(page)
  BY <1>1, <1>2, <1>5, Joined, JoinedListing DEF Found
<1>7. TypeOK'
  <2>1. offset' \in 0 .. (i' - 1) * Limit
    BY <1>1, <1>2, <1>3, <1>4
  <2>2. totalCount' \in WrongTotals \cup 0 .. 2 * Cardinality(Rows)
    BY <1>1, <1>2, RowsFit DEF PagingInv, RowsOnce
  <2>3. i' \in 1 .. RetryTimeLimit
    BY <1>1, <1>2
  <2> QED
    BY <1>1, <1>2, <1>6, <2>1, <2>2, <2>3 DEF PagingInv, TypeOK
<1>8. \A k \in 1 .. Len(rows) : k <= offset' /\ ~(k <= offset) => rows[k] \in Found'
  <2> TAKE k \in 1 .. Len(rows)
  <2> HAVE k <= offset' /\ ~(k <= offset)
  <2>1. k - offset \in 1 .. length /\ offset + (k - offset) = k
    BY <1>1, <1>3, <1>4
  <2>2. page[k - offset] = rows[k]
    BY <1>5, <2>1
  <2> QED
    BY <1>5, <1>6, <2>1, <2>2, Listing
<1>9. Passed' \ Found' \subseteq Passed \ Found
  BY <1>1, <1>6, <1>8 DEF Passed
<1>10. IsFiniteSet(stable)
  BY PagingAssumption, PartSmaller DEF PagingInv, TypeOK
<1>11. IsFiniteSet(Passed \ Found) /\ Cardinality(Passed' \ Found') \in Nat
       /\ Cardinality(Passed' \ Found') <= removed
  <2>1. IsFiniteSet(Passed \ Found)
    BY <1>10, PartSmaller DEF Passed
  <2>2. Cardinality(Passed \ Found) <= removed
    BY <1>1 DEF PagingInv, PassedFound
  <2> QED
    BY <1>2, <1>9, <2>1, <2>2, PartSmaller
<1>12. PassedFound'
  BY <1>1, <1>11 DEF PassedFound
<1>13. RestCounted'
  <2> SUFFICES ASSUME ~degraded' PROVE Cardinality(stable' \ Found') <= removed' + Rest'
    BY DEF RestCounted
  <2>1. totalCount' = Len(rows)
    BY <1>1
  <2> DEFINE behind == {rows[j] : j \in offset' + 1 .. Len(rows)}
  <2>a. offset' \in Nat
    BY <1>1, <1>3, <1>4
  <2>b. /\ \A k \in 1 .. Len(rows) : ~(k <= offset') => k \in offset' + 1 .. Len(rows)
        /\ \A k \in offset' + 1 .. Len(rows) : k \in 1 .. Len(rows)
    <3>1. \A m \in Nat :
             /\ \A k \in 1 .. Len(rows) : ~(k <= m) => k \in m + 1 .. Len(rows)
             /\ \A k \in m + 1 .. Len(rows) : k \in 1 .. Len(rows)
      BY <1>3
    <3> QED
      BY <2>a, <3>1, Zenon
  <2>2. Rest' = IF offset' <= Len(rows) THEN Len(rows) - offset' ELSE 0
    BY <2>1 DEF Rest
  <2>3. Cardinality(behind) <= Rest'
    BY <1>2, <2>a, <2>2, TailSmall
  <2>4. stable' \ Found' \subseteq (Passed' \ Found') \cup behind
    <3> SUFFICES ASSUME NEW r \in stable', r \notin Found' PROVE r \in Passed' \cup behind
      OBVIOUS
    <3>1. PICK k \in 1 .. Len(rows) : rows[k] = r
      BY <1>1, <1>2, Listing DEF PagingInv, RowsOnce
    <3>2. CASE k <= offset'
      BY <1>1, <3>1, <3>2 DEF Passed
    <3>3. CASE ~(k <= offset')
      <4>1. k \in offset' + 1 .. Len(rows)
        BY <2>b, <3>1, <3>3
      <4> QED
        BY <3>1, <4>1
    <3> QED
      BY <3>2, <3>3
  <2>5. behind \subseteq Rows
    BY <1>2, <2>b
  <2>6. IsFiniteSet(behind) /\ Cardinality(behind) \in Nat
    BY <2>5, PagingAssumption, PartSmaller
  <2>7. IsFiniteSet(Passed' \ Found')
    BY <1>9, <1>11, PartSmaller
  <2> HIDE DEF behind
  <2>8. /\ Cardinality(stable' \ Found') \in Nat
        /\ Cardinality(stable' \ Found') <= Cardinality(Passed' \ Found') + Cardinality(behind)
    BY <2>4, <2>6, <2>7, UnionBound
  <2>9. Rest' \in Nat
    BY <1>3, <2>a, <2>2
  <2> QED
    BY <1>1, <1>2, <1>11, <2>3, <2>6, <2>8, <2>9
<1>14. FewMissed' /\ BatchesKeep' /\ RowsOnce' /\ TotalUnset'
  BY <1>1, <1>2 DEF FewMissed, BatchesKeep, PagingInv, RowsOnce, TotalUnset
<1> QED
  BY <1>7, <1>12, <1>13, <1>14 DEF PagingInv

\* A loop starts within its rounds and pages.
LEMMA FirstRoundTyped ==
    ASSUME FirstRound
    PROVE  /\ i' \in 1 .. RetryTimeLimit /\ i' \in 1 .. RetryTimeLimit2
           /\ offset' \in 0 .. (i' - 1) * Limit /\ offset' \in 0 .. (i' - 1) * Limit2
           /\ i' = 1 /\ totalCount' = MaxInt32
<1>1. \A l \in Nat : 0 \in 0 .. (1 - 1) * l
  OBVIOUS
<1>2. Limit \in Nat /\ Limit2 \in Nat
  BY PagingAssumption
<1>3. 1 \in 1 .. RetryTimeLimit /\ 1 \in 1 .. RetryTimeLimit2
  BY PagingAssumption
<1> QED
  BY <1>1, <1>2, <1>3 DEF FirstRound

\* Whatever the first loop ends with is handed on whole.
LEMMA ListedKeeps ==
    ASSUME PagingInv, pc = "list", Listed, FirstRound, degraded' \in BOOLEAN,
           ~degraded' => Cardinality(stable \ Found) < Limit + removed
    PROVE  PagingInv'
<1>1. /\ rows' = rows /\ stable' = stable /\ removed' = removed /\ changes' = changes
      /\ resourceIds' = resourceIds /\ batch' = batch /\ legacyIds' = legacyIds
      /\ left' = resourceIds /\ pc' = IF resourceIds = <<>> THEN "done" ELSE "batch"
  BY DEF Listed, indexVars
<1>2. TypeOK'
  BY <1>1, FirstRoundTyped DEF PagingInv, TypeOK
<1>3. BatchesKeep'
  BY <1>1 DEF BatchesKeep, Pending, Found
<1>4. RowsOnce' /\ TotalUnset' /\ PassedFound' /\ RestCounted'
  BY <1>1, FirstRoundTyped DEF PagingInv, RowsOnce, TotalUnset, PassedFound, RestCounted
<1>5. FewMissed'
  BY <1>1 DEF FewMissed, Found
<1> QED
  BY <1>2, <1>3, <1>4, <1>5 DEF PagingInv

\* The first loop ends by its condition or by its rounds.
LEMMA ListEndsKeeps == PagingInv /\ ListEnds => PagingInv'
<1> SUFFICES ASSUME PagingInv, ListEnds PROVE PagingInv'
  OBVIOUS
<1>1. /\ pc = "list" /\ Listed /\ FirstRound
      /\ ~(i < RetryTimeLimit /\ Limit + offset <= totalCount)
      /\ degraded' = (degraded \/ (i = RetryTimeLimit /\ Limit + offset <= totalCount))
  BY DEF ListEnds, More, RoundsUsedUp
<1>2. /\ i \in 1 .. RetryTimeLimit /\ RetryTimeLimit \in Nat /\ removed \in Nat
      /\ Limit \in Nat \ {0} /\ MaxInt32 \in Nat /\ Limit <= MaxInt32
      /\ degraded \in BOOLEAN /\ offset \in 0 .. (i - 1) * Limit
  BY <1>1, PagingAssumption DEF PagingInv, TypeOK
<1>3. totalCount \in Nat /\ offset \in Nat
  <2>1. Cardinality(Rows) \in Nat /\ WrongTotals \subseteq Nat
    BY PagingAssumption, FS_CardinalityType
  <2> QED
    BY <1>2, <2>1 DEF PagingInv, TypeOK
<1>4. degraded' \in BOOLEAN
  BY <1>1
<1>5. ASSUME ~degraded' PROVE Cardinality(stable \ Found) < Limit + removed
  <2>1. ~degraded /\ ~(Limit + offset <= totalCount)
    <3>1. i < RetryTimeLimit \/ i = RetryTimeLimit
      BY <1>2
    <3> QED
      BY <1>1, <1>5, <3>1, Zenon
  <2>2. 1 < i
    <3>1. i = 1 => offset = 0 /\ totalCount = MaxInt32
      BY <1>2 DEF PagingInv, TotalUnset
    <3> QED
      BY <1>2, <2>1, <3>1
  <2>3. Cardinality(stable \ Found) <= removed + Rest
    BY <1>1, <2>1, <2>2 DEF PagingInv, RestCounted
  <2>4. Rest \in Nat /\ Rest < Limit
    BY <1>2, <1>3, <2>1 DEF Rest
  <2>5. Cardinality(stable \ Found) \in Nat
    BY PagingAssumption, PartSmaller DEF PagingInv, TypeOK
  <2> QED
    BY <1>2, <2>3, <2>4, <2>5
<1> QED
  BY <1>1, <1>4, <1>5, ListedKeeps

\* A missing answer cuts the list short: nothing is claimed of such a sweep.
LEMMA ListCutShortKeeps == PagingInv /\ ListCutShort => PagingInv'
  BY ListedKeeps DEF ListCutShort

-----------------------------------------------------------------------------
(***************************************************************************)
(* The second loop.                                                        *)
(***************************************************************************)
\* The rows before the offset matter to the first loop only.
LEMMA IndexStays ==
    ASSUME PagingInv, UNCHANGED <<indexVars, resourceIds, degraded>>,
           pc \in {"batch", "keys"}, pc' \in {"batch", "keys", "done"},
           TypeOK', TotalUnset', BatchesKeep'
    PROVE  PagingInv'
<1>1. /\ rows' = rows /\ stable' = stable /\ removed' = removed
      /\ resourceIds' = resourceIds /\ degraded' = degraded
  BY DEF indexVars
<1>2. RowsOnce' /\ PassedFound' /\ RestCounted' /\ FewMissed'
  BY <1>1 DEF PagingInv, RowsOnce, PassedFound, RestCounted, FewMissed, Found
<1> QED
  BY <1>2 DEF PagingInv

\* A batch is taken from the front of what is left: nothing falls between the two.
LEMMA NextBatchKeeps == PagingInv /\ NextBatch => PagingInv'
<1> SUFFICES ASSUME PagingInv, NextBatch PROVE PagingInv'
  OBVIOUS
<1> DEFINE n == IF Len(left) > BatchSize THEN BatchSize ELSE Len(left)
<1>1. /\ pc = "batch" /\ pc' = "keys" /\ FirstRound
      /\ batch' = SubSeq(left, 1, n) /\ left' = SubSeq(left, n + 1, Len(left))
      /\ resourceIds' = resourceIds /\ legacyIds' = legacyIds /\ degraded' = degraded
      /\ rows' = rows /\ stable' = stable /\ removed' = removed /\ changes' = changes
  BY DEF NextBatch, indexVars
<1>2. left \in Seq(Rows) /\ BatchSize \in Nat
  BY PagingAssumption DEF PagingInv, TypeOK
<1>3. Len(left) \in Nat
  BY <1>2
<1>4. n \in 0 .. Len(left) /\ n <= BatchSize
  BY <1>2, <1>3
<1> HIDE DEF n
<1>5. /\ batch' \in Seq(Rows) /\ Len(batch') = n
      /\ \A j \in 1 .. n : batch'[j] = left[j]
  BY <1>1, <1>2, <1>3, <1>4, PartOfSeq
<1>6. /\ left' \in Seq(Rows) /\ Len(left') = Len(left) - n
      /\ \A j \in 1 .. Len(left) - n : left'[j] = left[n + j]
  BY <1>1, <1>2, <1>3, <1>4, PartOfSeq
<1>7. ToSet(left) \subseteq ToSet(left') \cup ToSet(batch')
  <2> SUFFICES ASSUME NEW x \in ToSet(left) PROVE x \in ToSet(left') \cup ToSet(batch')
    OBVIOUS
  <2>1. PICK j \in 1 .. Len(left) : left[j] = x
    BY <1>2, Listing
  <2>2. CASE j <= n
    <3>1. j \in 1 .. Len(batch') /\ batch'[j] = x
      BY <1>4, <1>5, <2>1, <2>2
    <3> QED
      BY <1>5, <3>1, Listing
  <2>3. CASE j > n
    <3>1. j - n \in 1 .. Len(left') /\ n + (j - n) = j
      BY <1>3, <1>4, <1>6, <2>1, <2>3
    <3>2. left'[j - n] = x
      BY <1>6, <2>1, <3>1
    <3> QED
      BY <1>6, <3>1, <3>2, Listing
  <2> QED
    BY <1>4, <2>1, <2>2, <2>3
<1>8. TypeOK'
  BY <1>1, <1>4, <1>5, <1>6, FirstRoundTyped DEF PagingInv, TypeOK
<1>9. TotalUnset' /\ BatchesKeep'
  BY <1>1, <1>7, FirstRoundTyped DEF PagingInv, TotalUnset, BatchesKeep, Pending, Found
<1> QED
  BY <1>1, <1>8, <1>9, IndexStays DEF indexVars

\* The loop over the batches ends when nothing is left.
LEMMA LastBatchDoneKeeps == PagingInv /\ LastBatchDone => PagingInv'
<1> SUFFICES ASSUME PagingInv, LastBatchDone PROVE PagingInv'
  OBVIOUS
<1>1. /\ pc = "batch" /\ pc' = "done" /\ left = <<>>
      /\ UNCHANGED <<indexVars, loopVars, resourceIds, left, batch, legacyIds, degraded>>
  BY DEF LastBatchDone
<1>2. TypeOK'
  BY <1>1 DEF PagingInv, TypeOK, indexVars, loopVars
<1>3. TotalUnset' /\ BatchesKeep'
  BY <1>1 DEF PagingInv, TotalUnset, BatchesKeep, Pending, Found, indexVars, loopVars
<1> QED
  BY <1>1, <1>2, <1>3, IndexStays

\* The first page for a batch has all of its rows, whatever pages may follow.
LEMMA KeysPageKeeps == PagingInv /\ KeysPage => PagingInv'
<1> SUFFICES ASSUME PagingInv, KeysPage PROVE PagingInv'
  OBVIOUS
<1> DEFINE found == ToSet(batch) \cap ToSet(rows)
           n == Cardinality(found)
<1>1. /\ pc = "keys" /\ pc' = "keys" /\ i < RetryTimeLimit2 /\ i' = i + 1
      /\ offset' = offset + PageLength(n, Limit2)
      /\ totalCount' \in {n, 2 * n} \cup WrongTotals
      /\ degraded' = (degraded \/ totalCount' \notin {n, 2 * n})
      /\ left' = left /\ batch' = batch /\ resourceIds' = resourceIds
      /\ rows' = rows /\ stable' = stable /\ removed' = removed /\ changes' = changes
  BY DEF KeysPage, More, Answered, indexVars
<1>2. PICK page \in SUBSET found :
          /\ Cardinality(page) = PageLength(n, Limit2)
          /\ legacyIds' = legacyIds \cup (page \cap Gone)
  BY DEF KeysPage
<1>3. /\ rows \in Seq(Rows) /\ batch \in Seq(Rows) /\ Len(batch) <= BatchSize
      /\ i \in 1 .. RetryTimeLimit2 /\ offset \in 0 .. (i - 1) * Limit2
      /\ Limit2 \in Nat /\ RetryTimeLimit2 \in Nat /\ BatchSize \in Nat /\ 2 * BatchSize <= Limit2
      /\ IsFiniteSet(Rows)
  BY <1>1, PagingAssumption DEF PagingInv, TypeOK
<1>4. offset \in Nat /\ Len(batch) \in Nat
  BY <1>3
<1>5. IsFiniteSet(found) /\ n \in Nat /\ n <= Cardinality(Rows) /\ Cardinality(Rows) \in Nat
  <2>1. found \subseteq Rows
    BY <1>3, Listing
  <2> QED
    BY <1>3, <2>1, PartSmaller
<1>6. n <= Limit2
  <2>1. ToSet(batch) = {batch[j] : j \in 0 + 1 .. Len(batch)}
    BY <1>3, Listing
  <2>2. Cardinality(ToSet(batch)) <= Len(batch)
    BY <1>3, <1>4, <2>1, TailSmall
  <2>3. IsFiniteSet(ToSet(batch)) /\ Cardinality(ToSet(batch)) \in Nat
    BY <1>3, Listing, PartSmaller
  <2>4. n <= Cardinality(ToSet(batch))
    BY <2>3, PartSmaller
  <2> QED
    BY <1>3, <1>4, <1>5, <2>2, <2>3, <2>4
<1> HIDE DEF n
<1>7. PageLength(n, Limit2) \in 0 .. Limit2
  BY <1>3, <1>4, <1>5 DEF PageLength
<1>8. offset' \in 0 .. (i' - 1) * Limit2 /\ i' \in 1 .. RetryTimeLimit2
  <2>1. offset' \in Nat /\ offset' <= (i - 1) * Limit2 + Limit2
    BY <1>1, <1>3, <1>4, <1>7
  <2>2. (i - 1) * Limit2 + Limit2 = (i' - 1) * Limit2 /\ i' \in 1 .. RetryTimeLimit2
    BY <1>1, <1>3
  <2> QED
    BY <1>1, <1>3, <2>1, <2>2
<1>9. totalCount' \in WrongTotals \cup 0 .. 2 * Cardinality(Rows)
  BY <1>1, <1>5
<1>10. page \subseteq found /\ legacyIds' \subseteq Gone
  BY <1>2 DEF PagingInv, TypeOK
<1>11. TypeOK'
  BY <1>1, <1>8, <1>9, <1>10 DEF PagingInv, TypeOK
<1>12. i = 1 => page = found
  <2> SUFFICES ASSUME i = 1 PROVE page = found
    OBVIOUS
  <2>1. offset = 0
    BY <1>3
  <2>2. PageLength(n, Limit2) = n
    BY <1>3, <1>5, <1>6, <2>1 DEF PageLength
  <2> QED
    BY <1>2, <1>5, <2>2, FS_Subset DEF n
<1>13. Gone \cap stable \cap Found \subseteq legacyIds' \cup ToSet(left)
  <2>1. Gone \cap stable \cap Found \subseteq
            legacyIds \cup ToSet(left) \cup IF i = 1 THEN ToSet(batch) ELSE {}
    BY <1>1 DEF PagingInv, BatchesKeep, Pending
  <2>2. stable \subseteq ToSet(rows)
    BY DEF PagingInv, RowsOnce
  <2> QED
    BY <1>2, <1>12, <2>1, <2>2
<1>14. BatchesKeep' /\ TotalUnset'
  BY <1>1, <1>3, <1>13 DEF BatchesKeep, TotalUnset, Pending, Found
<1>15. RowsOnce' /\ PassedFound' /\ RestCounted' /\ FewMissed'
  BY <1>1 DEF PagingInv, RowsOnce, PassedFound, RestCounted, FewMissed, Found
<1> QED
  BY <1>11, <1>14, <1>15 DEF PagingInv

\* The pages of a batch end after the first one: its condition holds in round one.
LEMMA KeysEndKeeps == PagingInv /\ KeysEnd => PagingInv'
<1> SUFFICES ASSUME PagingInv, KeysEnd PROVE PagingInv'
  OBVIOUS
<1>1. /\ pc = "keys" /\ pc' = "batch" /\ FirstRound
      /\ ~(i < RetryTimeLimit2 /\ Limit2 + offset <= totalCount)
      /\ UNCHANGED <<indexVars, resourceIds, left, batch, legacyIds, degraded>>
  BY DEF KeysEnd, More
<1>2. i # 1
  <2>1. 1 < RetryTimeLimit2 /\ Limit2 \in Nat /\ MaxInt32 \in Nat /\ Limit2 <= MaxInt32
    BY PagingAssumption
  <2>2. i = 1 => offset \in 0 .. (1 - 1) * Limit2 /\ totalCount = MaxInt32
    BY <1>1 DEF PagingInv, TypeOK, TotalUnset
  <2>3. i = 1 => offset = 0
    BY <2>1, <2>2
  <2> QED
    BY <1>1, <2>1, <2>2, <2>3
<1>3. TypeOK'
  BY <1>1, FirstRoundTyped DEF PagingInv, TypeOK, indexVars
<1>4. TotalUnset' /\ BatchesKeep'
  BY <1>1, <1>2, FirstRoundTyped DEF PagingInv, TotalUnset, BatchesKeep, Pending, Found, indexVars
<1> QED
  BY <1>1, <1>3, <1>4, IndexStays

\* A failed call ends the sweep.
LEMMA CallFailsKeeps == PagingInv /\ CallFails => PagingInv'
<1> SUFFICES ASSUME PagingInv, CallFails PROVE PagingInv'
  OBVIOUS
<1>1. /\ pc' = "failed" /\ FirstRound
      /\ UNCHANGED <<indexVars, resourceIds, left, batch, legacyIds, degraded>>
  BY DEF CallFails
<1>2. TypeOK'
  BY <1>1, FirstRoundTyped DEF PagingInv, TypeOK, indexVars
<1> QED
  BY <1>1, <1>2, FirstRoundTyped
     DEF PagingInv, RowsOnce, TotalUnset, PassedFound, RestCounted, FewMissed, BatchesKeep, indexVars

-----------------------------------------------------------------------------
(***************************************************************************)
(* The tag index meanwhile.                                                *)
(***************************************************************************)
\* What both changes of the index leave alone.
LEMMA IndexMoves ==
    ASSUME PagingInv, IndexChanged,
           UNCHANGED <<pc, loopVars, resourceIds, left, batch, legacyIds, degraded>>,
           rows' \in Seq(Rows), IsInjective(rows'), stable' \subseteq ToSet(rows'),
           stable' \subseteq stable, removed' \in Nat, removed <= removed',
           Cardinality(Passed' \ Found) <= removed' \/ pc # "list"
    PROVE  PagingInv'
<1>1. /\ pc' = pc /\ i' = i /\ offset' = offset /\ totalCount' = totalCount
      /\ resourceIds' = resourceIds /\ left' = left /\ batch' = batch
      /\ legacyIds' = legacyIds /\ degraded' = degraded
      /\ Found' = Found /\ Pending' = Pending /\ Rest' = Rest
  BY DEF loopVars, Found, Pending, Rest
<1>2. changes' \in 0 .. MaxChanges
  BY PagingAssumption DEF PagingInv, TypeOK, IndexChanged
<1>3. TypeOK'
  BY <1>1, <1>2 DEF PagingInv, TypeOK
<1>4. RowsOnce' /\ TotalUnset'
  BY <1>1 DEF PagingInv, RowsOnce, TotalUnset
<1>5. PassedFound'
  BY <1>1 DEF PassedFound
<1>6. /\ Cardinality(stable' \ Found) \in Nat /\ Cardinality(stable \ Found) \in Nat
      /\ Cardinality(stable' \ Found) <= Cardinality(stable \ Found)
  <2>1. IsFiniteSet(stable \ Found)
    BY PagingAssumption, PartSmaller DEF PagingInv, TypeOK
  <2>2. stable' \ Found \subseteq stable \ Found
    OBVIOUS
  <2> QED
    BY <2>1, <2>2, PartSmaller
<1>7. removed \in Nat /\ Limit \in Nat
  BY PagingAssumption DEF PagingInv, TypeOK
<1>8. pc = "list" => Rest \in Nat
  <2>1. Cardinality(Rows) \in Nat /\ WrongTotals \subseteq Nat /\ MaxInt32 \in Nat
    BY PagingAssumption, FS_CardinalityType
  <2>2. totalCount \in Nat
    BY <2>1 DEF PagingInv, TypeOK
  <2>3. pc = "list" => offset \in 0 .. (i - 1) * Limit
    BY DEF PagingInv, TypeOK
  <2> QED
    BY <2>2, <2>3 DEF Rest
<1>9. RestCounted'
  <2> SUFFICES ASSUME pc = "list", ~degraded, 1 < i
               PROVE  Cardinality(stable' \ Found) <= removed' + Rest
    BY <1>1 DEF RestCounted
  <2>1. Cardinality(stable \ Found) <= removed + Rest
    BY DEF PagingInv, RestCounted
  <2> QED
    BY <1>6, <1>7, <1>8, <2>1
<1>10. FewMissed'
  <2> SUFFICES ASSUME pc \in {"batch", "keys", "done"}, ~degraded
               PROVE  Cardinality(stable' \ Found) < Limit + removed'
    BY <1>1 DEF FewMissed
  <2>1. Cardinality(stable \ Found) < Limit + removed
    BY DEF PagingInv, FewMissed
  <2> QED
    BY <1>6, <1>7, <2>1
<1>11. BatchesKeep'
  BY <1>1 DEF PagingInv, BatchesKeep
<1> QED
  BY <1>3, <1>4, <1>5, <1>9, <1>10, <1>11 DEF PagingInv

\* A new row moves old ones only away from the offset.
LEMMA RowAddedKeeps == ASSUME PagingInv, NEW r \in Rows, RowAdded(r) PROVE PagingInv'
<1>1. /\ r \notin ToSet(rows) /\ IndexChanged /\ removed' = removed /\ stable' = stable
      /\ UNCHANGED <<pc, loopVars, resourceIds, left, batch, legacyIds, degraded>>
  BY DEF RowAdded
<1>2. PICK k \in 1 .. Len(rows) + 1 : rows' = InsertAt(rows, k, r)
  BY DEF RowAdded
<1>3. rows \in Seq(Rows) /\ Len(rows) \in Nat /\ removed \in Nat /\ IsFiniteSet(stable)
  BY PagingAssumption, PartSmaller DEF PagingInv, TypeOK
<1>4. /\ rows' \in Seq(Rows) /\ Len(rows') = Len(rows) + 1
      /\ \A j \in 1 .. Len(rows') :
            rows'[j] = IF j < k THEN rows[j] ELSE IF j = k THEN r ELSE rows[j - 1]
  <2>1. rows \in Seq(Rows) /\ k \in 1 .. Len(rows) + 1 /\ r \in Rows
    BY <1>2, <1>3
  <2>2. /\ InsertAt(rows, k, r) \in Seq(Rows) /\ Len(InsertAt(rows, k, r)) = Len(rows) + 1
        /\ \A j \in 1 .. Len(rows) + 1 :
              InsertAt(rows, k, r)[j] =
                  IF j < k THEN rows[j] ELSE IF j = k THEN r ELSE rows[j - 1]
    BY <2>1, Inserted, Zenon
  <2> QED
    BY <1>2, <2>2, Zenon
<1>5. \A j \in 1 .. Len(rows) : rows[j] # r
  BY <1>1, <1>3, Listing
<1>6. \A a, b \in 1 .. Len(rows) : rows[a] = rows[b] => a = b
  BY <1>3 DEF PagingInv, RowsOnce, IsInjective
<1>7. IsInjective(rows')
  <2> SUFFICES ASSUME NEW a \in 1 .. Len(rows'), NEW b \in 1 .. Len(rows'), rows'[a] = rows'[b]
               PROVE  a = b
    BY <1>4 DEF IsInjective
  <2> DEFINE old(j) == IF j < k THEN j ELSE j - 1
  <2>1. \A j \in 1 .. Len(rows') : j # k => old(j) \in 1 .. Len(rows) /\ rows'[j] = rows[old(j)]
    BY <1>2, <1>3, <1>4
  <2>2. rows'[k] = r
    BY <1>2, <1>3, <1>4
  <2>3. (a = k) <=> (b = k)
    BY <1>5, <2>1, <2>2
  <2>4. a # k /\ b # k => old(a) = old(b)
    BY <1>6, <2>1
  <2> QED
    BY <1>2, <1>3, <1>4, <2>3, <2>4
<1>8. \A j \in 1 .. Len(rows) : \E l \in 1 .. Len(rows') : rows'[l] = rows[j]
  <2> TAKE j \in 1 .. Len(rows)
  <2>1. CASE j < k
    <3>1. j \in 1 .. Len(rows') /\ rows'[j] = rows[j]
      BY <1>2, <1>3, <1>4, <2>1
    <3> QED
      BY <3>1
  <2>2. CASE j >= k
    <3>1. j + 1 \in 1 .. Len(rows') /\ (j + 1) - 1 = j /\ ~(j + 1 < k) /\ j + 1 # k
      BY <1>2, <1>3, <1>4, <2>2
    <3>2. rows'[j + 1] = rows[j]
      BY <1>4, <3>1
    <3> QED
      BY <3>1, <3>2
  <2> QED
    BY <1>2, <1>3, <2>1, <2>2
<1>9. stable' \subseteq ToSet(rows')
  <2> SUFFICES ASSUME NEW x \in stable PROVE x \in ToSet(rows')
    BY <1>1
  <2>1. PICK j \in 1 .. Len(rows) : rows[j] = x
    BY <1>3, Listing DEF PagingInv, RowsOnce
  <2> QED
    BY <1>4, <1>8, <2>1, Listing
<1>10. pc = "list" => Passed' \subseteq Passed
  <2> SUFFICES ASSUME pc = "list", NEW x \in Passed' PROVE x \in Passed
    OBVIOUS
  <2>1. offset' = offset /\ offset \in Nat
    <3>1. offset \in 0 .. (i - 1) * Limit
      BY DEF PagingInv, TypeOK
    <3> QED
      BY <1>1, <3>1 DEF loopVars
  <2>2. x \in stable /\ \E j \in 1 .. Len(rows') : j <= offset /\ rows'[j] = x
    BY <1>1, <2>1 DEF Passed
  <2>3. PICK j \in 1 .. Len(rows') : j <= offset /\ rows'[j] = x
    BY <2>2
  <2>4. x # r
    BY <1>1, <2>2 DEF PagingInv, RowsOnce
  <2>5. CASE j < k
    <3>1. j \in 1 .. Len(rows) /\ rows[j] = x
      BY <1>2, <1>3, <1>4, <2>3, <2>5
    <3> QED
      BY <2>2, <2>3, <3>1 DEF Passed
  <2>6. CASE j > k
    <3>1. j - 1 \in 1 .. Len(rows) /\ ~(j < k) /\ j # k
      BY <1>2, <1>3, <1>4, <2>3, <2>6
    <3>2. rows[j - 1] = x /\ j - 1 <= offset
      BY <1>4, <2>1, <2>3, <3>1
    <3> QED
      BY <2>2, <3>1, <3>2 DEF Passed
  <2>7. j # k
    BY <1>2, <1>4, <2>3, <2>4
  <2> QED
    BY <1>2, <1>3, <1>4, <2>3, <2>5, <2>6, <2>7
<1>11. pc = "list" => Cardinality(Passed' \ Found) <= removed'
  <2> SUFFICES ASSUME pc = "list" PROVE Cardinality(Passed' \ Found) <= removed'
    OBVIOUS
  <2>1. Cardinality(Passed \ Found) <= removed
    BY DEF PagingInv, PassedFound
  <2>2. Passed \ Found \subseteq stable
    BY DEF Passed
  <2>3. IsFiniteSet(Passed \ Found) /\ Passed' \ Found \subseteq Passed \ Found
    BY <1>3, <1>10, <2>2, PartSmaller
  <2>4. /\ Cardinality(Passed' \ Found) \in Nat /\ Cardinality(Passed \ Found) \in Nat
        /\ Cardinality(Passed' \ Found) <= Cardinality(Passed \ Found)
    BY <2>3, PartSmaller
  <2> QED
    BY <1>1, <1>3, <2>1, <2>4
<1> QED
  BY <1>1, <1>3, <1>4, <1>7, <1>9, <1>11, IndexMoves

\* A row that goes moves at most one old row to the near side of the offset.
LEMMA RowRemovedKeeps ==
    ASSUME PagingInv, NEW k \in 1 .. Len(rows), RowRemoved(k) PROVE PagingInv'
<1>1. /\ IndexChanged /\ rows' = RemoveAt(rows, k)
      /\ removed' = removed + 1 /\ stable' = stable \ {rows[k]}
      /\ UNCHANGED <<pc, loopVars, resourceIds, left, batch, legacyIds, degraded>>
  BY DEF RowRemoved
<1>2. rows \in Seq(Rows) /\ Len(rows) \in Nat /\ removed \in Nat /\ IsFiniteSet(stable)
  BY PagingAssumption, PartSmaller DEF PagingInv, TypeOK
<1>3. /\ rows' \in Seq(Rows) /\ Len(rows') = Len(rows) - 1
      /\ \A j \in 1 .. Len(rows') : rows'[j] = IF j < k THEN rows[j] ELSE rows[j + 1]
  BY <1>1, <1>2, Cut
<1>4. \A a, b \in 1 .. Len(rows) : rows[a] = rows[b] => a = b
  BY <1>2 DEF PagingInv, RowsOnce, IsInjective
<1>5. IsInjective(rows')
  <2> SUFFICES ASSUME NEW a \in 1 .. Len(rows'), NEW b \in 1 .. Len(rows'), rows'[a] = rows'[b]
               PROVE  a = b
    BY <1>3 DEF IsInjective
  <2> DEFINE old(j) == IF j < k THEN j ELSE j + 1
  <2>1. \A j \in 1 .. Len(rows') : old(j) \in 1 .. Len(rows) /\ rows'[j] = rows[old(j)]
    BY <1>2, <1>3
  <2>2. old(a) = old(b)
    BY <1>4, <2>1
  <2> QED
    BY <1>2, <1>3, <2>2
<1>6. stable' \subseteq ToSet(rows')
  <2> SUFFICES ASSUME NEW x \in stable, x # rows[k] PROVE x \in ToSet(rows')
    BY <1>1
  <2>1. PICK j \in 1 .. Len(rows) : rows[j] = x
    BY <1>2, Listing DEF PagingInv, RowsOnce
  <2>2. CASE j < k
    <3>1. j \in 1 .. Len(rows') /\ rows'[j] = x
      BY <1>2, <1>3, <2>1, <2>2
    <3> QED
      BY <1>3, <3>1, Listing
  <2>3. CASE j > k
    <3>1. j - 1 \in 1 .. Len(rows') /\ ~(j - 1 < k) /\ (j - 1) + 1 = j
      BY <1>2, <1>3, <2>1, <2>3
    <3>2. rows'[j - 1] = x
      BY <1>3, <2>1, <3>1
    <3> QED
      BY <1>3, <3>1, <3>2, Listing
  <2>4. j # k
    BY <2>1
  <2> QED
    BY <1>2, <2>1, <2>2, <2>3, <2>4
<1>7. pc = "list" => Passed' \subseteq Passed \cup {rows[offset + 1]}
  <2> SUFFICES ASSUME pc = "list", NEW x \in Passed' PROVE x \in Passed \cup {rows[offset + 1]}
    OBVIOUS
  <2>1. offset' = offset /\ offset \in Nat
    <3>1. offset \in 0 .. (i - 1) * Limit
      BY DEF PagingInv, TypeOK
    <3> QED
      BY <1>1, <3>1 DEF loopVars
  <2>2. x \in stable /\ \E j \in 1 .. Len(rows') : j <= offset /\ rows'[j] = x
    BY <1>1, <2>1 DEF Passed
  <2>3. PICK j \in 1 .. Len(rows') : j <= offset /\ rows'[j] = x
    BY <2>2
  <2>4. CASE j < k
    <3>1. j \in 1 .. Len(rows) /\ rows[j] = x
      BY <1>2, <1>3, <2>3, <2>4
    <3> QED
      BY <2>2, <2>3, <3>1 DEF Passed
  <2>5. CASE ~(j < k)
    <3>1. j + 1 \in 1 .. Len(rows) /\ rows[j + 1] = x
      BY <1>2, <1>3, <2>3, <2>5
    <3>2. j + 1 <= offset \/ j + 1 = offset + 1
      BY <1>2, <2>1, <2>3
    <3> QED
      BY <2>2, <3>1, <3>2 DEF Passed
  <2> QED
    BY <2>4, <2>5
<1>8. pc = "list" => Cardinality(Passed' \ Found) <= removed'
  <2> SUFFICES ASSUME pc = "list" PROVE Cardinality(Passed' \ Found) <= removed'
    OBVIOUS
  <2> DEFINE one == {rows[offset + 1]}
  <2>1. Cardinality(Passed \ Found) <= removed
    BY DEF PagingInv, PassedFound
  <2>2. Passed \ Found \subseteq stable
    BY DEF Passed
  <2>3. IsFiniteSet(Passed \ Found) /\ Cardinality(Passed \ Found) \in Nat
    BY <1>2, <2>2, PartSmaller
  <2>4. IsFiniteSet(one) /\ Cardinality(one) = 1
    BY FS_Singleton
  <2>5. Passed' \ Found \subseteq (Passed \ Found) \cup one
    BY <1>7
  <2> HIDE DEF one
  <2>6. /\ Cardinality(Passed' \ Found) \in Nat
        /\ Cardinality(Passed' \ Found) <= Cardinality(Passed \ Found) + Cardinality(one)
    BY <2>3, <2>4, <2>5, UnionBound
  <2> QED
    BY <1>1, <1>2, <2>1, <2>3, <2>4, <2>6
<1>9. removed' \in Nat /\ removed <= removed' /\ stable' \subseteq stable
  BY <1>1, <1>2
<1> QED
  BY <1>1, <1>3, <1>5, <1>6, <1>8, <1>9, IndexMoves

-----------------------------------------------------------------------------
(***************************************************************************)
(* The theorems.                                                           *)
(***************************************************************************)
\* The invariant of the two loops holds whatever the sizes of the pages and batches,
\* the answers and the changes of the index.
THEOREM PagingInvariant == Spec => []PagingInv
<1>1. PagingInv /\ [Next]_vars => PagingInv'
  <2> SUFFICES ASSUME PagingInv, [Next]_vars PROVE PagingInv'
    OBVIOUS
  <2>1. CASE Sweep
    BY <2>1, ListPageKeeps, ListEndsKeeps, ListCutShortKeeps, NextBatchKeeps,
       LastBatchDoneKeeps, KeysPageKeeps, KeysEndKeeps, CallFailsKeeps DEF Sweep
  <2>2. CASE \E r \in Rows : RowAdded(r)
    BY <2>2, RowAddedKeeps
  <2>3. CASE \E k \in 1 .. Len(rows) : RowRemoved(k)
    BY <2>3, RowRemovedKeeps
  <2>4. CASE UNCHANGED vars
    BY <2>4 DEF vars, PagingInv, TypeOK, RowsOnce, TotalUnset, PassedFound, RestCounted,
       FewMissed, BatchesKeep, Found, Passed, Rest, Pending
  <2> QED
    BY <2>1, <2>2, <2>3, <2>4 DEF Next
<1> QED
  BY PagingStarts, <1>1, PTL DEF Spec

\* The loops keep within their rounds, the offset within the pages asked for, and a
\* batch within its size.
THEOREM PagingTyped == Spec => []TypeOK
<1>1. PagingInv => TypeOK
  BY DEF PagingInv
<1> QED
  BY PagingInvariant, <1>1, PTL

\* A sweep whose answers were right misses fewer of the legacy addresses that were there
\* all the time than a page holds, plus one for each row removed meanwhile.
THEOREM LittleIsMissed == Spec => []BoundedLoss
<1>1. PagingInv => BoundedLoss
  <2> SUFFICES ASSUME PagingInv, pc = "done", ~degraded
               PROVE  Cardinality((Gone \cap stable) \ legacyIds) < Limit + removed
    BY DEF BoundedLoss
  <2>1. ToSet(left) = {}
    BY DEF PagingInv, BatchesKeep, ToSet
  <2>2. (Gone \cap stable) \ legacyIds \subseteq stable \ Found
    BY <2>1 DEF PagingInv, BatchesKeep, Pending
  <2>3. IsFiniteSet(stable \ Found)
    BY PagingAssumption, PartSmaller DEF PagingInv, TypeOK
  <2>4. Cardinality(stable \ Found) < Limit + removed
    BY DEF PagingInv, FewMissed
  <2>5. Limit \in Nat /\ removed \in Nat
    BY PagingAssumption DEF PagingInv, TypeOK
  <2>6. /\ Cardinality((Gone \cap stable) \ legacyIds) \in Nat /\ Cardinality(stable \ Found) \in Nat
        /\ Cardinality((Gone \cap stable) \ legacyIds) <= Cardinality(stable \ Found)
    BY <2>2, <2>3, PartSmaller
  <2> QED
    BY <2>4, <2>5, <2>6
<1> QED
  BY PagingInvariant, <1>1, PTL
=============================================================================
