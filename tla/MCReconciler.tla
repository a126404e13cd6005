---------------------------- MODULE MCReconciler ----------------------------
(***************************************************************************)
(* Instances of Reconciler for TLC.                                        *)
(***************************************************************************)
EXTENDS Reconciler, TLC

CONSTANTS n1, n2, i1, i2, e1, e2, e3, w1, w2

\* One name, two instances that may carry it one after the other.
OneName == [i \in {i1, i2} |-> n1]
\* Two names, one instance each.
TwoNames == (i1 :> n1) @@ (i2 :> n2)

NoOthers == [i \in {i1, i2} |-> {}]
NoOthers1 == [i \in {i1} |-> {}]
OneName1 == [i \in {i1} |-> n1]
\* Instance i2 holds addresses of other kinds.
Others == (i1 :> {}) @@ (i2 :> {"WanIP", "HighQualityEIP"})

Symmetric == Permutations({e1, e2, e3}) \cup Permutations({w1, w2})

\* With TwoNames and NoOthers the two nodes may change places, with their instances.
ChangePlaces == (n1 :> n2) @@ (n2 :> n1) @@ (i1 :> i2) @@ (i2 :> i1)
SymmetricNodes == Permutations({e1, e2}) \cup Permutations({w1, w2}) \cup {ChangePlaces}
=============================================================================
