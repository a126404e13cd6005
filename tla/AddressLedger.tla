---------------------------- MODULE AddressLedger ----------------------------
(***************************************************************************)
(* Reconciler implements AddressBook, as long as the tag index does not    *)
(* lag.  The history variable lapsed records which addresses are for a     *)
(* node that has left: an address is for the node the controller was shown *)
(* when it allocated the address, or bound it anew, if that is the node    *)
(* that was there.                                                         *)
(***************************************************************************)
EXTENDS Reconciler

VARIABLE lapsed

ledgerVars == <<vars, lapsed>>

Owned(n) == {e \in Eips : Live(e) /\ eip[e].name = n}

Entry(n) == IF Owned(n) = {} THEN None ELSE CHOOSE e \in Owned(n) : TRUE

\* The node in the cache is the node at the API server, if not its last version.
ShownNow(n) == cache[n] # None /\ api[n] # None /\ cache[n].uid = api[n].uid

\* This step allocates the address of n, or starts to bind it.
Given(n) == \E e \in Eips :
    /\ eip'[e].name = n
    /\ \/ eip[e].status = "UNUSED" /\ eip'[e].status = "UNBIND"
       \/ eip[e].status = "UNBIND" /\ eip'[e].status = "BINDING"

StillLapsed(n) ==
    /\ Owned(n)' # {}
    /\ \/ api'[n] = None
       \/ n \in lapsed /\ ~(Given(n) /\ ShownNow(n))
       \/ Owned(n) = {} /\ ~ShownNow(n)

LedgerNext == Next /\ lapsed' = {n \in Nodes : StillLapsed(n)}

LedgerSpec == Init /\ lapsed = {} /\ [][LedgerNext]_ledgerVars

Book == INSTANCE AddressBook WITH
    Names <- Nodes,
    Addresses <- Eips,
    present <- {n \in Nodes : api[n] # None},
    entry <- [n \in Nodes |-> Entry(n)],
    used <- {e \in Eips : eip[e].status # "UNUSED"}

\* The controller keeps the book: one address per name, none used twice, and no address
\* taken from a node that stays, whatever is retried, lost, crashed or registered again.
BookSpec == Book!BookSpec
=============================================================================
