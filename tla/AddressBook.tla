----------------------------- MODULE AddressBook -----------------------------
(***************************************************************************)
(* What the controller promises about names and addresses: a book with at  *)
(* most one address per name.  An address is entered once and for one      *)
(* name; it is not moved to another name, nor entered again.  While the    *)
(* node it was entered for stays, the address is not struck out.           *)
(***************************************************************************)
CONSTANTS Names, Addresses, None

VARIABLES
    present,    \* names whose node exists
    entry,      \* entry[n]: the address of name n, or None
    used,       \* addresses that have ever been entered
    lapsed      \* names whose address is for a node that has left

bookVars == <<present, entry, used, lapsed>>

BookInit ==
    /\ present = {}
    /\ entry = [n \in Names |-> None]
    /\ used = {}
    /\ lapsed = {}

Join(n) ==
    /\ n \notin present
    /\ present' = present \cup {n}
    /\ UNCHANGED <<entry, used, lapsed>>

Leave(n) ==
    /\ n \in present
    /\ present' = present \ {n}
    /\ lapsed' = IF entry[n] = None THEN lapsed ELSE lapsed \cup {n}
    /\ UNCHANGED <<entry, used>>

\* The node may have left by the time its address is entered.
Enter(n, a) ==
    /\ entry[n] = None
    /\ a \notin used
    /\ entry' = [entry EXCEPT ![n] = a]
    /\ used' = used \cup {a}
    /\ \/ n \in present /\ UNCHANGED lapsed
       \/ lapsed' = lapsed \cup {n}
    /\ UNCHANGED present

\* The address is given to the next node of the name.
Renew(n) ==
    /\ n \in present \cap lapsed
    /\ lapsed' = lapsed \ {n}
    /\ UNCHANGED <<present, entry, used>>

Strike(n) ==
    /\ n \in lapsed
    /\ entry' = [entry EXCEPT ![n] = None]
    /\ lapsed' = lapsed \ {n}
    /\ UNCHANGED <<present, used>>

BookNext ==
    \E n \in Names : \/ Join(n) \/ Leave(n) \/ Renew(n) \/ Strike(n)
                     \/ \E a \in Addresses : Enter(n, a)

BookSpec == BookInit /\ [][BookNext]_bookVars
=============================================================================
