---------------------------- MODULE AnycastCloud ----------------------------
(***************************************************************************)
(* The Tencent Cloud services the controller drives: the VPC address API   *)
(* (AllocateAddresses, AssociateAddress, DisassociateAddress,              *)
(* ReleaseAddresses, DescribeAddresses) and the Tag API                    *)
(* (DescribeResourcesByTags, CreateTag).  None of this code is in the      *)
(* repository; it is modelled from the way pkg/controller/aia uses it:     *)
(* binding and unbinding are asynchronous (the code keeps returning errors *)
(* until the status is BIND or UNBIND), an address carries the tags it was *)
(* allocated with, and allocation fails until its tags have been created.  *)
(***************************************************************************)
CONSTANTS
    Nodes,              \* node names
    Instances,          \* CVM instance ids
    Eips,               \* address ids the account can be given; none is given twice
    NameOf,             \* NameOf[i]: the node name under which instance i registers
    OtherEip,           \* OtherEip[i]: types of the addresses instance i holds that are not the controller's
    ProcessingEipType,  \* the configured address type (MangerImp.ProcessingEipType)
    TagLag,             \* may the tag index lag behind allocations and releases?
    None                \* the absent value

AddressTypes == {"AnycastEIP", "HighQualityEIP", "EIP", "WanIP"}

ASSUME CloudAssumption ==
    /\ NameOf \in [Instances -> Nodes]
    /\ OtherEip \in [Instances -> SUBSET (AddressTypes \ {ProcessingEipType})]
    /\ ProcessingEipType \in AddressTypes \ {"WanIP"}
    /\ TagLag \in BOOLEAN
    /\ None \notin Nodes \cup Instances \cup Eips

VARIABLES
    eip,        \* eip[e]: the address as DescribeAddresses reports it, with its tags
    indexed,    \* the addresses DescribeResourcesByTags finds
    tagReady,   \* <<name, instance>> pairs whose tag values have all been created
    destroyed   \* instances that no longer exist

cloudVars == <<eip, indexed, tagReady, destroyed>>

Status == {"UNUSED", "UNBIND", "BINDING", "BIND", "UNBINDING", "RELEASED"}

Address == [status : Status,
            name   : Nodes \cup {None},         \* tag aia-node-name
            insTag : Instances \cup {None},     \* tag aia-node-ins-id
            ins    : Instances \cup {None}]     \* InstanceId

CloudTypeOK ==
    /\ eip \in [Eips -> Address]
    /\ indexed \in SUBSET Eips
    /\ tagReady \in SUBSET (Nodes \X (Instances \cup {None}))
    /\ destroyed \in SUBSET Instances

CloudInit ==
    /\ eip = [e \in Eips |-> [status |-> "UNUSED", name |-> None, insTag |-> None, ins |-> None]]
    /\ indexed = {}
    /\ tagReady = {}
    /\ destroyed = {}

(***************************************************************************)
(* Queries.                                                                *)
(***************************************************************************)
Live(e) == eip[e].status \notin {"UNUSED", "RELEASED"}

\* DescribeResourcesByTags with the cluster's uuid and a node name.
RowsByTags(n) == {e \in indexed : eip[e].name = n}

\* DescribeAddresses filtered by instance-id: the controller's own addresses.
BoundTo(i) == {e \in Eips : eip[e].status = "BIND" /\ eip[e].ins = i /\ i # None}

\* DescribeAddresses filtered by instance-id: everybody else's.
OthersOn(i) == IF i = None THEN {} ELSE OtherEip[i]

(***************************************************************************)
(* Calls that take effect.  A call that is refused leaves the cloud as it  *)
(* was; the caller sees an error.                                          *)
(***************************************************************************)
AllocateAddresses(e, n, i) ==
    /\ eip[e].status = "UNUSED"
    /\ <<n, i>> \in tagReady
    /\ eip' = [eip EXCEPT ![e] = [status |-> "UNBIND", name |-> n, insTag |-> i, ins |-> None]]
    /\ indexed' = IF TagLag THEN indexed ELSE indexed \cup {e}
    /\ UNCHANGED <<tagReady, destroyed>>

AssociateAddress(e, i) ==
    /\ eip[e].status = "UNBIND"
    /\ i \in Instances \ destroyed
    /\ eip' = [eip EXCEPT ![e].status = "BINDING", ![e].ins = i]
    /\ UNCHANGED <<indexed, tagReady, destroyed>>

DisassociateAddress(e) ==
    /\ eip[e].status = "BIND"
    /\ eip' = [eip EXCEPT ![e].status = "UNBINDING"]
    /\ UNCHANGED <<indexed, tagReady, destroyed>>

ReleaseAddresses(e) ==
    /\ eip[e].status = "UNBIND"
    /\ eip' = [eip EXCEPT ![e].status = "RELEASED"]
    /\ indexed' = IF TagLag THEN indexed ELSE indexed \ {e}
    /\ UNCHANGED <<tagReady, destroyed>>

\* One call for several addresses: refused as a whole unless all are UNBIND.
ReleaseAll(s) ==
    /\ \A e \in s : eip[e].status = "UNBIND"
    /\ eip' = [e \in Eips |-> IF e \in s THEN [eip[e] EXCEPT !.status = "RELEASED"] ELSE eip[e]]
    /\ indexed' = IF TagLag THEN indexed ELSE indexed \ s
    /\ UNCHANGED <<tagReady, destroyed>>

CreateTags(n, i) ==
    /\ tagReady' = tagReady \cup {<<n, i>>}
    /\ UNCHANGED <<eip, indexed, destroyed>>

(***************************************************************************)
(* What the cloud does by itself.                                          *)
(***************************************************************************)
\* The association task ends; an instance destroyed meanwhile loses the address.
BindingDone(e) ==
    /\ eip[e].status = "BINDING"
    /\ eip' = [eip EXCEPT ![e] = IF @.ins \in destroyed
                                   THEN [@ EXCEPT !.status = "UNBIND", !.ins = None]
                                   ELSE [@ EXCEPT !.status = "BIND"]]
    /\ UNCHANGED <<indexed, tagReady, destroyed>>

UnbindingDone(e) ==
    /\ eip[e].status = "UNBINDING"
    /\ eip' = [eip EXCEPT ![e].status = "UNBIND", ![e].ins = None]
    /\ UNCHANGED <<indexed, tagReady, destroyed>>

\* An instance is destroyed; addresses bound to it become free.
InstanceDestroyed(i) ==
    /\ i \notin destroyed
    /\ destroyed' = destroyed \cup {i}
    /\ eip' = [e \in Eips |-> IF eip[e].status = "BIND" /\ eip[e].ins = i
                                THEN [eip[e] EXCEPT !.status = "UNBIND", !.ins = None]
                                ELSE eip[e]]
    /\ UNCHANGED <<indexed, tagReady>>

\* The tag index catches up with one allocation or one release.
TagIndexUpdated(e) ==
    /\ Live(e) # (e \in indexed)
    /\ indexed' = IF Live(e) THEN indexed \cup {e} ELSE indexed \ {e}
    /\ UNCHANGED <<eip, tagReady, destroyed>>

CloudNext ==
    \/ \E e \in Eips : BindingDone(e) \/ UnbindingDone(e) \/ TagIndexUpdated(e)
    \/ \E i \in Instances : InstanceDestroyed(i)
=============================================================================
