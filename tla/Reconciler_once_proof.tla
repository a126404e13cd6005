------------------------- MODULE Reconciler_once_proof -------------------------
(***************************************************************************)
(* What the controller promises about nodes whose name is registered once, *)
(* proved of Reconciler for every number of nodes, instances, addresses,   *)
(* workers and crashes, and whether or not the tag index lags:             *)
(*   OthersLeftAlone    Spec => []OthersRespected                          *)
(*   OpenMeansBound     Spec => []OpenOnlyWhenBound                        *)
(*   AnnotationsLive    Spec => []AnnotationCurrent                        *)
(* and, when the index does not lag,                                       *)
(*   BindingTainted     Spec => []TaintedWhileBinding                      *)
(* The code never checks that the node it patches is the one it read.  It  *)
(* gets away with that because a name leads to one instance: OnceInv says  *)
(* how every copy of a node, and every address, agrees with the node.      *)
(***************************************************************************)
EXTENDS Reconciler_safety_proof

\* The name is in use, or the controller still works on it.
Known(n) == api[n] # None \/ cache[n] # None \/ n \in dirty \cup processing

\* A name whose node or address exists has been registered, once.
RegisteredOnce ==
    /\ \A n \in Nodes : Known(n) => born[n] >= 1
    /\ \A e \in Eips : eip[e].status # "UNUSED" => born[eip[e].name] >= 1
    /\ \A n \in Nodes : /\ api[n] # None => api[n].uid = 1
                        /\ cache[n] # None => cache[n].uid = 1

\* The instance a copy of node n names is the one of the name, and of the node.
InsRight(o, n) ==
    o.ins # None => NameOf[o.ins] = n /\ (api[n] # None => api[n].ins = o.ins)

\* The annotation a copy of node n carries is an address of n, alive while the node is there.
AnnoRight(o, n) ==
    o.anno # None => /\ eip[o.anno].name = n
                     /\ api[n] # None => Live(o.anno)
                     /\ o.ins # None

\* Both copies of a node; a queued one is shown, with its instance.
NodeRight(n) ==
    /\ api[n] # None => InsRight(api[n], n) /\ AnnoRight(api[n], n)
    /\ cache[n] # None => InsRight(cache[n], n) /\ AnnoRight(cache[n], n)
    /\ n \in dirty \cup processing => /\ api[n] # None => cache[n] # None
                                      /\ cache[n] # None => cache[n].ins # None

\* An address is bound to the instance of its name, which holds none of somebody else.
BoundRight(e) ==
    eip[e].status \in {"BINDING", "BIND"} =>
        /\ eip[e].ins \in Instances
        /\ NameOf[eip[e].ins] = eip[e].name
        /\ api[eip[e].name] # None => api[eip[e].name].ins = eip[e].ins
        /\ OtherEip[eip[e].ins] = {}

IndexedNamed == \A e \in indexed : eip[e].status # "UNUSED"

\* What OnceInv says of the nodes and of the cloud.
World ==
    /\ NamesKept /\ IndexedNamed /\ RegisteredOnce
    /\ \A n \in Nodes : NodeRight(n)
    /\ \A e \in Eips : BoundRight(e)
    /\ OpenOnlyWhenBound

\* The calls on the way to an association, made for instances that hold nothing else.
Binding == {"tags", "allocate", "createTags", "describeEip", "associate"}

\* What a worker knows, and what stays true of it while others act.
WorkerRight(w) ==
    /\ pc[w] \in GoneCalls => api[key[w]] = None
    /\ pc[w] \in NodeCalls => /\ node[w].ins # None
                              /\ InsRight(node[w], key[w])
                              /\ AnnoRight(node[w], key[w])
    /\ pc[w] \in Binding \cup {"taint"} => OtherEip[node[w].ins] = {}
    /\ pc[w] \in Holding \cup {"untaint"} => cur[w] \in Eips /\ eip[cur[w]].name = key[w]
    /\ pc[w] = "untaint" /\ api[key[w]] # None =>
           /\ Live(cur[w])
           /\ node[w].ins \notin destroyed => BoundTo(node[w].ins) # {}

OnceInv == TypeInv /\ World /\ \A w \in Workers : WorkerRight(w)

\* A copy that is tainted when the node is not: the controller has opened the node since.
OpenedSince(o, n) == o.taint /\ api[n] # None /\ ~api[n].taint => api[n].anno # None

\* What a worker knows of the taint.
TaintRight(w) ==
    /\ pc[w] \in NodeCalls => OpenedSince(node[w], key[w])
    /\ pc[w] \in Binding /\ api[key[w]] # None => api[key[w]].taint \/ node[w].ins \in destroyed
    /\ pc[w] = "untaint" => \A e \in Eips : eip[e].name = key[w] => eip[e].status # "BINDING"

TaintInv ==
    /\ TaintedWhileBinding
    /\ \A n \in Nodes : cache[n] # None => OpenedSince(cache[n], n)
    /\ \A w \in Workers : TaintRight(w)

-----------------------------------------------------------------------------
(***************************************************************************)
(* How the nodes and the cloud change while the controller works on a name.*)
(***************************************************************************)

\* The address is alive after the step.
LiveNext(e) == eip'[e].status \notin {"UNUSED", "RELEASED"}

\* A node that is there was there, and keeps its instance; what is known of its addresses
\* stays true.
Evolves ==
    /\ NamesStay
    /\ destroyed \subseteq destroyed'
    /\ \A n \in Nodes : born[n] >= 1 /\ api'[n] # None =>
          api[n] # None /\ (api[n].ins # None => api'[n].ins = api[n].ins)
    /\ \A e \in Eips : Live(e) /\ api'[eip[e].name] # None => LiveNext(e)
    /\ \A e \in Eips :
          eip[e].status = "BIND" /\ eip[e].ins \notin destroyed' /\ api'[eip[e].name] # None =>
              eip'[e].status = "BIND" /\ eip'[e].ins = eip[e].ins

\* The key of a worker is a name in use.
LEMMA KeyKnown ==
    ASSUME OnceInv, NEW w \in Workers, Busy(w)
    PROVE  key[w] \in Nodes /\ key[w] \in processing /\ Known(key[w]) /\ born[key[w]] >= 1
BY DEF OnceInv, TypeInv, QueueInv, WorkersOK, World, RegisteredOnce, Known

LEMMA OnceEvolves ==
    ASSUME MaxIncarnations = 1, OnceInv, Next
    PROVE  Evolves
<1>1. TypeInv /\ NamesKept /\ (\A e \in Eips : AddressStep(e)) /\ \A n \in Nodes : NodeStep(n)
  BY NextAddresses, NextNodes DEF OnceInv, World, AddressSteps, NodeSteps
<1>2. NamesStay /\ destroyed \subseteq destroyed'
  BY <1>1, NextNames, NextAddresses DEF AddressSteps
<1>3. ASSUME NEW n \in Nodes, born[n] >= 1, api'[n] # None
      PROVE  api[n] # None /\ (api[n].ins # None => api'[n].ins = api[n].ins)
  BY <1>1, <1>3 DEF NodeStep, TypeInv, NodesType
<1>4. ASSUME NEW e \in Eips, NEW w \in Workers, pc[w] \in {"disassociate", "release"}, cur[w] = e
      PROVE  api'[eip[e].name] = None
  <2>1. eip[e].name = key[w] /\ api[key[w]] = None
    BY <1>4 DEF OnceInv, WorkerRight, GoneCalls, Holding
  <2>2. key[w] \in Nodes /\ born[key[w]] >= 1
    BY <1>4, KeyKnown DEF Busy
  <2> QED BY <1>3, <2>1, <2>2
<1>5. \A e \in Eips : Live(e) /\ api'[eip[e].name] # None => LiveNext(e)
  BY <1>1, <1>4 DEF AddressStep, Live, LiveNext
<1>6. ASSUME NEW e \in Eips, eip[e].status = "BIND", eip[e].ins \notin destroyed',
             api'[eip[e].name] # None
      PROVE  eip'[e].status = "BIND" /\ eip'[e].ins = eip[e].ins
  BY <1>1, <1>4, <1>6 DEF AddressStep
<1> QED BY <1>2, <1>3, <1>5, <1>6 DEF Evolves

\* An instance whose node is there keeps its address.
LEMMA BoundStays ==
    ASSUME OnceInv, Evolves, NEW i \in Instances, i \notin destroyed', BoundTo(i) # {},
           api'[NameOf[i]] # None
    PROVE  BoundTo(i)' # {}
<1>1. PICK e \in Eips : eip[e].status = "BIND" /\ eip[e].ins = i /\ i # None
  BY DEF BoundTo
<1>2. eip[e].name = NameOf[i]
  BY <1>1 DEF OnceInv, World, BoundRight
<1>3. eip'[e].status = "BIND" /\ eip'[e].ins = i
  BY <1>1, <1>2 DEF Evolves
<1> QED BY <1>1, <1>3 DEF BoundTo

\* An address that carries the name of a node stays with it.
LEMMA NamedStays ==
    ASSUME OnceInv, Evolves, NEW e \in Eips, NEW n \in Nodes, eip[e].name = n
    PROVE  eip'[e].name = n /\ (Live(e) /\ api'[n] # None => LiveNext(e))
<1>1. eip[e].status # "UNUSED"
  BY CloudAssumption DEF OnceInv, World, NamesKept
<1> QED BY <1>1 DEF Evolves, NamesStay
-----------------------------------------------------------------------------
(***************************************************************************)
(* The nodes and the cloud keep agreeing.                                  *)
(***************************************************************************)

\* What is in use stays registered, for the first time.
LEMMA RegisteredNext ==
    ASSUME MaxIncarnations = 1, OnceInv, Next
    PROVE  NamesKept' /\ IndexedNamed' /\ RegisteredOnce'
<1>1. TypeInv /\ World /\ (\A e \in Eips : AddressStep(e)) /\ NamesStay /\ IndexNamed
  BY NextAddresses, NextNames DEF OnceInv, AddressSteps
<1>2. \A n \in Nodes : NodeStep(n) /\ CacheStep(n)
  BY <1>1, NextNodes DEF NodeSteps
<1>3. ASSUME NEW e \in Eips, NEW w \in Workers, eip[e].status = "UNUSED", pc[w] = "allocate",
             eip'[e].name = key[w]
      PROVE  key[w] \in Nodes /\ key[w] # None /\ born[key[w]] >= 1
  BY <1>3, KeyKnown, CloudAssumption DEF Busy
<1>4. NamesKept'
  BY <1>1, <1>3 DEF AddressStep, World, NamesKept
<1>5. IndexedNamed'
  BY <1>1, TypeNext DEF World, IndexedNamed, IndexNamed, NamesStay, TypeInv, CloudTypeOK
<1>6. ASSUME NEW n \in Nodes
      PROVE  /\ born[n] \in Nat /\ born'[n] \in Nat /\ born'[n] >= born[n]
             /\ Known(n)' => born'[n] >= 1
             /\ api'[n] # None => api'[n].uid = 1
             /\ cache'[n] # None => cache'[n].uid = 1
  <2>1. born[n] \in Nat /\ (Known(n) => born[n] >= 1) /\ (api[n] # None => api[n].uid = 1)
        /\ (cache[n] # None => cache[n].uid = 1)
    BY <1>1 DEF TypeInv, NodesType, World, RegisteredOnce
  <2>2. /\ born'[n] \in Nat /\ born'[n] >= born[n]
        /\ api'[n] # None => born'[n] >= 1 /\ api'[n].uid = 1
    BY <1>2, <2>1 DEF NodeStep, Known
  <2>3. cache'[n] # None => (api[n] # None \/ cache[n] # None) /\ cache'[n].uid = 1
    BY <1>2, <2>1 DEF CacheStep
  <2>4. n \in dirty' \cup processing' => Known(n)
    BY <1>2 DEF CacheStep, Queue, Known
  <2> QED BY <2>1, <2>2, <2>3, <2>4 DEF Known
<1>7. ASSUME NEW e \in Eips, eip'[e].status # "UNUSED"
      PROVE  born'[eip'[e].name] >= 1
  <2>1. eip'[e].name \in Nodes /\ born[eip'[e].name] >= 1
    <3>1. CASE eip[e].status = "UNUSED"
      BY <1>1, <1>3, <1>7, <3>1 DEF AddressStep
    <3>2. CASE eip[e].status # "UNUSED"
      BY <1>1, <3>2 DEF NamesStay, World, RegisteredOnce, NamesKept, TypeInv, CloudTypeOK, Address
    <3> QED BY <3>1, <3>2
  <2> QED BY <1>6, <2>1
<1> QED BY <1>4, <1>5, <1>6, <1>7 DEF RegisteredOnce

\* A copy of a node goes on agreeing with it, whatever becomes of the node.
LEMMA CopyStays ==
    ASSUME OnceInv, Evolves, NEW n \in Nodes, born[n] >= 1, NEW o \in NodeObject,
           InsRight(o, n), AnnoRight(o, n)
    PROVE  /\ o.ins # None => NameOf[o.ins] = n /\ (api'[n] # None => api'[n].ins = o.ins)
           /\ o.anno # None => /\ eip'[o.anno].name = n /\ o.ins # None
                               /\ api'[n] # None => LiveNext(o.anno)
<1>1. o.ins # None => NameOf[o.ins] = n /\ (api'[n] # None => api'[n].ins = o.ins)
  BY DEF InsRight, Evolves
<1>2. ASSUME o.anno # None
      PROVE  eip'[o.anno].name = n /\ o.ins # None /\ (api'[n] # None => LiveNext(o.anno))
  <2>1. o.anno \in Eips /\ eip[o.anno].name = n /\ o.ins # None /\ (api[n] # None => Live(o.anno))
    BY <1>2 DEF NodeObject, AnnoRight
  <2>2. api'[n] # None => api[n] # None
    BY DEF Evolves
  <2> QED BY <2>1, <2>2, NamedStays
<1> QED BY <1>1, <1>2

\* A patch writes what is right.
LEMMA NodeRightNext ==
    ASSUME MaxIncarnations = 1, OnceInv, Next, NEW n \in Nodes
    PROVE  NodeRight(n)'
<1>1. TypeInv /\ World /\ Evolves /\ NodeStep(n) /\ CacheStep(n) /\ NodeRight(n)
  BY OnceEvolves, NextNodes DEF OnceInv, NodeSteps, World
<1>2. /\ api[n] \in NodeObject \cup {None} /\ cache[n] \in NodeObject \cup {None}
      /\ Known(n) => born[n] >= 1
      /\ api[n] # None => api[n].uid = 1
      /\ cache[n] # None => cache[n].uid = 1
  BY <1>1 DEF TypeInv, NodesType, World, RegisteredOnce
<1>3. ASSUME NEW o \in NodeObject, Known(n), InsRight(o, n), AnnoRight(o, n)
      PROVE  /\ o.ins # None => NameOf[o.ins] = n /\ (api'[n] # None => api'[n].ins = o.ins)
             /\ o.anno # None => /\ eip'[o.anno].name = n /\ o.ins # None
                                 /\ api'[n] # None => LiveNext(o.anno)
  BY <1>1, <1>2, <1>3, CopyStays
<1>4. ASSUME api'[n] # None
      PROVE  /\ api'[n].ins # None => NameOf[api'[n].ins] = n
             /\ api'[n].anno # None => /\ eip'[api'[n].anno].name = n /\ api'[n].ins # None
                                       /\ LiveNext(api'[n].anno)
  <2>1. CASE api'[n] = api[n]
    BY <1>1, <1>2, <1>3, <1>4, <2>1 DEF NodeRight, Known
  <2>2. CASE api[n] = None
    BY <1>1, <1>4, <2>2 DEF NodeStep
  <2>3. ASSUME api[n] # None, api'[n].anno = api[n].anno,
               \/ api'[n].ins = api[n].ins
               \/ api[n].ins = None /\ api'[n].ins \in Instances /\ NameOf[api'[n].ins] = n
        PROVE  /\ api'[n].ins # None => NameOf[api'[n].ins] = n
               /\ api'[n].anno # None => /\ eip'[api'[n].anno].name = n /\ api'[n].ins # None
                                         /\ LiveNext(api'[n].anno)
    BY <1>1, <1>2, <1>3, <1>4, <2>3 DEF NodeRight, Known
  <2>4. ASSUME api[n] # None, api'[n].ins = api[n].ins,
               NEW w \in Workers, key[w] = n, pc[w] = "untaint",
               api'[n].anno = IF node[w].anno = None THEN cur[w] ELSE node[w].anno
        PROVE  /\ api'[n].ins # None => NameOf[api'[n].ins] = n
               /\ api'[n].anno # None => /\ eip'[api'[n].anno].name = n /\ api'[n].ins # None
                                         /\ LiveNext(api'[n].anno)
    <3>1. /\ node[w] \in NodeObject /\ node[w].ins # None
          /\ InsRight(node[w], n) /\ AnnoRight(node[w], n)
          /\ cur[w] \in Eips /\ eip[cur[w]].name = n /\ Live(cur[w])
      BY <2>4, <1>1, WorkerHas DEF OnceInv, WorkerRight, Calls, NodeCalls
    <3>2. api[n].ins = node[w].ins
      BY <2>4, <3>1 DEF InsRight
    <3>3. eip'[cur[w]].name = n /\ LiveNext(cur[w])
      BY <1>1, <1>4, <3>1, NamedStays
    <3> QED BY <1>1, <1>2, <1>3, <1>4, <2>4, <3>1, <3>2, <3>3 DEF NodeRight, Known
  <2> QED BY <1>1, <1>4, <2>1, <2>2, <2>3, <2>4 DEF NodeStep
<1>5. ASSUME cache'[n] # None
      PROVE  /\ cache'[n].ins # None => /\ NameOf[cache'[n].ins] = n
                                        /\ api'[n] # None => api'[n].ins = cache'[n].ins
             /\ cache'[n].anno # None => /\ eip'[cache'[n].anno].name = n /\ cache'[n].ins # None
                                         /\ api'[n] # None => LiveNext(cache'[n].anno)
  <2>1. CASE cache'[n] = cache[n]
    BY <1>1, <1>2, <1>3, <1>5, <2>1 DEF NodeRight, Known
  <2>2. CASE cache'[n] = api'[n]
    BY <1>4, <1>5, <2>2
  <2> QED BY <1>1, <1>5, <2>1, <2>2 DEF CacheStep
<1>6. ASSUME n \in dirty' \cup processing'
      PROVE  (api'[n] # None => cache'[n] # None) /\ (cache'[n] # None => cache'[n].ins # None)
  <2>1. CASE cache'[n] = cache[n] /\ (n \in Queue' => n \in Queue)
    BY <1>1, <1>2, <1>6, <2>1 DEF NodeRight, Known, Queue, Evolves
  <2>2. CASE /\ api[n] # None /\ api'[n] = api[n] /\ cache'[n] = api[n]
             /\ n \in Queue' => n \in Queue \/ IsAiaNode(api[n])
    BY <1>1, <1>6, <2>2 DEF NodeRight, Queue, InsRight, IsAiaNode
  <2>3. CASE /\ cache[n] # None /\ cache'[n] = None /\ api'[n] = api[n]
             /\ api[n] # None => api[n].uid # cache[n].uid
    BY <1>2, <2>3
  <2>4. CASE cache'[n] = cache[n] /\ cache[n] # None /\ IsAiaNode(cache[n])
    BY <2>4 DEF IsAiaNode
  <2> QED BY <1>1, <1>6, <2>1, <2>2, <2>3, <2>4 DEF CacheStep, Queue
<1> QED BY <1>4, <1>5, <1>6 DEF NodeRight, InsRight, AnnoRight, Live, LiveNext

\* An association is sent for an instance of the name that holds nothing else.
LEMMA BoundRightNext ==
    ASSUME MaxIncarnations = 1, OnceInv, Next, NEW e \in Eips
    PROVE  BoundRight(e)'
<1>1. TypeInv /\ World /\ Evolves /\ AddressStep(e) /\ BoundRight(e)
  BY OnceEvolves, NextAddresses DEF OnceInv, AddressSteps, World
<1>2. SUFFICES ASSUME eip'[e].status \in {"BINDING", "BIND"}
               PROVE  /\ eip'[e].ins \in Instances /\ NameOf[eip'[e].ins] = eip'[e].name
                      /\ api'[eip'[e].name] # None => api'[eip'[e].name].ins = eip'[e].ins
                      /\ OtherEip[eip'[e].ins] = {}
  BY DEF BoundRight
<1>3. eip[e].status # "UNUSED" /\ eip'[e].name = eip[e].name
  BY <1>1, <1>2 DEF AddressStep, Evolves, NamesStay
<1>4. eip[e].name \in Nodes /\ born[eip[e].name] >= 1
  BY <1>1, <1>3 DEF World, RegisteredOnce, NamesKept, TypeInv, CloudTypeOK, Address
<1>5. ASSUME NEW i \in Instances, NameOf[i] = eip[e].name, OtherEip[i] = {}, eip'[e].ins = i,
             api[eip[e].name] # None => api[eip[e].name].ins = i
      PROVE  /\ eip'[e].ins \in Instances /\ NameOf[eip'[e].ins] = eip'[e].name
             /\ api'[eip'[e].name] # None => api'[eip'[e].name].ins = eip'[e].ins
             /\ OtherEip[eip'[e].ins] = {}
  BY <1>1, <1>3, <1>4, <1>5, CloudAssumption DEF Evolves
<1>6. CASE eip[e].status \in {"BINDING", "BIND"} /\ eip'[e].ins = eip[e].ins
  BY <1>1, <1>5, <1>6 DEF BoundRight
<1>7. ASSUME NEW w \in Workers, pc[w] = "associate", cur[w] = e,
             eip'[e].ins = node[w].ins, node[w].ins \in Instances \ destroyed
      PROVE  NameOf[node[w].ins] = eip[e].name /\ OtherEip[node[w].ins] = {}
             /\ (api[eip[e].name] # None => api[eip[e].name].ins = node[w].ins)
  BY <1>7, CloudAssumption DEF OnceInv, WorkerRight, NodeCalls, Binding, Holding, InsRight
<1> QED BY <1>1, <1>2, <1>5, <1>6, <1>7 DEF AddressStep

\* The taint is lifted by a worker that has seen the address bound.
LEMMA OpenNext ==
    ASSUME MaxIncarnations = 1, OnceInv, Next
    PROVE  OpenOnlyWhenBound'
<1>1. TypeInv /\ World /\ Evolves /\ \A n \in Nodes : NodeStep(n)
  BY OnceEvolves, NextNodes DEF OnceInv, NodeSteps
<1> SUFFICES ASSUME NEW n \in Nodes, api'[n] # None, api'[n].anno # None, ~api'[n].taint,
                    NEW i, api'[n].ins = i, i \notin destroyed'
             PROVE  BoundTo(i)' # {}
  BY DEF OpenOnlyWhenBound, BoundTo
<1>2. /\ api[n] \in NodeObject \cup {None}
      /\ api[n] # None => InsRight(api[n], n) /\ AnnoRight(api[n], n)
      /\ api[n] # None => born[n] >= 1
      /\ destroyed \subseteq destroyed'
  BY <1>1 DEF TypeInv, NodesType, World, NodeRight, RegisteredOnce, Known, Evolves
<1>3. i \in Instances /\ NameOf[i] = n /\ BoundTo(i) # {} => BoundTo(i)' # {}
  BY <1>1, BoundStays
<1>4. CASE api[n] # None /\ api'[n].taint = api[n].taint /\ api'[n].anno = api[n].anno
  <2>1. api[n].ins \in Instances /\ NameOf[api[n].ins] = n
    BY <1>2, <1>4, AnnoType, <1>1 DEF InsRight, AnnoRight, NodeObject
  <2>2. api'[n].ins = api[n].ins
    BY <1>1, <1>2, <1>4, <2>1, CloudAssumption DEF Evolves
  <2>3. BoundTo(api[n].ins) # {}
    BY <1>1, <1>2, <1>4, <2>2 DEF World, OpenOnlyWhenBound
  <2> QED BY <1>3, <2>1, <2>2, <2>3
<1>5. ASSUME api[n] # None, api'[n].ins = api[n].ins, NEW w \in Workers, key[w] = n, pc[w] = "untaint"
      PROVE  BoundTo(i)' # {}
  <2>1. /\ node[w] \in NodeObject /\ node[w].ins # None /\ InsRight(node[w], n)
        /\ node[w].ins \notin destroyed => BoundTo(node[w].ins) # {}
    BY <1>1, <1>5, WorkerHas DEF OnceInv, WorkerRight, Calls, NodeCalls
  <2>2. node[w].ins \in Instances /\ api[n].ins = node[w].ins /\ NameOf[node[w].ins] = n
    BY <1>5, <2>1 DEF InsRight, NodeObject
  <2> QED BY <1>2, <1>3, <1>5, <2>1, <2>2
<1> QED BY <1>1, <1>4, <1>5 DEF NodeStep

LEMMA WorldNext ==
    ASSUME MaxIncarnations = 1, OnceInv, Next
    PROVE  World'
BY RegisteredNext, NodeRightNext, BoundRightNext, OpenNext DEF World

-----------------------------------------------------------------------------
(***************************************************************************)
(* What a worker knows stays true, and each call adds what the next needs. *)
(***************************************************************************)

\* A reconcile that goes on knows what its next call needs.
LEMMA GoOn ==
    ASSUME OnceInv, Evolves, NEW w \in Workers, pc[w] \in Calls, NEW call \in Calls, NEW e,
           pc'[w] = call, cur'[w] = e, key'[w] = key[w], node'[w] = node[w],
           call \in GoneCalls => pc[w] \in GoneCalls,
           call \in Binding \cup {"taint"} => OtherEip[node[w].ins] = {},
           call \in Holding \cup {"untaint"} => e \in Eips /\ eip'[e].name = key[w],
           call = "untaint" /\ api'[key[w]] # None =>
               LiveNext(e) /\ (node[w].ins \notin destroyed' => BoundTo(node[w].ins) # {}),
           call \in NodeCalls => pc[w] \in NodeCalls
    PROVE  WorkerRight(w)'
<1>1. key[w] \in Nodes /\ born[key[w]] >= 1
  BY KeyKnown DEF Busy, Calls, GoneCalls, NodeCalls
<1>2. call \in GoneCalls => api'[key[w]] = None
  BY <1>1 DEF OnceInv, WorkerRight, Evolves
<1>3. ASSUME call \in NodeCalls
      PROVE  /\ node[w] \in NodeObject /\ node[w].ins \in Instances /\ node[w].ins # None
             /\ NameOf[node[w].ins] = key[w]
             /\ api'[key[w]] # None => api'[key[w]].ins = node[w].ins
             /\ node[w].anno # None => /\ eip'[node[w].anno].name = key[w]
                                       /\ api'[key[w]] # None => LiveNext(node[w].anno)
  <2>1. /\ node[w] \in NodeObject /\ node[w].ins # None
        /\ InsRight(node[w], key[w]) /\ AnnoRight(node[w], key[w])
    BY <1>3, WorkerHas DEF OnceInv, WorkerRight
  <2>2. node[w].ins \in Instances
    BY <2>1 DEF NodeObject
  <2> QED BY <1>1, <2>1, <2>2, CopyStays
<1>4. ASSUME call = "untaint", api'[key[w]] # None, node[w].ins \notin destroyed'
      PROVE  \E f \in Eips : eip'[f].status = "BIND" /\ eip'[f].ins = node[w].ins
  <2>1. node[w].ins \in Instances /\ NameOf[node[w].ins] = key[w] /\ BoundTo(node[w].ins) # {}
    BY <1>3, <1>4 DEF NodeCalls
  <2>2. PICK f \in Eips : eip[f].status = "BIND" /\ eip[f].ins = node[w].ins
    BY <2>1 DEF BoundTo
  <2>3. eip[f].name = key[w]
    BY <2>1, <2>2 DEF OnceInv, World, BoundRight
  <2> QED BY <1>4, <2>2, <2>3 DEF Evolves
<1> QED BY <1>2, <1>3, <1>4 DEF WorkerRight, InsRight, AnnoRight, Live, LiveNext, BoundTo

\* What a worker knows stays true while it waits.
LEMMA Waits ==
    ASSUME OnceInv, Evolves, NEW v \in Workers,
           pc'[v] = pc[v], key'[v] = key[v], node'[v] = node[v], cur'[v] = cur[v]
    PROVE  WorkerRight(v)'
<1>1. CASE pc[v] \in Calls
  <2>1. key[v] \in Nodes /\ born[key[v]] >= 1 /\ WorkerRight(v)
    BY <1>1, KeyKnown DEF Busy, Calls, GoneCalls, NodeCalls, OnceInv
  <2>2. pc[v] \in Holding \cup {"untaint"} => cur[v] \in Eips /\ eip'[cur[v]].name = key[v]
    BY <2>1, NamedStays DEF WorkerRight
  <2>3. ASSUME pc[v] = "untaint", api'[key[v]] # None
        PROVE  LiveNext(cur[v]) /\ (node[v].ins \notin destroyed' => BoundTo(node[v].ins) # {})
    <3>1. api[key[v]] # None
      BY <2>1, <2>3 DEF Evolves
    <3>2. cur[v] \in Eips /\ eip[cur[v]].name = key[v] /\ Live(cur[v])
      BY <2>1, <2>3, <3>1 DEF WorkerRight
    <3>3. node[v].ins \notin destroyed' => node[v].ins \notin destroyed
      BY DEF Evolves
    <3> QED BY <2>1, <2>3, <3>1, <3>2, <3>3, NamedStays DEF WorkerRight
  <2>4. pc[v] \in Binding \cup {"taint"} => OtherEip[node[v].ins] = {}
    BY <2>1 DEF WorkerRight
  <2> QED BY <1>1, <2>2, <2>3, <2>4, GoOn
<1>2. CASE pc[v] = "idle"
  BY <1>2 DEF WorkerRight, GoneCalls, NodeCalls, Binding, Holding
<1> QED BY <1>1, <1>2 DEF OnceInv, TypeInv, QueueInv

\* A worker without a key has nothing to know.
LEMMA Idles ==
    ASSUME NEW w \in Workers, pc'[w] = "idle"
    PROVE  WorkerRight(w)'
BY DEF WorkerRight, GoneCalls, NodeCalls, Binding, Holding

LEMMA Ends ==
    ASSUME TypeInv, NEW w \in Workers, Finish(w) \/ Retry(w)
    PROVE  WorkerRight(w)'
BY Idles DEF Finish, Retry, EndReconcile, TypeInv, QueueInv

\* What Goto does to the worker.
LEMMA GoesTo ==
    ASSUME TypeInv, NEW w \in Workers, NEW call, NEW e, Goto(w, call, e)
    PROVE  pc'[w] = call /\ cur'[w] = e /\ key'[w] = key[w] /\ node'[w] = node[w]
BY DEF Goto, TypeInv, QueueInv

\* Going on to a call that is not about an address.
LEMMA GoesFree ==
    ASSUME OnceInv, Evolves, NEW w \in Workers, pc[w] \in NodeCalls,
           NEW call \in {"taintStop", "taint", "tags", "allocate", "createTags"},
           Goto(w, call, None), call # "taintStop" => OtherEip[node[w].ins] = {}
    PROVE  WorkerRight(w)'
<1>1. call \in NodeCalls /\ call \in Calls /\ pc[w] \in Calls /\ call \notin GoneCalls
  BY DEF Calls, NodeCalls, GoneCalls
<1>2. call \notin Holding \cup {"untaint"} /\ (call \in Binding \cup {"taint"} => call # "taintStop")
  BY DEF Holding, Binding
<1>3. TypeInv
  BY DEF OnceInv
<1> HIDE DEF GoneCalls, NodeCalls
<1> QED BY <1>1, <1>2, <1>3, GoOn, GoesTo

\* Going on to a call about an address of the key.
LEMMA GoesHolding ==
    ASSUME OnceInv, Evolves, NEW w \in Workers, pc[w] \in Calls, NEW call \in Holding,
           NEW e \in Eips, Goto(w, call, e), eip'[e].name = key[w],
           call \in GoneCalls => pc[w] \in GoneCalls,
           call \in NodeCalls => pc[w] \in NodeCalls /\ OtherEip[node[w].ins] = {}
    PROVE  WorkerRight(w)'
<1>1. call \in Calls /\ call # "untaint" /\ (call \in Binding \cup {"taint"} => call \in NodeCalls)
  BY DEF Calls, NodeCalls, GoneCalls, Holding, Binding
<1> QED BY <1>1, GoOn, GoesTo DEF OnceInv

\* An address bound to the instance opens the node.
LEMMA Settles ==
    ASSUME OnceInv, Evolves, NEW w \in Workers, pc[w] \in NodeCalls, UNCHANGED eip,
           NEW e \in Eips, eip[e].status = "BIND", eip[e].ins = node[w].ins, Settle(w, e)
    PROVE  WorkerRight(w)'
<1>1. CASE Finish(w)
  BY <1>1, Ends DEF OnceInv
<1>2. CASE Goto(w, "untaint", e)
  <2>1. node[w].ins # None /\ InsRight(node[w], key[w])
    BY DEF OnceInv, WorkerRight
  <2>2. eip'[e].name = key[w] /\ LiveNext(e)
    BY <2>1 DEF OnceInv, World, BoundRight, InsRight, LiveNext
  <2>3. BoundTo(node[w].ins) # {}
    BY <2>1 DEF BoundTo
  <2>4. "untaint" \in Calls /\ "untaint" \in NodeCalls /\ "untaint" \notin GoneCalls
        /\ "untaint" \notin Binding \cup {"taint"} /\ pc[w] \in Calls
    BY DEF Calls, NodeCalls, GoneCalls, Binding
  <2>5. TypeInv
    BY DEF OnceInv
  <2> QED BY <1>2, <2>2, <2>3, <2>4, <2>5, GoOn, GoesTo
<1> QED BY <1>1, <1>2 DEF Settle

\* The copy a worker starts with is the cached one, which is there if the node is.
LEMMA StartRight ==
    ASSUME OnceInv, World', NEW w \in Workers, NEW n \in Nodes, Start(w, n)
    PROVE  WorkerRight(w)'
<1>1. /\ n \in processing' /\ key'[w] = n /\ node'[w] = cache'[n] /\ pc'[w] = FirstCall(cache'[n])
  BY DEF OnceInv, TypeInv, QueueInv, Start, KeepApi
<1>2. /\ api'[n] # None => cache'[n] # None
      /\ cache'[n] # None => /\ cache'[n].ins # None
                             /\ InsRight(cache[n], n)' /\ AnnoRight(cache[n], n)'
  BY <1>1 DEF World, NodeRight
<1>3. CASE cache'[n] = None
  BY <1>1, <1>2, <1>3 DEF FirstCall, WorkerRight, NodeCalls, Binding, Holding
<1>4. CASE cache'[n] # None
  BY <1>1, <1>2, <1>4
     DEF FirstCall, WorkerRight, GoneCalls, Binding, Holding, InsRight, AnnoRight, Live
<1> QED BY <1>3, <1>4

\* The reconcile of a name whose node is gone.
LEMMA GoneRight ==
    ASSUME OnceInv, Evolves, NEW w \in Workers,
           FindLegacy(w) \/ DescribeLegacy(w) \/ Disassociate(w) \/ Release(w)
    PROVE  WorkerRight(w)'
<1>1. /\ TypeInv /\ pc[w] \in GoneCalls /\ pc[w] \in Calls
      /\ {"describeGone", "disassociate", "release"} \subseteq GoneCalls \cap Holding
      /\ {"describeGone", "disassociate", "release"} \cap NodeCalls = {}
  BY DEF OnceInv, FindLegacy, DescribeLegacy, Disassociate, Release, Calls, GoneCalls, NodeCalls, Holding
<1>2. ASSUME NEW e \in Eips, eip[e].name = key[w],
             NEW call \in {"describeGone", "disassociate", "release"}, Goto(w, call, e)
      PROVE  WorkerRight(w)'
  <2>1. key[w] \in Nodes
    BY <1>1, WorkerHas
  <2> QED BY <1>1, <1>2, <2>1, NamedStays, GoesHolding
<1>3. CASE FindLegacy(w)
  <2>1. \A e \in RowsByTags(key[w]) : e \in Eips /\ eip[e].name = key[w]
    BY <1>1 DEF RowsByTags, TypeInv, CloudTypeOK
  <2> QED BY <1>1, <1>2, <1>3, <2>1, Ends DEF FindLegacy
<1>4. CASE DescribeLegacy(w) \/ Disassociate(w) \/ Release(w)
  <2>1. cur[w] \in Eips /\ eip[cur[w]].name = key[w]
    BY <1>4 DEF OnceInv, WorkerRight, Holding, DescribeLegacy, Disassociate, Release
  <2>2. \/ Goto(w, "disassociate", cur[w]) \/ Goto(w, "release", cur[w]) \/ Finish(w) \/ Retry(w)
    BY <1>4 DEF DescribeLegacy, Disassociate, Release
  <2> QED BY <1>1, <1>2, <2>1, <2>2, Ends
<1> QED BY <1>3, <1>4

\* Only an instance that holds nothing else passes the switch on the types.
LEMMA DescribeRight ==
    ASSUME OnceInv, Evolves, NEW w \in Workers, DescribeInstance(w)
    PROVE  WorkerRight(w)'
<1>1. TypeInv /\ pc[w] \in NodeCalls /\ UNCHANGED eip /\ node[w].ins # None
  BY DEF OnceInv, WorkerRight, DescribeInstance, NodeCalls, KeepCloud, cloudVars
<1>2. OthersOn(node[w].ins) = OtherEip[node[w].ins]
  BY <1>1 DEF OthersOn
<1>3. ASSUME TaintFirst(w, "taintStop", Finish(w))
      PROVE  WorkerRight(w)'
  BY <1>1, <1>3, Ends, GoesFree DEF TaintFirst
<1>4. ASSUME NEW e \in BoundTo(node[w].ins), Settle(w, e)
      PROVE  WorkerRight(w)'
  BY <1>1, <1>4, Settles DEF BoundTo
<1>5. ASSUME NEW e \in BoundTo(node[w].ins), JudgeType(w, ProcessingEipType, e)
      PROVE  WorkerRight(w)'
  BY <1>1, <1>3, <1>4, <1>5, Ends DEF JudgeType
<1>6. ASSUME NEW type \in OthersOn(node[w].ins), JudgeType(w, type, None)
      PROVE  WorkerRight(w)'
  <2>1. node[w] \in NodeObject
    BY <1>1, WorkerHas DEF Calls
  <2>2. type # ProcessingEipType
    BY <1>1, <1>2, <1>6, <2>1, CloudAssumption DEF NodeObject
  <2> QED BY <1>1, <1>3, <1>6, <2>2, Ends DEF JudgeType
<1>7. ASSUME OthersOn(node[w].ins) = {}, TaintFirst(w, "taint", Goto(w, "tags", None))
      PROVE  WorkerRight(w)'
  BY <1>1, <1>2, <1>7, GoesFree DEF TaintFirst
<1> QED BY <1>5, <1>6, <1>7 DEF DescribeInstance

\* The taint patch answers with the node itself.
LEMMA TaintsRight ==
    ASSUME OnceInv, World', Evolves, NEW w \in Workers, AddTaint(w)
    PROVE  WorkerRight(w)'
<1>1. /\ TypeInv /\ pc[w] = "taint" /\ key[w] \in Nodes /\ api[key[w]] # None
      /\ node[w].ins # None /\ OtherEip[node[w].ins] = {}
      /\ InsRight(node[w], key[w])
  BY KeyKnown DEF OnceInv, WorkerRight, AddTaint, PatchApi, NodeCalls, Busy
<1>2. CASE Retry(w)
  BY <1>1, <1>2, Ends
<1>3. CASE /\ pc' = [pc EXCEPT ![w] = "tags"] /\ node' = [node EXCEPT ![w] = api'[key[w]]]
           /\ UNCHANGED <<key, cur, dirty, processing>>
  <2>1. pc'[w] = "tags" /\ node'[w] = api'[key[w]] /\ key'[w] = key[w]
    BY <1>1, <1>3 DEF TypeInv, QueueInv
  <2>2. api[key[w]] \in NodeObject
    BY <1>1 DEF TypeInv, NodesType
  <2>3. api'[key[w]] = [api[key[w]] EXCEPT !.taint = TRUE, !.anno = api[key[w]].anno]
    BY <1>1, <2>2 DEF AddTaint, PatchApi, TypeInv, NodesType, NodeObject
  <2>4. api'[key[w]] \in NodeObject /\ api'[key[w]].ins = node[w].ins
    BY <1>1, <2>2, <2>3 DEF NodeObject, InsRight
  <2>5. InsRight(api[key[w]], key[w])' /\ AnnoRight(api[key[w]], key[w])'
    <3>1. api'[key[w]] # None
      BY <2>4, WatchAssumption
    <3> QED BY <1>1, <2>1, <3>1 DEF World, NodeRight, InsRight, AnnoRight, Live
  <2> QED BY <1>1, <2>1, <2>4, <2>5
          DEF WorkerRight, GoneCalls, Holding, InsRight, AnnoRight, Live
<1> QED BY <1>2, <1>3 DEF AddTaint

\* From the tags to the association.
LEMMA BindRight ==
    ASSUME OnceInv, Evolves, NEW w \in Workers,
           FindByTags(w) \/ Allocate(w) \/ DescribeAddress(w)
    PROVE  WorkerRight(w)'
<1>1. /\ TypeInv /\ pc[w] \in NodeCalls /\ pc[w] \in Calls /\ key[w] \in Nodes
      /\ OtherEip[node[w].ins] = {}
      /\ {"describeEip", "associate"} \subseteq NodeCalls \cap Holding
      /\ {"describeEip", "associate"} \cap GoneCalls = {}
  BY KeyKnown DEF OnceInv, WorkerRight, FindByTags, Allocate, DescribeAddress, Calls, GoneCalls,
        NodeCalls, Holding, Binding, Busy
<1>2. ASSUME NEW e \in Eips, eip'[e].name = key[w], NEW call \in {"describeEip", "associate"},
             Goto(w, call, e)
      PROVE  WorkerRight(w)'
  BY <1>1, <1>2, GoesHolding
<1>3. CASE FindByTags(w)
  <2>1. \A e \in RowsByTags(key[w]) : e \in Eips /\ eip'[e].name = key[w]
    BY <1>1, NamedStays DEF RowsByTags, TypeInv, CloudTypeOK
  <2> QED BY <1>1, <1>2, <1>3, <2>1, GoesFree DEF FindByTags
<1>4. CASE Allocate(w)
  <2>1. PICK e \in Eips : /\ AllocateAddresses(e, key[w], node[w].ins)
                          /\ \/ Goto(w, "describeEip", e) \/ Goto(w, "createTags", None) \/ Retry(w)
    BY <1>4 DEF Allocate
  <2>2. eip'[e].name = key[w]
    BY <1>1, <2>1 DEF AllocateAddresses, TypeInv, CloudTypeOK
  <2> QED BY <1>1, <1>2, <2>1, <2>2, Ends, GoesFree
<1>5. CASE DescribeAddress(w)
  <2>1. cur[w] \in Eips /\ eip'[cur[w]].name = key[w] /\ UNCHANGED eip
    BY <1>1, <1>5, NamedStays DEF OnceInv, WorkerRight, DescribeAddress, Holding, KeepCloud, cloudVars
  <2>2. \/ eip[cur[w]].status = "BIND" /\ eip[cur[w]].ins = node[w].ins /\ Settle(w, cur[w])
        \/ Goto(w, "associate", cur[w])
        \/ Retry(w)
    BY <1>5 DEF DescribeAddress
  <2> QED BY <1>1, <1>2, <2>1, <2>2, Ends, Settles
<1> QED BY <1>3, <1>4, <1>5

\* A call that fails, and the calls that end the reconcile.
LEMMA EndsRight ==
    ASSUME OnceInv, Evolves, NEW w \in Workers,
           \/ RejectTerminating(w) \/ AddTaintAndStop(w) \/ RemoveTaint(w)
           \/ CreateMissingTags(w) \/ Associate(w) \/ ApiError(w)
    PROVE  WorkerRight(w)'
<1>1. TypeInv
  BY DEF OnceInv
<1>2. CASE pc[w] = "allocate" /\ Goto(w, "createTags", None)
  BY <1>2, GoesFree DEF OnceInv, WorkerRight, Binding, NodeCalls
<1> QED BY <1>1, <1>2, Ends
        DEF RejectTerminating, AddTaintAndStop, RemoveTaint, CreateMissingTags, Associate, ApiError

\* Every worker keeps knowing what it must.
LEMMA WorkersNext ==
    ASSUME OnceInv, World', Evolves, Next, NEW v \in Workers
    PROVE  WorkerRight(v)'
<1>1. ASSUME NEW w \in Workers, WorkerStep(w)
      PROVE  WorkerRight(v)'
  <2>1. CASE v = w
    BY <1>1, <2>1, StartRight, GoneRight, DescribeRight, TaintsRight, BindRight, EndsRight
       DEF WorkerStep
  <2>2. CASE v # w
    BY <1>1, <2>2, OneWorker, Waits DEF OnceInv
  <2> QED BY <2>1, <2>2
<1>2. CASE UNCHANGED workerVars
  BY <1>2, Waits DEF workerVars
<1>3. CASE Crash
  BY <1>3, Idles DEF Crash
<1> QED BY <1>1, <1>2, <1>3 DEF Next

LEMMA OnceInit == Init => OnceInv
<1> SUFFICES ASSUME Init PROVE OnceInv
  OBVIOUS
<1>1. TypeInv
  BY TypeInit
<1>2. World
  BY CloudAssumption DEF Init, CloudInit, WatchInit, World, NamesKept, IndexedNamed, RegisteredOnce, Known,
        NodeRight, BoundRight, OpenOnlyWhenBound
<1>3. \A w \in Workers : WorkerRight(w)
  BY DEF Init, WorkerRight, GoneCalls, NodeCalls, Binding, Holding
<1> QED BY <1>1, <1>2, <1>3 DEF OnceInv

\* A step that changes nothing.
LEMMA OnceStutters ==
    ASSUME OnceInv, UNCHANGED vars
    PROVE  OnceInv'
<1>1. TypeInv'
  BY TypeNext DEF OnceInv
<1> USE DEF vars, cloudVars, watchVars, workerVars
<1>2. World'
  BY DEF OnceInv, World, NamesKept, IndexedNamed, RegisteredOnce, Known, NodeRight, InsRight, AnnoRight,
        Live, BoundRight, OpenOnlyWhenBound, BoundTo
<1>3. \A w \in Workers : WorkerRight(w)'
  BY DEF OnceInv, WorkerRight, InsRight, AnnoRight, Live, BoundTo
<1> QED BY <1>1, <1>2, <1>3 DEF OnceInv

\* OnceInv holds for ever when no name is registered twice.
THEOREM OnceInvariant == ASSUME MaxIncarnations = 1 PROVE Spec => []OnceInv
<1>1. ASSUME OnceInv, Next
      PROVE  OnceInv'
  <2>1. World' /\ Evolves /\ TypeInv'
    BY <1>1, WorldNext, OnceEvolves, TypeNext DEF OnceInv
  <2>2. \A w \in Workers : WorkerRight(w)'
    BY <1>1, <2>1, WorkersNext
  <2> QED BY <2>1, <2>2 DEF OnceInv
<1>2. OnceInv /\ [Next]_vars => OnceInv'
  BY <1>1, OnceStutters
<1> QED BY OnceInit, <1>2, PTL DEF Spec

\* An instance that holds an address of somebody else is never given another one
\* (the switch of IsCvmNeedToAllocateAnyCastIp on the types the instance holds).
THEOREM OthersLeftAlone == ASSUME MaxIncarnations = 1 PROVE Spec => []OthersRespected
<1>1. OnceInv => OthersRespected
  BY DEF OnceInv, World, BoundRight, OthersRespected
<1> QED BY <1>1, OnceInvariant, PTL

\* An annotated node is free of the taint only while an address is bound to its instance
\* (removeNoAnycastTaintAndAddAnnotation is reached only after a status BIND was read).
THEOREM OpenMeansBound == ASSUME MaxIncarnations = 1 PROVE Spec => []OpenOnlyWhenBound
<1>1. OnceInv => OpenOnlyWhenBound
  BY DEF OnceInv, World
<1> QED BY <1>1, OnceInvariant, PTL

\* The address a node is annotated with is one the account still has
\* (ReleaseAnycastIp is reached only for names whose node is gone).
THEOREM AnnotationsLive == ASSUME MaxIncarnations = 1 PROVE Spec => []AnnotationCurrent
<1>1. OnceInv => AnnotationCurrent
  BY DEF OnceInv, World, NodeRight, AnnoRight, AnnotationCurrent
<1> QED BY <1>1, OnceInvariant, PTL

-----------------------------------------------------------------------------
(***************************************************************************)
(* The taint.  Only the worker that has the key lifts it, and it does so   *)
(* after it saw the one address of the node bound; a stale copy that still *)
(* shows the taint is harmless, because a node that was opened has its     *)
(* address, and the reconcile finds it before it gets to the tags.         *)
(***************************************************************************)

\* A patch by the worker that has the key of another worker is that worker's own.
LEMMA OwnPatch ==
    ASSUME TypeInv, NEW v \in Workers, NEW w \in Workers, pc[w] \in Calls, pc[v] \in Calls,
           key[v] = key[w]
    PROVE  v = w
BY WorkerHas DEF TypeInv, QueueInv, KeysExclusive

\* A node that is opened behind a tainted copy has its annotation.
LEMMA OpenedStays ==
    ASSUME OnceInv, Evolves, Next, NEW n \in Nodes, born[n] >= 1, NEW o, OpenedSince(o, n)
    PROVE  o.taint /\ api'[n] # None /\ ~api'[n].taint => api'[n].anno # None
<1>1. NodeStep(n) /\ (api'[n] # None => api[n] # None)
  BY NextNodes DEF OnceInv, NodeSteps, Evolves
<1>2. ASSUME NEW w \in Workers, pc[w] = "untaint"
      PROVE  (IF node[w].anno = None THEN cur[w] ELSE node[w].anno) # None
  BY <1>2, CloudAssumption DEF OnceInv, WorkerRight
<1> QED BY <1>1, <1>2 DEF NodeStep, OpenedSince

\* While a worker is on the way to an association nobody lifts the taint of its node.
LEMMA TaintStays ==
    ASSUME OnceInv, Evolves, Next, NEW w \in Workers, TaintRight(w), pc[w] \in Binding,
           api'[key[w]] # None
    PROVE  api'[key[w]].taint \/ node[w].ins \in destroyed'
<1>1. TypeInv /\ pc[w] \in Calls /\ key[w] \in Nodes /\ born[key[w]] >= 1
  BY KeyKnown DEF OnceInv, Binding, Calls, NodeCalls, Busy
<1>2. NodeStep(key[w]) /\ api[key[w]] # None /\ destroyed \subseteq destroyed'
  BY <1>1, NextNodes DEF NodeSteps, Evolves
<1>3. api[key[w]].taint \/ node[w].ins \in destroyed
  BY <1>2 DEF TaintRight
<1>4. ~ \E v \in Workers : key[v] = key[w] /\ pc[v] = "untaint"
  BY <1>1, OwnPatch DEF Binding, Calls, NodeCalls
<1> QED BY <1>2, <1>3, <1>4 DEF NodeStep

\* While a worker is about to lift the taint nobody binds an address of its node.
LEMMA NoneBinds ==
    ASSUME OnceInv, Evolves, Next, NEW w \in Workers, TaintRight(w), pc[w] = "untaint",
           NEW e \in Eips, eip'[e].name = key[w]
    PROVE  eip'[e].status # "BINDING"
<1>1. TypeInv /\ pc[w] \in Calls /\ key[w] \in Nodes /\ AddressStep(e)
  BY KeyKnown, NextAddresses DEF OnceInv, AddressSteps, Calls, NodeCalls, Busy
<1>2. ~ \E v \in Workers : pc[v] = "associate" /\ key[v] = key[w]
  BY <1>1, OwnPatch DEF Calls, NodeCalls
<1>3. \/ eip[e].name = key[w] /\ eip[e].status # "BINDING"
      \/ eip[e].status = "UNUSED"
  BY <1>1 DEF AddressStep, TaintRight
<1>4. ASSUME NEW v \in Workers, pc[v] = "associate", cur[v] = e
      PROVE  eip[e].name = key[v]
  BY <1>4 DEF OnceInv, WorkerRight, Holding
<1> QED BY <1>1, <1>2, <1>3, <1>4 DEF AddressStep

\* The node of an instance that is being given an address stays tainted.
LEMMA TaintedNext ==
    ASSUME OnceInv, World', TaintInv, Evolves, Next
    PROVE  TaintedWhileBinding'
<1> SUFFICES ASSUME NEW e \in Eips, NEW n \in Nodes, eip'[e].status = "BINDING", api'[n] # None,
                    api'[n].ins = eip'[e].ins
             PROVE  api'[n].taint
  BY DEF TaintedWhileBinding
<1>1. TypeInv /\ AddressStep(e) /\ NodeStep(n)
  BY NextAddresses, NextNodes DEF OnceInv, AddressSteps, NodeSteps
<1>2. eip'[e].ins \in Instances /\ eip'[e].name = n
  BY CloudAssumption DEF World, BoundRight, NodeRight, InsRight
<1>3. eip[e].status # "UNUSED" /\ eip[e].name = n /\ born[n] >= 1 /\ api[n] # None
  BY <1>1, <1>2 DEF AddressStep, Evolves, NamesStay, OnceInv, World, RegisteredOnce
<1>4. CASE eip[e].status = "BINDING" /\ eip'[e].ins = eip[e].ins
  <2>1. api[n].taint
    BY <1>3, <1>4 DEF OnceInv, World, BoundRight, TaintInv, TaintedWhileBinding
  <2>2. ~ \E w \in Workers : key[w] = n /\ pc[w] = "untaint"
    BY <1>3, <1>4 DEF TaintInv, TaintRight
  <2> QED BY <1>1, <1>3, <2>1, <2>2 DEF NodeStep
<1>5. ASSUME NEW w \in Workers, pc[w] = "associate", cur[w] = e, node[w].ins \notin destroyed
      PROVE  api'[n].taint
  <2>1. key[w] = n
    BY <1>3, <1>5 DEF OnceInv, WorkerRight, Holding
  <2>2. api[n].taint
    BY <1>3, <1>5, <2>1 DEF TaintInv, TaintRight, Binding
  <2>3. ~ \E v \in Workers : key[v] = n /\ pc[v] = "untaint"
    BY <1>1, <1>5, <2>1, OwnPatch DEF Calls, NodeCalls
  <2> QED BY <1>1, <1>3, <2>2, <2>3 DEF NodeStep
<1> QED BY <1>1, <1>4, <1>5 DEF AddressStep

\* The informer shows nodes as they are.
LEMMA ShownNext ==
    ASSUME MaxIncarnations = 1, OnceInv, TaintInv, Evolves, Next, NEW n \in Nodes, cache'[n] # None
    PROVE  OpenedSince(cache[n], n)'
<1>1. TypeInv /\ CacheStep(n)
  BY NextNodes DEF OnceInv, NodeSteps
<1>2. CASE cache'[n] = cache[n]
  BY <1>2, OpenedStays DEF TaintInv, OpenedSince, OnceInv, World, RegisteredOnce, Known
<1>3. CASE cache'[n] = api'[n]
  BY <1>3 DEF OpenedSince
<1> QED BY <1>1, <1>2, <1>3 DEF CacheStep

\* A reconcile that goes on with its copy of the node.
LEMMA TaintGoes ==
    ASSUME OnceInv, TaintInv, Evolves, Next, NEW w \in Workers, pc[w] \in Calls,
           pc'[w] \in NodeCalls => pc[w] \in NodeCalls, key'[w] = key[w], node'[w] = node[w],
           pc'[w] \in Binding /\ pc[w] \notin Binding /\ api'[key[w]] # None =>
               api'[key[w]].taint \/ node[w].ins \in destroyed',
           pc'[w] = "untaint" => \A e \in Eips : eip'[e].name = key[w] => eip'[e].status # "BINDING"
    PROVE  TaintRight(w)'
<1>1. key[w] \in Nodes /\ born[key[w]] >= 1 /\ TaintRight(w)
  BY KeyKnown DEF Busy, Calls, GoneCalls, NodeCalls, TaintInv
<1>2. ASSUME pc'[w] \in NodeCalls
      PROVE  node[w].taint /\ api'[key[w]] # None /\ ~api'[key[w]].taint => api'[key[w]].anno # None
  BY <1>1, <1>2, OpenedStays DEF TaintRight
<1>3. pc'[w] \in Binding /\ api'[key[w]] # None => api'[key[w]].taint \/ node[w].ins \in destroyed'
  BY <1>1, TaintStays
<1> QED BY <1>2, <1>3 DEF TaintRight, OpenedSince

LEMMA TaintWaits ==
    ASSUME OnceInv, TaintInv, Evolves, Next, NEW v \in Workers,
           pc'[v] = pc[v], key'[v] = key[v], node'[v] = node[v]
    PROVE  TaintRight(v)'
<1>1. CASE pc[v] \in Calls
  BY <1>1, TaintGoes, NoneBinds DEF TaintInv
<1>2. CASE pc[v] = "idle"
  BY <1>2 DEF TaintRight, NodeCalls, Binding
<1> QED BY <1>1, <1>2 DEF OnceInv, TypeInv, QueueInv

LEMMA TaintIdles ==
    ASSUME NEW w \in Workers, pc'[w] \in {"idle"} \cup GoneCalls
    PROVE  TaintRight(w)'
BY DEF TaintRight, NodeCalls, GoneCalls, Binding

LEMMA TaintEnds ==
    ASSUME TypeInv, NEW w \in Workers, Finish(w) \/ Retry(w)
    PROVE  TaintRight(w)'
BY TaintIdles DEF Finish, Retry, EndReconcile, TypeInv, QueueInv

\* The one address of the node is bound: none is on its way.
LEMMA TaintSettles ==
    ASSUME OnceInv, OneAddressPerNode, TaintInv, Evolves, Next, NEW w \in Workers,
           pc[w] \in NodeCalls, UNCHANGED eip,
           NEW e \in Eips, eip[e].status = "BIND", eip[e].ins = node[w].ins, Settle(w, e)
    PROVE  TaintRight(w)'
<1>1. CASE Finish(w)
  BY <1>1, TaintEnds DEF OnceInv
<1>2. CASE Goto(w, "untaint", e)
  <2>1. node[w].ins # None /\ InsRight(node[w], key[w])
    BY DEF OnceInv, WorkerRight
  <2>2. eip[e].name = key[w]
    BY <2>1 DEF OnceInv, World, BoundRight, InsRight
  <2>3. \A f \in Eips : eip'[f].name = key[w] => eip'[f].status # "BINDING"
    BY <2>2 DEF OneAddressPerNode, Live
  <2>4. pc'[w] = "untaint" /\ key'[w] = key[w] /\ node'[w] = node[w]
    BY <1>2, GoesTo DEF OnceInv
  <2> QED BY <2>3, <2>4, TaintGoes DEF Calls, Binding
<1> QED BY <1>1, <1>2 DEF Settle

\* The decision to allocate is taken for a node that is tainted.
LEMMA TaintDecides ==
    ASSUME OnceInv, OneAddressPerNode, TaintInv, Evolves, Next, NEW w \in Workers, DescribeInstance(w)
    PROVE  TaintRight(w)'
<1>1. /\ TypeInv /\ pc[w] = "describeIns" /\ pc[w] \in NodeCalls /\ pc[w] \in Calls /\ key[w] \in Nodes
      /\ node[w].ins # None /\ InsRight(node[w], key[w]) /\ OpenedSince(node[w], key[w])
      /\ UNCHANGED <<eip, destroyed, api>>
  BY KeyKnown DEF OnceInv, WorkerRight, TaintInv, TaintRight, DescribeInstance, NodeCalls, Calls, Busy,
        KeepCloud, KeepApi, cloudVars
<1>2. ASSUME NEW call \in {"taint", "taintStop"}, Goto(w, call, None)
      PROVE  TaintRight(w)'
  BY <1>1, <1>2, GoesTo, TaintGoes DEF Binding
<1>3. ASSUME TaintFirst(w, "taintStop", Finish(w))
      PROVE  TaintRight(w)'
  BY <1>1, <1>2, <1>3, TaintEnds DEF TaintFirst
<1>4. ASSUME NEW e \in BoundTo(node[w].ins), JudgeType(w, ProcessingEipType, e)
      PROVE  TaintRight(w)'
  <2>1. e \in Eips /\ eip[e].status = "BIND" /\ eip[e].ins = node[w].ins
    BY DEF BoundTo
  <2> QED BY <1>1, <1>3, <1>4, <2>1, TaintSettles, TaintEnds DEF JudgeType
<1>5. ASSUME NEW type \in OthersOn(node[w].ins), JudgeType(w, type, None)
      PROVE  TaintRight(w)'
  <2>1. node[w] \in NodeObject
    BY <1>1, WorkerHas
  <2>2. type # ProcessingEipType
    BY <1>1, <1>5, <2>1, CloudAssumption DEF NodeObject, OthersOn
  <2> QED BY <1>1, <1>3, <1>5, <2>2, TaintEnds DEF JudgeType
<1>6. ASSUME BoundTo(node[w].ins) = {}, node[w].taint, Goto(w, "tags", None)
      PROVE  TaintRight(w)'
  <2>1. api[key[w]] # None => api[key[w]].taint \/ node[w].ins \in destroyed
    BY <1>1, <1>6 DEF OpenedSince, InsRight, OnceInv, World, OpenOnlyWhenBound
  <2>2. pc'[w] = "tags" /\ key'[w] = key[w] /\ node'[w] = node[w]
    BY <1>1, <1>6, GoesTo
  <2> QED BY <1>1, <2>1, <2>2, TaintGoes
<1>7. ASSUME BoundTo(node[w].ins) = {}, TaintFirst(w, "taint", Goto(w, "tags", None))
      PROVE  TaintRight(w)'
  BY <1>2, <1>6, <1>7 DEF TaintFirst
<1> QED BY <1>4, <1>5, <1>7 DEF DescribeInstance

\* The taint patch.
LEMMA TaintTaints ==
    ASSUME OnceInv, NEW w \in Workers, AddTaint(w)
    PROVE  TaintRight(w)'
<1>1. TypeInv /\ key[w] \in Nodes /\ api[key[w]] # None
  BY KeyKnown DEF OnceInv, AddTaint, PatchApi, Busy
<1>2. CASE Retry(w)
  BY <1>1, <1>2, TaintEnds
<1>3. CASE /\ pc' = [pc EXCEPT ![w] = "tags"] /\ node' = [node EXCEPT ![w] = api'[key[w]]]
           /\ UNCHANGED <<key, cur, dirty, processing>>
  <2>1. pc'[w] = "tags" /\ node'[w] = api'[key[w]] /\ key'[w] = key[w]
    BY <1>1, <1>3 DEF TypeInv, QueueInv
  <2>2. api[key[w]] \in NodeObject
    BY <1>1 DEF TypeInv, NodesType
  <2>3. api'[key[w]].taint
    BY <1>1, <2>2 DEF AddTaint, PatchApi, TypeInv, NodesType, NodeObject
  <2> QED BY <2>1, <2>3 DEF TaintRight, OpenedSince
<1> QED BY <1>2, <1>3 DEF AddTaint

\* Every worker keeps knowing what it must of the taint.
LEMMA TaintWorkers ==
    ASSUME OnceInv, OneAddressPerNode, TaintInv, Evolves, Next, NEW w \in Workers, WorkerStep(w)
    PROVE  TaintRight(w)'
<1>1. TypeInv
  BY DEF OnceInv
<1>2. ASSUME NEW n \in Nodes, Start(w, n)
      PROVE  TaintRight(w)'
  <2>1. key'[w] = n /\ node'[w] = cache[n] /\ pc'[w] = FirstCall(cache[n]) /\ UNCHANGED api
    BY <1>1, <1>2 DEF Start, KeepApi, TypeInv, QueueInv
  <2>2. cache[n] # None => OpenedSince(cache[n], n)
    BY DEF TaintInv
  <2> QED BY <2>1, <2>2 DEF FirstCall, TaintRight, OpenedSince, NodeCalls, Binding
<1>3. ASSUME NEW call \in GoneCalls, NEW e, Goto(w, call, e)
      PROVE  TaintRight(w)'
  BY <1>1, <1>3, GoesTo, TaintIdles
<1>4. CASE FindLegacy(w) \/ DescribeLegacy(w) \/ Disassociate(w) \/ Release(w)
  BY <1>1, <1>3, <1>4, TaintEnds DEF FindLegacy, DescribeLegacy, Disassociate, Release, GoneCalls
<1>5. ASSUME pc[w] \in Binding, NEW call \in Binding, NEW e, Goto(w, call, e)
      PROVE  TaintRight(w)'
  BY <1>1, <1>5, GoesTo, TaintGoes DEF Binding, NodeCalls, Calls
<1>6. CASE FindByTags(w) \/ Allocate(w)
  BY <1>1, <1>5, <1>6, TaintEnds DEF FindByTags, Allocate, Binding
<1>7. CASE DescribeAddress(w)
  <2>1. cur[w] \in Eips /\ UNCHANGED eip /\ pc[w] \in NodeCalls /\ pc[w] \in Binding
    BY <1>7 DEF OnceInv, WorkerRight, Holding, DescribeAddress, NodeCalls, Binding, KeepCloud, cloudVars
  <2>2. \/ eip[cur[w]].status = "BIND" /\ eip[cur[w]].ins = node[w].ins /\ Settle(w, cur[w])
        \/ Goto(w, "associate", cur[w])
        \/ Retry(w)
    BY <1>7 DEF DescribeAddress
  <2> QED BY <1>1, <1>5, <2>1, <2>2, TaintSettles, TaintEnds DEF Binding
<1>8. CASE \/ RejectTerminating(w) \/ AddTaintAndStop(w) \/ RemoveTaint(w)
           \/ CreateMissingTags(w) \/ Associate(w) \/ ApiError(w)
  BY <1>1, <1>5, <1>8, TaintEnds DEF RejectTerminating, AddTaintAndStop, RemoveTaint,
        CreateMissingTags, Associate, ApiError, Binding
<1> QED BY <1>2, <1>4, <1>6, <1>7, <1>8, TaintDecides, TaintTaints DEF WorkerStep

LEMMA TaintNext ==
    ASSUME MaxIncarnations = 1, OnceInv, World', OneAddressPerNode, TaintInv, [Next]_vars
    PROVE  TaintInv'
<1>1. CASE Next
  <2>1. Evolves
    BY <1>1, OnceEvolves
  <2>2. ASSUME NEW v \in Workers
        PROVE  TaintRight(v)'
    <3>1. ASSUME NEW w \in Workers, WorkerStep(w)
          PROVE  TaintRight(v)'
      <4>1. CASE v = w
        BY <1>1, <2>1, <3>1, <4>1, TaintWorkers
      <4>2. CASE v # w
        BY <1>1, <2>1, <3>1, <4>2, OneWorker, TaintWaits DEF OnceInv
      <4> QED BY <4>1, <4>2
    <3>2. CASE UNCHANGED workerVars
      BY <1>1, <2>1, <3>2, TaintWaits DEF workerVars
    <3>3. CASE Crash
      BY <3>3, TaintIdles DEF Crash
    <3> QED BY <1>1, <3>1, <3>2, <3>3 DEF Next
  <2> QED BY <1>1, <2>1, <2>2, TaintedNext, ShownNext DEF TaintInv
<1>2. CASE UNCHANGED vars
  BY <1>2 DEF TaintInv, TaintedWhileBinding, TaintRight, OpenedSince, vars, cloudVars, watchVars, workerVars
<1> QED BY <1>1, <1>2

\* A copy that shows a taint the node has lost is of a node the controller has opened since;
\* so a worker whose copy lets it skip the patch does not bind an address to an open node
\* (taintAiaToNodeIfNecessary looks at the copy only).
THEOREM TaintInvariant ==
    ASSUME MaxIncarnations = 1, TagLag = FALSE PROVE Spec => []TaintInv
<1>1. Init => TaintInv
  BY DEF Init, CloudInit, WatchInit, TaintInv, TaintedWhileBinding, TaintRight, NodeCalls, Binding
<1>2. OnceInv /\ OnceInv' /\ IInv /\ TaintInv /\ [Next]_vars => TaintInv'
  BY TaintNext DEF OnceInv, IInv
<1> QED BY <1>1, <1>2, OnceInvariant, Inductive, PTL DEF Spec

\* While an address is being bound to the instance of a node the node is tainted
\* (taintAiaToNodeIfNecessary runs before AllocateAnycastIp, and the taint is lifted
\* only after the status BIND was read).
THEOREM BindingTainted ==
    ASSUME MaxIncarnations = 1, TagLag = FALSE PROVE Spec => []TaintedWhileBinding
<1>1. TaintInv => TaintedWhileBinding
  BY DEF TaintInv
<1> QED BY <1>1, TaintInvariant, PTL
=============================================================================
