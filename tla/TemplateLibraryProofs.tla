------------------------ MODULE TemplateLibraryProofs ------------------------
(***************************************************************************)
(* Proofs about TemplateLibrary for every set of namespaces, data keys,    *)
(* template names, specs and requested kinds, when every ConfigMap entry  *)
(* other actors write parses (ParseConfigMap is not in the repository; a  *)
(* parse error is what makes List lose templates, see the run             *)
(* template_parse_error).                                                  *)
(***************************************************************************)
EXTENDS TemplateLibrary, TLAPS

\* Every entry written to a template ConfigMap is a template or nothing.
WellFormedEntries == WrittenEntries \subseteq Template \cup {NoEntry}

CMWellFormed(cm) == cm = Absent \/ \A k \in DataKeys : cm[k] \in Template \cup {NoEntry}

(***************************************************************************)
(* A call's answer is compared with the cluster as it is now; the cluster *)
(* actors reset `last', so the two properties are inductive once every    *)
(* ConfigMap the libraries may read is well formed.                       *)
(***************************************************************************)
IInv ==
    /\ DOMAIN configMaps = AllNamespaces
    /\ \A ns \in AllNamespaces : CMWellFormed(configMaps[ns])
    /\ ListReturnsStored
    /\ GetFindsStored

\* The libraries read one of the namespaces the cluster has, or "".
LEMMA NamespaceOfType == ASSUME NEW kind PROVE NamespaceOf(kind) \in AllNamespaces
  BY NamespacesAssumption DEF NamespaceOf, AllNamespaces

\* An entry that is a template or nothing is never the unparsable one.
LEMMA ParseWellFormed ==
    ASSUME NEW cm, \A k \in DataKeys : cm[k] \in Template \cup {NoEntry}
    PROVE  ParseResults(cm) = {ParsedKeys(cm)}
<1>1. Unparsable \notin Template \cup {NoEntry}
  BY DEF Unparsable, Marker, Template, NoEntry, TemplateKinds, CAPIKind, GitOpsKind
<1>2. \A k \in DataKeys : cm[k] # Unparsable
  BY <1>1
<1>3. QED
  BY <1>2 DEF ParseResults

\* A List of the ConfigMap library answered without error holds what the
\* ConfigMap of the kind's namespace stores of that kind.
LEMMA CMListOk ==
    ASSUME NEW kind, IInv, NEW o \in CMListResults(kind), o.res = "ok"
    PROVE  o.tmpls = Stored("configmap", kind)
<1> DEFINE cm == configMaps[NamespaceOf(kind)]
<1>1. cm # Absent
  BY DEF CMListResults
<1>2. \A k \in DataKeys : cm[k] \in Template \cup {NoEntry}
  BY <1>1, NamespaceOfType DEF IInv, CMWellFormed
<1>3. ParseResults(cm) = {ParsedKeys(cm)}
  BY <1>2, ParseWellFormed
<1>4. o.tmpls = {cm[k] : k \in {j \in ParsedKeys(cm) : cm[j].kind = kind}}
  BY <1>1, <1>3 DEF CMListResults
<1>5. Stored("configmap", kind) = {cm[k] : k \in {j \in DataKeys : cm[j] \in Template /\ cm[j].kind = kind}}
  BY <1>1 DEF Stored
<1>6. {j \in ParsedKeys(cm) : cm[j].kind = kind} = {j \in DataKeys : cm[j] \in Template /\ cm[j].kind = kind}
  BY DEF ParsedKeys
<1>7. QED
  BY <1>4, <1>5, <1>6

LEMMA InitIInv == Init => IInv
<1> SUFFICES ASSUME Init PROVE IInv
  OBVIOUS
<1>1. last.op = "none"
  BY DEF Init, NoCall, Call
<1>2. DOMAIN configMaps = AllNamespaces /\ \A ns \in AllNamespaces : configMaps[ns] = Absent
  BY DEF Init
<1>3. QED
  BY <1>1, <1>2 DEF IInv, CMWellFormed, ListReturnsStored, GetFindsStored

\* A step of the cluster actors forgets the latest answer.
LEMMA ForgetsAnswer ==
    ASSUME IInv, last' = NoCall, DOMAIN configMaps' = AllNamespaces,
           \A ns \in AllNamespaces : CMWellFormed(configMaps'[ns])
    PROVE  IInv'
  BY DEF IInv, ListReturnsStored, GetFindsStored, NoCall, Call

LEMMA NextIInv ==
    ASSUME WellFormedEntries
    PROVE  IInv /\ [Next]_vars => IInv'
<1> SUFFICES ASSUME IInv, [Next]_vars PROVE IInv'
  OBVIOUS
<1> USE DEF Call
<1>1. ASSUME NEW kind \in RequestKinds, CMList(kind) PROVE IInv'
  <2>1. PICK o \in CMListResults(kind) :
            last' = Call("List", "configmap", kind, "", o.res, o.tmpls, Nil)
    BY <1>1 DEF CMList
  <2>2. o.res = "ok" => o.tmpls = Stored("configmap", kind)
    BY CMListOk
  <2>3. UNCHANGED <<configMaps, crds>>
    BY <1>1 DEF CMList
  <2>4. Stored("configmap", kind)' = Stored("configmap", kind)
    BY <2>3 DEF Stored
  <2>5. QED
    BY <2>1, <2>2, <2>3, <2>4 DEF IInv, ListReturnsStored, GetFindsStored
<1>2. ASSUME NEW kind \in RequestKinds, CRDList(kind) PROVE IInv'
  <2>1. UNCHANGED <<configMaps, crds>>
    BY <1>2 DEF CRDList
  <2> DEFINE here == {t \in crds[NamespaceOf(kind)] : t.kind = kind}
  <2>2. Stored("crd", kind)' = here
    BY <2>1 DEF Stored
  <2>3. PICK r \in {"error", "ok"} :
          last' = [op |-> "List", lib |-> "crd", kind |-> kind, name |-> "", res |-> r,
                   tmpls |-> IF r = "ok" THEN here ELSE {}, tmpl |-> Nil]
    BY <1>2 DEF CRDList
  <2>4. ListReturnsStored' /\ GetFindsStored'
    BY <2>2, <2>3 DEF ListReturnsStored, GetFindsStored
  <2>5. QED
    BY <2>1, <2>4 DEF IInv
<1>3. ASSUME NEW name \in TemplateNames, NEW kind \in RequestKinds, CMGet(name, kind) PROVE IInv'
  <2>1. PICK o \in CMListResults(kind) :
            LET found == {t \in o.tmpls : t.name = name /\ t.kind = kind} IN
            \/ o.res = "error" /\ last' = Call("Get", "configmap", kind, name, "error", {}, Nil)
            \/ o.res = "ok" /\ found = {}
               /\ last' = Call("Get", "configmap", kind, name, "missing", {}, Nil)
            \/ o.res = "ok" /\ \E t \in found : last' = Call("Get", "configmap", kind, name, "ok", {}, t)
    BY <1>3 DEF CMGet
  <2>2. o.res = "ok" => o.tmpls = Stored("configmap", kind)
    BY CMListOk
  <2>3. UNCHANGED <<configMaps, crds>>
    BY <1>3 DEF CMGet
  <2>4. Stored("configmap", kind)' = Stored("configmap", kind)
    BY <2>3 DEF Stored
  <2>5. \A t \in Stored("configmap", kind) : t.kind = kind
    BY DEF Stored
  <2>6. GetFindsStored'
    BY <2>1, <2>2, <2>4, <2>5 DEF GetFindsStored
  <2>7. QED
    BY <2>1, <2>3, <2>6 DEF IInv, ListReturnsStored
<1>4. ASSUME NEW name \in TemplateNames, NEW kind \in RequestKinds, CRDGet(name, kind) PROVE IInv'
  <2> DEFINE named == {t \in crds[NamespaceOf(kind)] : t.name = name /\ t.kind = kind}
  <2>1. PICK o \in CRDGetResults(name, kind) : last' = Call("Get", "crd", kind, name, o.res, {}, o.tmpl)
    BY <1>4 DEF CRDGet
  <2>2. UNCHANGED <<configMaps, crds>>
    BY <1>4 DEF CRDGet
  <2>3. Stored("crd", kind)' = {t \in crds[NamespaceOf(kind)] : t.kind = kind}
    BY <2>2 DEF Stored
  <2>4. CASE kind \in TemplateKinds
    <3>1. \/ o = [res |-> "error", tmpl |-> Nil]
          \/ named # {} /\ o.res = "ok" /\ o.tmpl \in named
          \/ named = {} /\ o = [res |-> "missing", tmpl |-> Nil]
      BY <2>4 DEF CRDGetResults
    <3>2. GetFindsStored'
      BY <2>1, <2>3, <3>1 DEF GetFindsStored
    <3>3. QED
      BY <2>1, <2>2, <3>2 DEF IInv, ListReturnsStored
  <2>5. CASE kind \notin TemplateKinds
    BY <2>1, <2>2, <2>5 DEF IInv, ListReturnsStored, GetFindsStored
  <2>6. QED
    BY <2>4, <2>5
<1>5. ASSUME NEW ns \in Namespaces, NEW k \in DataKeys, NEW e \in WrittenEntries, PutEntry(ns, k, e)
      PROVE IInv'
  <2>1. e \in Template \cup {NoEntry}
    BY DEF WellFormedEntries
  <2>2. ns \in AllNamespaces
    BY DEF AllNamespaces
  <2>3. CMWellFormed(configMaps'[ns])
    <3> DEFINE base == IF configMaps[ns] = Absent THEN [d \in DataKeys |-> NoEntry] ELSE configMaps[ns]
    <3>1. \A d \in DataKeys : base[d] \in Template \cup {NoEntry}
      BY <2>2 DEF IInv, CMWellFormed
    <3>2. configMaps'[ns] = [base EXCEPT ![k] = e]
      BY <1>5, <2>2 DEF PutEntry, IInv
    <3>3. QED
      BY <2>1, <3>1, <3>2 DEF CMWellFormed
  <2>4. QED
    BY <1>5, <2>2, <2>3, ForgetsAnswer DEF PutEntry, IInv
<1>6. ASSUME NEW ns \in Namespaces, DeleteConfigMap(ns) PROVE IInv'
  BY <1>6, ForgetsAnswer DEF DeleteConfigMap, IInv, CMWellFormed, AllNamespaces
<1>7. ASSUME NEW ns \in Namespaces, NEW t \in Template, ApplyObject(ns, t) \/ DeleteObject(ns, t)
      PROVE IInv'
  BY <1>7, ForgetsAnswer DEF ApplyObject, DeleteObject, IInv
<1>8. CASE UNCHANGED vars
  BY <1>8 DEF vars, IInv, ListReturnsStored, GetFindsStored, Stored, CMWellFormed
<1>9. QED
  BY <1>1, <1>2, <1>3, <1>4, <1>5, <1>6, <1>7, <1>8 DEF Next

\* When every ConfigMap entry written parses, List of either library,
\* for any requested kind, answers without error exactly the templates of
\* that kind stored in the kind's namespace, and Get of a CAPITemplate or
\* GitOpsTemplate answers a stored template of that name, or "not found"
\* only when none is stored, however other actors change the cluster
\* between calls.
THEOREM LibraryAnswersStored ==
    ASSUME WellFormedEntries
    PROVE  Spec => [](ListReturnsStored /\ GetFindsStored)
<1>1. Init => IInv
  BY InitIInv
<1>2. IInv /\ [Next]_vars => IInv'
  BY NextIInv
<1>3. IInv => ListReturnsStored /\ GetFindsStored
  BY DEF IInv
<1>4. QED
  BY <1>1, <1>2, <1>3, PTL DEF Spec


\* Get by name, through either library, of a CAPITemplate or a
\* GitOpsTemplate answers a stored template of that name, and "not found"
\* only when none is stored, when every ConfigMap entry written parses.
THEOREM GetAnswersStored ==
    ASSUME WellFormedEntries
    PROVE  Spec => []GetFindsStored
<1>1. Spec => [](ListReturnsStored /\ GetFindsStored)
  BY LibraryAnswersStored
<1>2. QED
  BY <1>1, PTL

=============================================================================
