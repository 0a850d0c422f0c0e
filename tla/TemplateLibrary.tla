--------------------------- MODULE TemplateLibrary ---------------------------
(***************************************************************************)
(* The two template libraries of unnamed/part_000, behind the interface    *)
(* Library ("a library of Templates indexed by name"):                     *)
(*   ConfigMapLibrary reads one ConfigMap per namespace and parses its     *)
(*   data entries into templates; CRDLibrary reads CAPITemplate and        *)
(*   GitOpsTemplate objects.                                               *)
(* Each library picks its namespace from the requested kind.  The cluster *)
(* is changed by other actors (kubectl apply and delete) between calls;   *)
(* every call reads the cluster once, so it is one step.  A template is   *)
(* abstracted to its name and kind; `last' is the answer of the latest     *)
(* call, which the properties compare with what the cluster stores.       *)
(***************************************************************************)
EXTENDS FiniteSets

CONSTANTS
    CAPINamespace,            \* lib.CAPINamespace
    GitOpsTemplateNamespace,  \* lib.GitOpsTemplateNamespace
    Namespaces,               \* the namespaces the cluster has
    DataKeys,                 \* keys of the template ConfigMap's data
    TemplateNames,            \* metadata.name of a template
    TemplateBodies,           \* what else a template holds (its spec)
    RequestKinds,             \* the templateKind arguments callers pass
    WrittenEntries            \* the data entries other actors write

CAPIKind == "CAPITemplate"
GitOpsKind == "GitOpsTemplate"
TemplateKinds == {CAPIKind, GitOpsKind}
NoNamespace == ""                  \* `var namespace string' for any other kind

ASSUME NamespacesAssumption ==
    {CAPINamespace, GitOpsTemplateNamespace} \subseteq Namespaces /\ NoNamespace \notin Namespaces

AllNamespaces == Namespaces \cup {NoNamespace}
Template == [name : TemplateNames, kind : TemplateKinds, body : TemplateBodies]
Nil == [name |-> "nil", kind |-> "nil", body |-> "nil"]   \* a nil *templates.Template
Marker(m) == [name |-> m, kind |-> m, body |-> m]
NoEntry == Marker("none")                    \* no data entry under that key
Unparsable == Marker("unparsable")           \* an entry ParseConfigMap rejects
Absent == [k \in DataKeys |-> Marker("absent")]  \* no ConfigMap of that name
Entry == Template \cup {NoEntry, Unparsable}

ASSUME EntriesAssumption == WrittenEntries \subseteq Entry

VARIABLES
    configMaps,   \* namespace -> the template ConfigMap's data, or Absent
    crds,         \* namespace -> the template objects stored there
    last          \* the answer of the latest library call

vars == <<configMaps, crds, last>>

Call(op, lib, kind, name, res, tmpls, tmpl) ==
    [op |-> op, lib |-> lib, kind |-> kind, name |-> name, res |-> res,
     tmpls |-> tmpls, tmpl |-> tmpl]
NoCall == Call("none", "none", "", "", "none", {}, Nil)

TypeOK ==
    /\ configMaps \in [AllNamespaces -> [DataKeys -> Entry] \cup {Absent}]
    /\ crds \in [AllNamespaces -> SUBSET Template]
    /\ last.op \in {"none", "List", "Get"} /\ last.res \in {"none", "ok", "missing", "error"}
    /\ last.tmpls \subseteq Template /\ last.tmpl \in Template \cup {Nil}

Init ==
    /\ configMaps = [ns \in AllNamespaces |-> Absent]
    /\ crds = [ns \in AllNamespaces |-> {}]
    /\ last = NoCall

\* The switch on templateKind that picks the namespace.
NamespaceOf(kind) ==
    CASE kind = CAPIKind   -> CAPINamespace
      [] kind = GitOpsKind -> GitOpsTemplateNamespace
      [] OTHER             -> NoNamespace

-----------------------------------------------------------------------------
(* ConfigMapLibrary *)

\* ParseConfigMap (not in the repository) returns the entries it parsed;
\* when one entry fails, what it returns with its error is not known
\* here: any part of the parsed entries.
ParsedKeys(cm) == {k \in DataKeys : cm[k] \in Template}
ParseResults(cm) ==
    IF \E k \in DataKeys : cm[k] = Unparsable THEN SUBSET ParsedKeys(cm) ELSE {ParsedKeys(cm)}

\* Mutant: the loop keeps every parsed template, whatever its kind.
CMListNoKindFilter(kind) ==
    LET cm == configMaps[NamespaceOf(kind)] IN
    {[res |-> "error", tmpls |-> {}]}
    \cup IF cm = Absent THEN {}
         ELSE {[res |-> "ok", tmpls |-> {cm[k] : k \in ks}] : ks \in ParseResults(cm)}

\* The outcomes of List: reading the ConfigMap fails (NotFound when it is
\* absent, or any API error); otherwise the parsed templates of the kind.
\* A parse error is reported only if it IsNotFound, which a parse error
\* never is: it is dropped.
CMListResults(kind) ==
    LET cm == configMaps[NamespaceOf(kind)] IN
    {[res |-> "error", tmpls |-> {}]}
    \cup IF cm = Absent THEN {}
         ELSE {[res |-> "ok", tmpls |-> {cm[k] : k \in {j \in ks : cm[j].kind = kind}}] :
                 ks \in ParseResults(cm)}

CMList(kind) ==
    /\ \E o \in CMListResults(kind) :
          last' = Call("List", "configmap", kind, "", o.res, o.tmpls, Nil)
    /\ UNCHANGED <<configMaps, crds>>

\* Get lists, then keeps a template of that name and kind (the last one
\* in map order when there are several); none is "template not found".
CMGet(name, kind) ==
    /\ \E o \in CMListResults(kind) :
          LET found == {t \in o.tmpls : t.name = name /\ t.kind = kind} IN
          \/ o.res = "error" /\ last' = Call("Get", "configmap", kind, name, "error", {}, Nil)
          \/ o.res = "ok" /\ found = {}
             /\ last' = Call("Get", "configmap", kind, name, "missing", {}, Nil)
          \/ o.res = "ok" /\ \E t \in found : last' = Call("Get", "configmap", kind, name, "ok", {}, t)
    /\ UNCHANGED <<configMaps, crds>>

-----------------------------------------------------------------------------
(* CRDLibrary *)

\* Mutant: the GitOpsTemplate branch, copied from the CAPITemplate one,
\* still reads lib.CAPINamespace.
CRDGetGitOpsInCAPINamespace(name, kind) ==
    LET named == {t \in crds[CAPINamespace] : t.name = name /\ t.kind = kind} IN
    {[res |-> "error", tmpl |-> Nil]}
    \cup CASE kind \in TemplateKinds ->
                IF named # {} THEN {[res |-> "ok", tmpl |-> t] : t \in named}
                  ELSE {[res |-> "missing", tmpl |-> Nil]}
           [] OTHER -> {[res |-> "ok", tmpl |-> Nil]}

\* The outcomes of Get: the client getter or the API call fails, the
\* object is not found, or it is returned; for any other kind neither
\* branch runs and Get returns nil, nil.
CRDGetResults(name, kind) ==
    LET named == {t \in crds[NamespaceOf(kind)] : t.name = name /\ t.kind = kind} IN
    {[res |-> "error", tmpl |-> Nil]}
    \cup CASE kind \in TemplateKinds ->
                IF named # {} THEN {[res |-> "ok", tmpl |-> t] : t \in named}
                  ELSE {[res |-> "missing", tmpl |-> Nil]}
           [] OTHER -> {[res |-> "ok", tmpl |-> Nil]}

CRDGet(name, kind) ==
    /\ \E o \in CRDGetResults(name, kind) :
          last' = Call("Get", "crd", kind, name, o.res, {}, o.tmpl)
    /\ UNCHANGED <<configMaps, crds>>

\* List returns the objects of the kind in its namespace, keyed by
\* name; for any other kind an empty map and no error.
CRDList(kind) ==
    /\ \/ last' = Call("List", "crd", kind, "", "error", {}, Nil)
       \/ last' = Call("List", "crd", kind, "", "ok",
                       {t \in crds[NamespaceOf(kind)] : t.kind = kind}, Nil)
    /\ UNCHANGED <<configMaps, crds>>

-----------------------------------------------------------------------------
(* The other actors: apply and delete of ConfigMap entries and objects. *)

PutEntry(ns, k, e) ==
    /\ configMaps' = [configMaps EXCEPT ![ns] =
                        [(IF @ = Absent THEN [d \in DataKeys |-> NoEntry] ELSE @) EXCEPT ![k] = e]]
    /\ last' = NoCall
    /\ UNCHANGED crds

DeleteConfigMap(ns) ==
    /\ configMaps[ns] # Absent
    /\ configMaps' = [configMaps EXCEPT ![ns] = Absent]
    /\ last' = NoCall
    /\ UNCHANGED crds

\* An object is identified by its kind, namespace and name: applying one
\* replaces the object of that name.
ApplyObject(ns, t) ==
    /\ crds' = [crds EXCEPT ![ns] = {u \in @ : u.name # t.name \/ u.kind # t.kind} \cup {t}]
    /\ last' = NoCall
    /\ UNCHANGED configMaps

DeleteObject(ns, t) ==
    /\ t \in crds[ns]
    /\ crds' = [crds EXCEPT ![ns] = @ \ {t}]
    /\ last' = NoCall
    /\ UNCHANGED configMaps

Next ==
    \/ \E kind \in RequestKinds : CMList(kind) \/ CRDList(kind)
    \/ \E name \in TemplateNames, kind \in RequestKinds : CMGet(name, kind) \/ CRDGet(name, kind)
    \/ \E ns \in Namespaces, k \in DataKeys, e \in WrittenEntries : PutEntry(ns, k, e)
    \/ \E ns \in Namespaces : DeleteConfigMap(ns)
    \/ \E ns \in Namespaces, t \in Template : ApplyObject(ns, t) \/ DeleteObject(ns, t)

Spec == Init /\ [][Next]_vars

-----------------------------------------------------------------------------
(* Properties *)

\* The templates of a kind that the cluster stores where a library looks.
Stored(lib, kind) ==
    LET ns == NamespaceOf(kind)
        cm == configMaps[ns]
    IN IF lib = "configmap"
         THEN IF cm = Absent THEN {}
              ELSE {cm[k] : k \in {j \in DataKeys : cm[j] \in Template /\ cm[j].kind = kind}}
         ELSE {t \in crds[ns] : t.kind = kind}

\* Get by name of a CAPITemplate or GitOpsTemplate, through either
\* library: an answer without error is a template of that name and kind
\* stored in the kind's namespace, and "not found" is answered only when
\* no such template is stored there.
GetFindsStored ==
    last.op = "Get" /\ last.kind \in TemplateKinds =>
        /\ last.res = "ok" => last.tmpl \in Stored(last.lib, last.kind) /\ last.tmpl.name = last.name
        /\ last.res = "missing" => \A t \in Stored(last.lib, last.kind) : t.name # last.name

\* List, through either library: an answer without error holds exactly
\* the templates of the requested kind stored in its namespace.
ListReturnsStored ==
    last.op = "List" /\ last.res = "ok" => last.tmpls = Stored(last.lib, last.kind)

\* TemplateGetter implementations "get templates by name": whatever the
\* kind asked for, a Get answered without error returns a template.
GetReturnsTemplate ==
    last.op = "Get" /\ last.res = "ok" => last.tmpl # Nil

\* Library is "a library of Templates indexed by name": a Get answered
\* without error returns the one template of that name and kind stored
\* where the library looks, so two Gets of a name agree while nothing
\* changes.
IndexedByName ==
    last.op = "Get" /\ last.res = "ok" =>
        \A t \in Stored(last.lib, last.kind) : t.name = last.name => t = last.tmpl

=============================================================================
