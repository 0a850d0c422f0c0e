-------------------------- MODULE MCTemplateLibrary --------------------------
(***************************************************************************)
(* Model-checking instance of TemplateLibrary: two namespaces (CAPI and    *)
(* GitOps templates kept apart, as in the Helm chart's defaults), two      *)
(* ConfigMap data keys so that a ConfigMap can hold templates of both      *)
(* kinds or two of one name, one template name, and one template spec    *)
(* (two where templates of one name may differ).                         *)
(***************************************************************************)
EXTENDS TemplateLibrary

MCNamespaces == {"flux-system", "default"}
MCCAPINamespace == "default"
MCGitOpsTemplateNamespace == "flux-system"
MCDataKeys == {"template1", "template2"}
MCTemplateNames == {"cluster-a"}
MCOneBody == {"spec1"}
MCTwoBodies == {"spec1", "spec2"}
MCKinds == TemplateKinds
MCKindsWithOther == TemplateKinds \cup {"Other"}
MCWellFormed == Template \cup {NoEntry}
MCAnyEntry == Entry

=============================================================================
