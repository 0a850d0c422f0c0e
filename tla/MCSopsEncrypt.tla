--------------------------- MODULE MCSopsEncrypt ---------------------------
(***************************************************************************)
(* Model-checking instance of SopsEncrypt: one Kustomization name in two   *)
(* namespaces, one decryption Secret name, two concurrent requests for the *)
(* same Kustomization (one creating its secret in another namespace), and *)
(* Secret contents with a PGP key, an age key, a key that does not parse, *)
(* no data, and a PGP key beside a file of another extension.             *)
(***************************************************************************)
EXTENDS SopsEncrypt

MCNamespaces == {"flux-system", "apps"}
MCKustNames == {"secrets"}
MCSecretNames == {"sops-keys"}

Kust(dec, provider, ref) ==
    [present |-> TRUE, decryption |-> dec, provider |-> provider, secretRef |-> ref,
     path |-> "./secrets"]
MCKustChoices ==
    {Kust(TRUE, <<"s","o","p","s">>, "sops-keys"), Kust(TRUE, <<"S","O","P","S">>, NoRef),
     Kust(FALSE, <<>>, NoRef)}

PGPKey == [ext |-> ".asc", key |-> "pgp-1", valid |-> TRUE]
AgeKey == [ext |-> ".agekey", key |-> "age-1", valid |-> TRUE]
BadAgeKey == [ext |-> ".agekey", key |-> "age-2", valid |-> FALSE]
Readme == [ext |-> ".md", key |-> "none", valid |-> FALSE]
MCSecretChoices == {{PGPKey}, {AgeKey}, {BadAgeKey}, {}, {PGPKey, Readme}}

MCRequests ==
    {[id |-> 1, kns |-> "flux-system", kname |-> "secrets", ns |-> "apps"],
     [id |-> 2, kns |-> "flux-system", kname |-> "secrets", ns |-> "flux-system"]}

=============================================================================
