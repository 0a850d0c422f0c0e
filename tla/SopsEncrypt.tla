----------------------------- MODULE SopsEncrypt -----------------------------
(***************************************************************************)
(* The SOPS handlers of cmd/clusters-service/pkg/server/sops.go.           *)
(* SopsEncryptSecret reads a Flux Kustomization, then (a second API call)  *)
(* the decryption Secret its spec.decryption.secretRef names, and encrypts *)
(* the new secret with the first key of that Secret's data in Go's map     *)
(* order.  For a PGP key it first imports the key into the server's gpg    *)
(* keyring, which every request shares.  ListSOPSKustomizations lists the  *)
(* Kustomizations whose decryption provider is "sops", compared ignoring   *)
(* case.  Requests are served concurrently; other actors change the        *)
(* cluster between the two reads of a request.                             *)
(* A data entry of the decryption Secret is abstracted to the extension of *)
(* its name, the key it holds, and whether that key parses.                *)
(***************************************************************************)
EXTENDS Naturals, Sequences

CONSTANTS
    Namespaces,      \* namespaces of the cluster
    KustNames,       \* Kustomization names
    SecretNames,     \* Secret names a secretRef may give
    KustChoices,     \* Kustomization specs other actors apply
    SecretChoices,   \* decryption Secret contents other actors apply
    Requests,        \* SopsEncryptSecretRequests: [id, kns, kname, ns]
    GpgWorks         \* the gpg binary ($SOPS_GPG_EXEC or gpg) runs

NoRef == "nil"                                     \* secretRef == nil
NoKust == [present |-> FALSE, decryption |-> FALSE, provider |-> <<>>,
           secretRef |-> NoRef, path |-> ""]         \* not found
NoSecret == {[ext |-> "absent", key |-> "none", valid |-> FALSE]}   \* not found
KeyExts == {".asc", ".agekey"}                     \* DecryptionPGPExt, DecryptionAgeExt

ASSUME SopsAssumption ==
    /\ \A k \in KustChoices : k.present /\ k.secretRef \in SecretNames \cup {NoRef}
    /\ \A r \in Requests : r.kns \in Namespaces /\ r.ns \in Namespaces /\ r.kname \in KustNames
    /\ GpgWorks \in BOOLEAN
    \* An armored PGP key and an age identity are different texts: one key
    \* never parses as both.
    /\ \A c \in SecretChoices : \A e1, e2 \in c :
          e1.key = e2.key /\ e1.valid /\ e2.valid /\ {e1.ext, e2.ext} \subseteq KeyExts
          => e1.ext = e2.ext

VARIABLES
    kusts,     \* <<namespace, name>> -> Kustomization, or NoKust
    secrets,   \* <<namespace, name>> -> the Secret's data entries, or NoSecret
    keyring,   \* fingerprints imported into the server's gpg keyring
    pc,        \* request -> "start", "read" (Kustomization read) or "done"
    snap,      \* request -> the Kustomization its first read returned
    resp,      \* request -> its answer
    got,       \* request -> the decryption Secret its second read returned
    listed     \* the latest ListSOPSKustomizations answer

vars == <<kusts, secrets, keyring, pc, snap, resp, got, listed>>

NoResp == [ok |-> FALSE, err |-> "none", key |-> "none", path |-> ""]
Err(e) == [NoResp EXCEPT !.err = e]
Ok(key, path) == [ok |-> TRUE, err |-> "none", key |-> key, path |-> path]

Init ==
    /\ kusts = [nk \in Namespaces \X KustNames |-> NoKust]
    /\ secrets = [ns \in Namespaces \X SecretNames |-> NoSecret]
    /\ keyring = {}
    /\ pc = [r \in Requests |-> "start"]
    /\ snap = [r \in Requests |-> NoKust]
    /\ resp = [r \in Requests |-> NoResp]
    /\ got = [r \in Requests |-> NoSecret]
    /\ listed = "none"

Answer(r, a) ==
    /\ pc' = [pc EXCEPT ![r] = "done"]
    /\ resp' = [resp EXCEPT ![r] = a]

\* First half of SopsEncryptSecret: the impersonated client, the Get of
\* the Kustomization and its two nil checks.
GetKustomization(r) ==
    LET k == kusts[<<r.kns, r.kname>>] IN
    /\ pc[r] = "start"
    /\ \/ Answer(r, Err("client")) /\ UNCHANGED snap   \* client or API error
       \/ ~k.present /\ Answer(r, Err("getKustomization")) /\ UNCHANGED snap
       \/ k.present /\ ~k.decryption /\ Answer(r, Err("missingDecryption")) /\ UNCHANGED snap
       \/ k.present /\ k.decryption /\ k.secretRef = NoRef
          /\ Answer(r, Err("noSecretRef")) /\ UNCHANGED snap
       \/ k.present /\ k.decryption /\ k.secretRef # NoRef
          /\ pc' = [pc EXCEPT ![r] = "read"] /\ snap' = [snap EXCEPT ![r] = k]
          /\ UNCHANGED resp
    /\ UNCHANGED <<kusts, secrets, keyring, got, listed>>

\* importPGPKey: gpg --batch --import of the armored key; it adds the key
\* to the keyring shared by every request and never removes it.
ImportPGPKey(key) == keyring' = keyring \cup {key}

\* encryptSecret on one data entry: EncryptWithPGP (parse, gpg --import,
\* encrypt), EncryptWithAGE (parse, encrypt with the first recipient), or
\* "invalid secret" for any other extension.
EncryptWith(r, f) ==
    CASE f.ext = ".asc" /\ f.valid /\ GpgWorks ->
            ImportPGPKey(f.key) /\ Answer(r, Ok(f.key, snap[r].path))
      [] f.ext = ".agekey" /\ f.valid ->
            UNCHANGED keyring /\ Answer(r, Ok(f.key, snap[r].path))
      [] OTHER -> UNCHANGED keyring /\ Answer(r, Err("encrypt"))

\* Mutant: the decryption Secret is looked up in the new secret's
\* namespace (msg.Namespace) instead of msg.KustomizationNamespace.
DecryptionSecretInTargetNs(r) == secrets[<<r.ns, snap[r].secretRef>>]

\* The decryption Secret's key: the secretRef's name in the
\* Kustomization's namespace.
DecryptionSecret(r) == secrets[<<r.kns, snap[r].secretRef>>]

\* Second half: the Get of the decryption Secret, generateSecret (which
\* cannot fail on these inputs), encryptSecret, which returns on the
\* first data entry in map order, and the unmarshal of its output (nil
\* for a Secret without data, which fails to unmarshal).
Encrypt(r) ==
    LET s == DecryptionSecret(r) IN
    /\ pc[r] = "read"
    /\ \/ Answer(r, Err("getDecryptionKey")) /\ UNCHANGED <<keyring, got>>
       \/ s = NoSecret /\ Answer(r, Err("getDecryptionKey")) /\ UNCHANGED <<keyring, got>>
       \/ s # NoSecret /\ got' = [got EXCEPT ![r] = s]
          /\ \/ s = {} /\ Answer(r, Err("unmarshal")) /\ UNCHANGED keyring
             \/ \E f \in s : EncryptWith(r, f)
    /\ UNCHANGED <<kusts, secrets, snap, listed>>

\* strings.EqualFold on ASCII: equal after mapping upper case to lower.
Upper == <<"A","B","C","D","E","F","G","H","I","J","K","L","M","N","O","P","Q","R","S","T","U","V","W","X","Y","Z">>
Lower == <<"a","b","c","d","e","f","g","h","i","j","k","l","m","n","o","p","q","r","s","t","u","v","w","x","y","z">>
Fold(c) == IF \E i \in 1..26 : Upper[i] = c THEN Lower[CHOOSE i \in 1..26 : Upper[i] = c] ELSE c
EqualFold(a, b) == Len(a) = Len(b) /\ \A i \in 1..Len(a) : Fold(a[i]) = Fold(b[i])

\* ListSOPSKustomizations: the client, the List, and the filter.
ListSOPSKustomizations ==
    /\ \/ listed' = "error"
       \/ listed' = {nk \in DOMAIN kusts : kusts[nk].present /\ kusts[nk].decryption
                                           /\ EqualFold(kusts[nk].provider, <<"s","o","p","s">>)}
    /\ UNCHANGED <<kusts, secrets, keyring, pc, snap, resp, got>>

\* Other actors apply Kustomizations and decryption Secrets.
ApplyKustomization(nk, k) ==
    /\ kusts' = [kusts EXCEPT ![nk] = k]
    /\ UNCHANGED <<secrets, keyring, pc, snap, resp, got, listed>>

ApplySecret(ns, c) ==
    /\ secrets' = [secrets EXCEPT ![ns] = c]
    /\ UNCHANGED <<kusts, keyring, pc, snap, resp, got, listed>>

Next ==
    \/ \E r \in Requests : GetKustomization(r) \/ Encrypt(r)
    \/ ListSOPSKustomizations
    \/ \E nk \in DOMAIN kusts, k \in KustChoices : ApplyKustomization(nk, k)
    \/ \E ns \in DOMAIN secrets, c \in SecretChoices : ApplySecret(ns, c)

Spec == Init /\ [][Next]_vars

-----------------------------------------------------------------------------
(* Properties *)

\* A Secret entry that can encrypt: a key of a known extension that parses.
UsableKeys(s) == {f.key : f \in {e \in s : e.ext \in KeyExts /\ e.valid}}

\* A step that answers a request with an encrypted secret used a usable
\* key of the decryption Secret named by the Kustomization's secretRef,
\* in the Kustomization's namespace, as that Secret is when it is read;
\* it returns that Kustomization's path, and when that key is a PGP key
\* (a .asc entry that parses) it is in the keyring.
EncryptsForDecryptionSecret ==
    [][\A r \in Requests :
         (pc[r] # "done" /\ resp'[r].ok) =>
             /\ resp'[r].key \in UsableKeys(secrets[<<r.kns, snap[r].secretRef>>])
             /\ resp'[r].path = snap[r].path
             /\ (\E f \in secrets[<<r.kns, snap[r].secretRef>>] :
                    f.key = resp'[r].key /\ f.ext = ".asc" /\ f.valid) => resp'[r].key \in keyring'
      ]_vars

\* The answer is a function of what the handler read: two requests whose
\* reads returned the same decryption Secret are both encrypted or both
\* refused ("invalid secret" means the Secret is invalid).
SameSecretSameOutcome ==
    \A r1, r2 \in Requests :
        (pc[r1] = "done" /\ pc[r2] = "done" /\ got[r1] = got[r2] /\ got[r1] # NoSecret)
        => resp[r1].ok = resp[r2].ok

=============================================================================
