------------------------- MODULE SopsEncryptProofs --------------------------
(***************************************************************************)
(* Proofs about SopsEncrypt for every set of namespaces, names, requests   *)
(* and Secret contents that SopsAssumption allows, with any interleaving   *)
(* of requests and of the actors that apply Kustomizations and Secrets.   *)
(***************************************************************************)
EXTENDS SopsEncrypt, TLAPS

(***************************************************************************)
(* A request's answer is NoResp until its handler returns, so a step can   *)
(* only encrypt for the request it serves; every Secret holds one of the  *)
(* contents the actors apply, and a request past its first read holds a  *)
(* secretRef that names a Secret.                                          *)
(***************************************************************************)
IInv ==
    /\ pc \in [Requests -> {"start", "read", "done"}]
    /\ DOMAIN resp = Requests /\ DOMAIN snap = Requests
    /\ kusts \in [Namespaces \X KustNames -> KustChoices \cup {NoKust}]
    /\ secrets \in [Namespaces \X SecretNames -> SecretChoices \cup {NoSecret}]
    /\ \A r \in Requests : pc[r] # "done" => resp[r] = NoResp
    /\ \A r \in Requests : pc[r] = "read" => snap[r].secretRef \in SecretNames

\* The step formula of EncryptsForDecryptionSecret.
EncryptOk ==
    \A r \in Requests :
         (pc[r] # "done" /\ resp'[r].ok) =>
             /\ resp'[r].key \in UsableKeys(secrets[<<r.kns, snap[r].secretRef>>])
             /\ resp'[r].path = snap[r].path
             /\ (\E f \in secrets[<<r.kns, snap[r].secretRef>>] :
                    f.key = resp'[r].key /\ f.ext = ".asc" /\ f.valid) => resp'[r].key \in keyring'

LEMMA NoRespNotOk == ~NoResp.ok /\ \A e : ~Err(e).ok
  BY DEF NoResp, Err

\* The three branches of encryptSecret's switch on the extension.
LEMMA EncryptWithCases ==
    ASSUME NEW r, NEW f, EncryptWith(r, f)
    PROVE  \/ f.ext = ".asc" /\ f.valid /\ GpgWorks /\ keyring' = keyring \cup {f.key}
              /\ Answer(r, Ok(f.key, snap[r].path))
           \/ f.ext = ".agekey" /\ f.valid /\ Answer(r, Ok(f.key, snap[r].path))
           \/ Answer(r, Err("encrypt"))
  BY DEF EncryptWith, ImportPGPKey

\* A step that answers request r0 leaves every other answer as it was.
LEMMA AnswerOthers ==
    ASSUME IInv, NEW r0 \in Requests, NEW a, Answer(r0, a)
    PROVE  /\ resp'[r0] = a /\ pc'[r0] = "done"
           /\ \A r \in Requests \ {r0} : resp'[r] = resp[r] /\ pc'[r] = pc[r]
           /\ pc' \in [Requests -> {"start", "read", "done"}] /\ DOMAIN resp' = Requests
  BY DEF Answer, IInv

LEMMA InitIInv == Init => IInv
  BY SopsAssumption DEF Init, IInv

LEMMA NextIInv == IInv /\ [Next]_vars => IInv'
<1> SUFFICES ASSUME IInv, [Next]_vars PROVE IInv'
  OBVIOUS
<1>1. ASSUME NEW r0 \in Requests, GetKustomization(r0) PROVE IInv'
  <2> DEFINE k == kusts[<<r0.kns, r0.kname>>]
  <2>1. <<r0.kns, r0.kname>> \in Namespaces \X KustNames
    BY SopsAssumption
  <2>2. k \in KustChoices \cup {NoKust}
    BY <2>1 DEF IInv
  <2>3. pc[r0] = "start"
    BY <1>1 DEF GetKustomization
  <2>4. CASE \E a : Answer(r0, a) /\ UNCHANGED snap
    BY <2>4, AnswerOthers, <1>1 DEF GetKustomization, IInv
  <2>5. CASE k.present /\ k.decryption /\ k.secretRef # NoRef
             /\ pc' = [pc EXCEPT ![r0] = "read"] /\ snap' = [snap EXCEPT ![r0] = k]
             /\ UNCHANGED resp
    <3>a. k # NoKust
      <4>1. NoKust.present = FALSE
        BY DEF NoKust
      <4>2. k.present
        BY <2>5
      <4>3. QED
        BY <4>1, <4>2
    <3>0. k \in KustChoices
      BY <2>2, <3>a
    <3>1. k.secretRef \in SecretNames
      BY <3>0, <2>5, SopsAssumption
    <3>2. QED
      BY <1>1, <2>3, <2>5, <3>1 DEF GetKustomization, IInv
  <2>6. QED
    BY <1>1, <2>4, <2>5 DEF GetKustomization
<1>2. ASSUME NEW r0 \in Requests, Encrypt(r0) PROVE IInv'
  <2>1. \E a : Answer(r0, a)
    BY <1>2, EncryptWithCases DEF Encrypt
  <2>2. QED
    BY <1>2, <2>1, AnswerOthers DEF Encrypt, IInv
<1>3. CASE ListSOPSKustomizations
  BY <1>3 DEF ListSOPSKustomizations, IInv
<1>4. ASSUME NEW nk \in DOMAIN kusts, NEW k \in KustChoices, ApplyKustomization(nk, k) PROVE IInv'
  BY <1>4 DEF ApplyKustomization, IInv
<1>5. ASSUME NEW ns \in DOMAIN secrets, NEW c \in SecretChoices, ApplySecret(ns, c) PROVE IInv'
  BY <1>5 DEF ApplySecret, IInv
<1>6. CASE UNCHANGED vars
  BY <1>6 DEF vars, IInv
<1>7. QED
  BY <1>1, <1>2, <1>3, <1>4, <1>5, <1>6 DEF Next

LEMMA NextEncryptOk == IInv /\ [Next]_vars => EncryptOk
<1> SUFFICES ASSUME IInv, [Next]_vars, NEW r \in Requests, pc[r] # "done", resp'[r].ok
             PROVE  /\ resp'[r].key \in UsableKeys(secrets[<<r.kns, snap[r].secretRef>>])
                    /\ resp'[r].path = snap[r].path
                    /\ (\E f \in secrets[<<r.kns, snap[r].secretRef>>] :
                           f.key = resp'[r].key /\ f.ext = ".asc" /\ f.valid)
                       => resp'[r].key \in keyring'
  BY DEF EncryptOk
<1>1. resp[r] = NoResp /\ ~resp[r].ok
  BY NoRespNotOk DEF IInv
\* No other step answers r with an encrypted secret.
<1>2. ASSUME NEW r0 \in Requests, NEW a, Answer(r0, a), r0 # r PROVE FALSE
  BY <1>1, <1>2, AnswerOthers
<1>3. ASSUME NEW r0 \in Requests, GetKustomization(r0) PROVE FALSE
  <2>1. CASE r0 = r
    BY <1>3, <2>1, <1>1, NoRespNotOk DEF GetKustomization, Answer, IInv
  <2>2. CASE r0 # r
    BY <1>3, <2>2, <1>1, <1>2 DEF GetKustomization
  <2>3. QED
    BY <2>1, <2>2
<1>4. ASSUME NEW r0 \in Requests, Encrypt(r0), r0 # r PROVE FALSE
  <2>1. \E a : Answer(r0, a)
    BY <1>4, EncryptWithCases DEF Encrypt
  <2>2. QED
    BY <2>1, <1>2, <1>4
\* The step is Encrypt(r): it answers with the key of an entry it read.
<1>5. ASSUME Encrypt(r) PROVE FALSE \/ 
             /\ resp'[r].key \in UsableKeys(secrets[<<r.kns, snap[r].secretRef>>])
             /\ resp'[r].path = snap[r].path
             /\ (\E f \in secrets[<<r.kns, snap[r].secretRef>>] :
                    f.key = resp'[r].key /\ f.ext = ".asc" /\ f.valid)
                => resp'[r].key \in keyring'
  <2> DEFINE s == secrets[<<r.kns, snap[r].secretRef>>]
  <2>1. s \in SecretChoices \cup {NoSecret}
    <3>1. pc[r] = "read"
      BY <1>5 DEF Encrypt
    <3>2. <<r.kns, snap[r].secretRef>> \in Namespaces \X SecretNames
      BY <3>1, SopsAssumption DEF IInv
    <3>3. QED
      BY <3>2 DEF IInv
  <2>2. ASSUME NEW e, resp'[r] = Err(e) PROVE FALSE
    BY <2>2, NoRespNotOk
  <2>3. CASE Answer(r, Err("getDecryptionKey"))
    BY <2>3, <2>2 DEF Answer, IInv
  <2>4. CASE s # NoSecret /\ s = {} /\ Answer(r, Err("unmarshal"))
    BY <2>4, <2>2 DEF Answer, IInv
  <2>5. ASSUME NEW f \in s, s # NoSecret, EncryptWith(r, f)
        PROVE  FALSE \/ 
               /\ resp'[r].key \in UsableKeys(s)
               /\ resp'[r].path = snap[r].path
               /\ (\E g \in s : g.key = resp'[r].key /\ g.ext = ".asc" /\ g.valid)
                  => resp'[r].key \in keyring'
    <3>1. s \in SecretChoices
      BY <2>1, <2>5
    <3>2. CASE f.ext = ".asc" /\ f.valid /\ GpgWorks /\ keyring' = keyring \cup {f.key}
               /\ Answer(r, Ok(f.key, snap[r].path))
      <4>1. resp'[r] = Ok(f.key, snap[r].path)
        BY <3>2 DEF Answer, IInv
      <4>2. f.key \in UsableKeys(s)
        BY <3>2 DEF UsableKeys, KeyExts
      <4>3. QED
        BY <3>2, <4>1, <4>2 DEF Ok
    <3>3. CASE f.ext = ".agekey" /\ f.valid /\ Answer(r, Ok(f.key, snap[r].path))
      <4>1. resp'[r] = Ok(f.key, snap[r].path)
        BY <3>3 DEF Answer, IInv
      <4>2. f.key \in UsableKeys(s)
        BY <3>3 DEF UsableKeys, KeyExts
      <4>3. ASSUME NEW g \in s, g.key = f.key, g.ext = ".asc", g.valid PROVE FALSE
        <5>1. g.ext = f.ext
          BY <3>1, <3>3, <4>3, SopsAssumption DEF KeyExts
        <5>2. QED
          BY <5>1, <3>3, <4>3
      <4>4. QED
        BY <4>1, <4>2, <4>3 DEF Ok
    <3>4. CASE Answer(r, Err("encrypt"))
      BY <3>4, <2>2 DEF Answer, IInv
    <3>5. QED
      BY <2>5, <3>2, <3>3, <3>4, EncryptWithCases
  <2>6. QED
    BY <1>5, <2>3, <2>4, <2>5 DEF Encrypt, DecryptionSecret
<1>6. ASSUME resp' = resp PROVE FALSE
  BY <1>6, <1>1
<1>7. CASE \E r0 \in Requests : GetKustomization(r0) \/ Encrypt(r0)
  <2>1. PICK r0 \in Requests : GetKustomization(r0) \/ Encrypt(r0)
    BY <1>7
  <2>2. CASE r0 = r /\ Encrypt(r0)
    BY <2>2, <1>5
  <2>3. QED
    BY <2>1, <2>2, <1>3, <1>4
<1>8. CASE ListSOPSKustomizations
  BY <1>8, <1>6 DEF ListSOPSKustomizations
<1>9. CASE \E nk \in DOMAIN kusts, k \in KustChoices : ApplyKustomization(nk, k)
  BY <1>9, <1>6 DEF ApplyKustomization
<1>10. CASE \E ns \in DOMAIN secrets, c \in SecretChoices : ApplySecret(ns, c)
  BY <1>10, <1>6 DEF ApplySecret
<1>11. CASE UNCHANGED vars
  BY <1>11, <1>6 DEF vars
<1>12. QED
  BY <1>7, <1>8, <1>9, <1>10, <1>11 DEF Next

\* SopsEncryptSecret answers with an encrypted secret only for the key of
\* an entry of the decryption Secret its Kustomization names, read in the
\* Kustomization's namespace, with that Kustomization's path, and a PGP
\* key only once it is imported into the shared keyring: for every
\* interleaving of concurrent requests and cluster changes.
THEOREM EncryptsForDecryptionSecretHolds == Spec => EncryptsForDecryptionSecret
<1>1. Init => IInv
  BY InitIInv
<1>2. IInv /\ [Next]_vars => IInv'
  BY NextIInv
<1>3. IInv /\ [Next]_vars => EncryptOk
  BY NextEncryptOk
<1>4. QED
  BY <1>1, <1>2, <1>3, PTL DEF Spec, EncryptsForDecryptionSecret, EncryptOk

=============================================================================
