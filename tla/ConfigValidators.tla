-------------------------- MODULE ConfigValidators --------------------------
(***************************************************************************)
(* The validator and defaulting engine of the cluster specification: the   *)
(* pure functions that vet a loaded specification and fill in what the     *)
(* operator left out.  Its Go code is not in this repository (only its     *)
(* test table is), so every definition here follows the rules of spec.md   *)
(* sections 4.1-4.5, in the order the spec lists them.                     *)
(*                                                                         *)
(* Data abstraction.  Strings that no rule looks inside (user names,       *)
(* regions, instance types, machine addresses) stay opaque strings.  The   *)
(* strings the rules do parse are given their structure: a dotted network  *)
(* address is a sequence of labels, a label a sequence of characters, with *)
(* every letter written "a" (no rule tells letters apart); a fleet         *)
(* Kubernetes version is the triple <<major, minor, patch>> it parses to.  *)
(* An error is the pair <<rule, offending value>>, which is what the error *)
(* text of spec section 4 is formatted from.                               *)
(***************************************************************************)
EXTENDS Integers, SequencesExt

CONSTANTS
    ExistingFiles,   \* the paths the filesystem existence check accepts
    MatchingPairs,   \* the <<certificate, private key>> files that verify
    EnvUser,         \* $USER ("" when unset)
    EnvHome          \* $HOME

NoError == <<"ok">>
Unset == ""

Tracks == {"eks", "wks-ssh", "wks-footloose"}

\* The configuration struct the loader unmarshals a specification into
\* (spec 3), over the abstraction above: every field a string, a number,
\* a parsed address or a list of these.
Address == Seq(Seq(STRING))
NodeGroupT == [name : STRING, instanceType : STRING, desiredCapacity : Int]
MachineT ==
    [role : STRING, publicAddress : STRING, privateAddress : STRING,
     publicPort : Int, privatePort : Int]
CIDRT == [addr : Address, prefix : Int]
EKSConfigT ==
    [kubernetesVersion : STRING, clusterRegion : STRING,
     managedNodeGroupFile : STRING, nodeGroups : Seq(NodeGroupT)]
SSHConfigT == [sshUser : STRING, sshKeyFile : STRING, machines : Seq(MachineT)]
FootlooseConfigT == [backend : STRING, controlPlaneNodes : Int, workerNodes : Int]
WKSConfigT ==
    [kubernetesVersion : Seq(Int), serviceCIDRBlocks : Seq(CIDRT),
     podCIDRBlocks : Seq(CIDRT), controlPlaneLbAddress : Address,
     sshConfig : SSHConfigT, footlooseConfig : FootlooseConfigT]
ClusterSpecs ==
    [track : STRING, clusterName : STRING, dockerIOUser : STRING,
     dockerIOPasswordFile : STRING, gitProvider : STRING, gitUrl : STRING,
     gitProviderOrg : STRING, sealedSecretsCertificate : STRING,
     sealedSecretsPrivateKey : STRING, eksConfig : EKSConfigT, wksConfig : WKSConfigT]

\* A validation rule: the error it reports when its condition fails.
Rule(fails, err) == [fails |-> fails, err |-> err]

\* Fail fast: the error of the first rule, in order, that fails.
FirstError(rules) ==
    LET i == SelectInSeq(rules, LAMBDA r : r.fails)
    IN IF i = 0 THEN NoError ELSE rules[i].err

\* One rule per element of a sequence, in the sequence's order.
EachRule(s, Fails(_), Err(_)) == [i \in 1..Len(s) |-> Rule(Fails(s[i]), Err(s[i]))]

-----------------------------------------------------------------------------
(* Primitive validators (spec 4.5).                                         *)

Digits == {"0", "1", "2", "3", "4", "5", "6", "7", "8", "9"}
DigitValue(d) == CHOOSE v \in 0..9 : ToString(v) = d

\* The decimal value of a label made of digits.
LabelValue(l) ==
    LET val[k \in 0..Len(l)] == IF k = 0 THEN 0 ELSE 10 * val[k - 1] + DigitValue(l[k])
    IN val[Len(l)]

IsOctet(l) == Len(l) \in 1..3 /\ Range(l) \subseteq Digits /\ LabelValue(l) <= 255

\* net.ParseIP for a dotted IPv4 address.
IsIPv4(a) == Len(a) = 4 /\ \A i \in 1..4 : IsOctet(a[i])

\* net.ParseCIDR: an IPv4 address and a prefix length of at most 32.
IsCIDR(c) == IsIPv4(c.addr) /\ c.prefix \in 0..32

\* A DNS domain name: labels of letters, digits and internal hyphens, each
\* of at most 63 characters, at most 253 characters in all.
IsDomainLabel(l) ==
    /\ Len(l) \in 1..63
    /\ Range(l) \subseteq Digits \cup {"a", "-"}
    /\ l[1] # "-"
    /\ l[Len(l)] # "-"

IsDomain(a) ==
    /\ Len(a) >= 1
    /\ \A i \in 1..Len(a) : IsDomainLabel(a[i])
    /\ Len(FlattenSeq(a)) + Len(a) - 1 <= 253

\* 1.14.x-1.15.x by semantic comparison of the parsed version.
InVersionRange(v) == Len(v) = 3 /\ v[1] = 1 /\ v[2] \in 14..15

Exists(path) == path \in ExistingFiles

-----------------------------------------------------------------------------
(* The validators.  Each is the sequence of its rules in the spec's order. *)

\* checkRequiredGlobalValues (spec 4.1).
GlobalRules(c) ==
    << Rule(c.track = Unset, <<"TrackMissing">>),
       Rule(c.track \notin Tracks, <<"TrackInvalid">>),
       Rule(c.dockerIOUser = Unset, <<"FieldMissing", "dockerIOUser">>),
       Rule(c.dockerIOPasswordFile = Unset, <<"FieldMissing", "dockerIOPasswordFile">>) >>

\* checkRequiredGitValues (spec 4.2).
GitRules(c) ==
    << Rule(c.gitProvider \notin {"github", "gitlab"}, <<"GitProviderInvalid">>),
       Rule(c.gitProvider = "gitlab" /\ c.gitUrl = Unset, <<"GitlabUrlMissing">>),
       Rule(c.gitProvider = "github" /\ c.gitProviderOrg = Unset, <<"GithubOrgMissing">>) >>

\* validateSealedSecretsValues (spec 4.3): tls.LoadX509KeyPair reads the
\* certificate file, then the key file, then verifies the pair.
SealedSecretsRules(c) ==
    LET cert == c.sealedSecretsCertificate
        key == c.sealedSecretsPrivateKey
        both == cert # Unset /\ key # Unset
    IN << Rule((cert = Unset) # (key = Unset), <<"SealedSecretsBothRequired">>),
          Rule(both /\ ~Exists(cert), <<"FileRead", cert>>),
          Rule(both /\ ~Exists(key), <<"FileRead", key>>),
          Rule(both /\ <<cert, key>> \notin MatchingPairs, <<"KeyPairMismatch">>) >>

\* checkRequiredEKSValues (spec 4.4).
EKSRules(e) ==
    << Rule(e.kubernetesVersion = Unset, <<"VersionMissing">>),
       Rule(e.clusterRegion = Unset, <<"FieldMissing", "clusterRegion">>),
       Rule(e.kubernetesVersion \notin {"1.14", "1.15"}, <<"EKSVersionInvalid">>),
       Rule(e.managedNodeGroupFile # Unset /\ ~Exists(e.managedNodeGroupFile),
            <<"NoFile", e.managedNodeGroupFile, "managedNodeGroupFile">>) >>
    \o EachRule(e.nodeGroups, LAMBDA g : g.desiredCapacity # 0 /\ g.desiredCapacity < 1,
                LAMBDA g : <<"NodeGroupCapacity">>)

\* checkRequiredWKSValues (spec 4.5): the fleet settings both WKS tracks share.
WKSRules(w) ==
    << Rule(w.kubernetesVersion = <<>>, <<"VersionMissing">>),
       Rule(w.serviceCIDRBlocks = <<>>, <<"ServiceCIDRMissing">>),
       Rule(w.podCIDRBlocks = <<>>, <<"PodCIDRMissing">>),
       Rule(~InVersionRange(w.kubernetesVersion), <<"WKSVersionInvalid", w.kubernetesVersion>>) >>
    \o EachRule(w.serviceCIDRBlocks \o w.podCIDRBlocks, LAMBDA b : ~IsCIDR(b),
                LAMBDA b : <<"CIDRInvalid", b>>)
    \o << Rule(/\ w.controlPlaneLbAddress # <<>>
               /\ ~IsIPv4(w.controlPlaneLbAddress)
               /\ ~IsDomain(w.controlPlaneLbAddress),
               <<"LbAddressInvalid", w.controlPlaneLbAddress>>) >>

\* checkRequiredSSHValues (spec 4.5, remote shell).
SSHRules(s) ==
    LET ms == s.machines
        roles == {ms[i].role : i \in 1..Len(ms)}
    IN << Rule(ms = <<>>, <<"NoMachines">>),
          Rule(ms # <<>> /\ ~({"master", "worker"} \subseteq roles), <<"MachineSetInvalid">>) >>
       \o EachRule(ms, LAMBDA m : m.role = Unset, LAMBDA m : <<"RoleMissing">>)
       \o EachRule(ms, LAMBDA m : m.role \notin {"master", "worker"},
                   LAMBDA m : <<"RoleInvalid", m.role>>)
       \o << Rule(s.sshKeyFile # Unset /\ ~Exists(s.sshKeyFile),
                  <<"NoFile", s.sshKeyFile, "sshKeyFile">>) >>

\* checkRequiredFootlooseValues (spec 4.5, virtual nodes).
FootlooseRules(f) ==
    << Rule(f.backend = Unset, <<"BackendMissing">>),
       Rule(f.backend \notin {"docker", "ignite"}, <<"BackendInvalid">>),
       Rule(f.controlPlaneNodes < 1, <<"ControlPlaneCount">>),
       Rule(f.workerNodes < 1, <<"WorkerCount">>) >>

checkRequiredGlobalValues(c) == FirstError(GlobalRules(c))
checkRequiredGitValues(c) == FirstError(GitRules(c))
validateSealedSecretsValues(c) == FirstError(SealedSecretsRules(c))
checkRequiredEKSValues(e) == FirstError(EKSRules(e))
checkRequiredWKSValues(w) == FirstError(WKSRules(w))
checkRequiredSSHValues(s) == FirstError(SSHRules(s))
checkRequiredFootlooseValues(f) == FirstError(FootlooseRules(f))

\* The track validator the track selects (spec 2, dynamic dispatch).
TrackRules(c) ==
    CASE c.track = "eks" -> EKSRules(c.eksConfig)
      [] c.track = "wks-ssh" -> WKSRules(c.wksConfig) \o SSHRules(c.wksConfig.sshConfig)
      [] c.track = "wks-footloose" ->
            WKSRules(c.wksConfig) \o FootlooseRules(c.wksConfig.footlooseConfig)

-----------------------------------------------------------------------------
(* The defaulters (spec 4.4, 4.5, 6): they fill only what is unset.         *)

IfUnset(v, d) == IF v = Unset THEN d ELSE v
IfZero(v, d) == IF v = 0 THEN d ELSE v

\* Mutant: the "wk-" prefix applied outside the default, to any name.
setDefaultGlobalValuesPrefixAll(c) ==
    [c EXCEPT !.clusterName = "wk-" \o IfUnset(@, IfUnset(EnvUser, "cluster"))]

\* setDefaultGlobalValues: clusterName "wk-" followed by $USER or "cluster".
setDefaultGlobalValues(c) ==
    [c EXCEPT !.clusterName = IfUnset(@, "wk-" \o IfUnset(EnvUser, "cluster"))]

\* setDefaultEKSValues: one "ng-0" group of three m5.large when there is
\* none; otherwise group i gets the name "ng-<i>" and capacity 3 if unset.
DefaultNodeGroup == [name |-> "ng-0", instanceType |-> "m5.large", desiredCapacity |-> 3]

setDefaultEKSValues(e) ==
    LET gs == e.nodeGroups IN
    [e EXCEPT !.nodeGroups =
        IF gs = <<>> THEN <<DefaultNodeGroup>>
        ELSE [i \in 1..Len(gs) |->
                [gs[i] EXCEPT !.name = IfUnset(gs[i].name, "ng-" \o ToString(i - 1)),
                              !.desiredCapacity = IfZero(gs[i].desiredCapacity, 3)]]]

\* Mutant: the SSH defaulter that sets both ports to 22 unconditionally.
setDefaultSSHValuesResetsPorts(s) ==
    LET ms == s.machines IN
    [s EXCEPT !.sshUser = IfUnset(@, "root"),
              !.sshKeyFile = IfUnset(@, EnvHome \o "/.ssh/id_rsa"),
              !.machines = [i \in 1..Len(ms) |->
                  [ms[i] EXCEPT !.publicPort = 22,
                                !.privatePort = 22,
                                !.privateAddress = IfUnset(ms[i].privateAddress, ms[i].publicAddress)]]]

\* setDefaultSSHValues: user root, key $HOME/.ssh/id_rsa, ports 22, and
\* the private address of a machine its public one.
setDefaultSSHValues(s) ==
    LET ms == s.machines IN
    [s EXCEPT !.sshUser = IfUnset(@, "root"),
              !.sshKeyFile = IfUnset(@, EnvHome \o "/.ssh/id_rsa"),
              !.machines = [i \in 1..Len(ms) |->
                  [ms[i] EXCEPT !.publicPort = IfZero(ms[i].publicPort, 22),
                                !.privatePort = IfZero(ms[i].privatePort, 22),
                                !.privateAddress = IfUnset(ms[i].privateAddress, ms[i].publicAddress)]]]

\* The defaulters of the validated track, after the global one.
DefaultAll(c) ==
    LET g == setDefaultGlobalValues(c) IN
    CASE c.track = "eks" -> [g EXCEPT !.eksConfig = setDefaultEKSValues(@)]
      [] c.track = "wks-ssh" -> [g EXCEPT !.wksConfig.sshConfig = setDefaultSSHValues(@)]
      [] OTHER -> g

=============================================================================
