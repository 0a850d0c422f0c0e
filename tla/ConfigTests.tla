----------------------------- MODULE ConfigTests -----------------------------
(***************************************************************************)
(* The repository's table-driven Go tests of the validators and the        *)
(* defaulters (the config test file kept in                                *)
(* ui-cra/src/components/LoadingError.tsx after the component), written as *)
(* data over the abstraction of ConfigValidators: each table is the        *)
(* sequence of its rows <<input, expected>>, where an input is the zero    *)
(* configuration unmarshalConfig leaves for the YAML fields the test       *)
(* omits, and the expected error is the error text the test compares,      *)
(* parsed back to its rule and value.                                      *)
(***************************************************************************)
EXTENDS ConfigValidators

Machine(role, addr) ==
    [role |-> role, publicAddress |-> addr, privateAddress |-> Unset,
     publicPort |-> 0, privatePort |-> 0]

NodeGroup(name, type, capacity) ==
    [name |-> name, instanceType |-> type, desiredCapacity |-> capacity]

\* The zero value of the configuration struct.
ZeroConfig ==
    [track |-> Unset, clusterName |-> Unset,
     dockerIOUser |-> Unset, dockerIOPasswordFile |-> Unset,
     gitProvider |-> Unset, gitUrl |-> Unset, gitProviderOrg |-> Unset,
     sealedSecretsCertificate |-> Unset, sealedSecretsPrivateKey |-> Unset,
     eksConfig |-> [kubernetesVersion |-> Unset, clusterRegion |-> Unset,
                    managedNodeGroupFile |-> Unset, nodeGroups |-> <<>>],
     wksConfig |-> [kubernetesVersion |-> <<>>, serviceCIDRBlocks |-> <<>>,
                    podCIDRBlocks |-> <<>>, controlPlaneLbAddress |-> <<>>,
                    sshConfig |-> [sshUser |-> Unset, sshKeyFile |-> Unset, machines |-> <<>>],
                    footlooseConfig |-> [backend |-> Unset, controlPlaneNodes |-> 0,
                                         workerNodes |-> 0]]]

\* Parsed forms of the addresses the tests use.
Addr_10_96_0_0 == <<<<"1", "0">>, <<"9", "6">>, <<"0">>, <<"0">>>>
Addr_1000_96_0_0 == <<<<"1", "0", "0", "0">>, <<"9", "6">>, <<"0">>, <<"0">>>>
Addr_192_168_1_0 == <<<<"1", "9", "2">>, <<"1", "6", "8">>, <<"1">>, <<"0">>>>
Addr_192_1680_1_0 == <<<<"1", "9", "2">>, <<"1", "6", "8", "0">>, <<"1">>, <<"0">>>>
Domain_hello_World_com == <<<<"a", "-", "a">>, <<"a">>>>
Domain_hello_World__com == <<<<"a", "-", "a", "-">>, <<"a">>>>

Globals(track, user, pw) ==
    [ZeroConfig EXCEPT !.track = track, !.dockerIOUser = user, !.dockerIOPasswordFile = pw]

\* TestRequiredGlobals and its configurations.
TestRequiredGlobals ==
    << <<Globals("eks", "TheodoreLogan", "testdata/passwordFile"), NoError>>,
       <<Globals("eks", "TheodoreLogan", "testdata/passwordFile"), NoError>>,
       <<Globals("wks-ssh", "TheodoreLogan", "testdata/passwordFile"), NoError>>,
       <<Globals("wks-footloose", "TheodoreLogan", "testdata/passwordFile"), NoError>>,
       <<Globals("footlose", "TheodoreLogan", "testdata/passwordFile"), <<"TrackInvalid">>>>,
       <<Globals(Unset, "TheodoreLogan", "testdata/passwordFile"), <<"TrackMissing">>>>,
       <<Globals("wks-ssh", Unset, "testdata/passwordFile"), <<"FieldMissing", "dockerIOUser">>>>,
       <<Globals("wks-ssh", "TheodoreLogan", Unset), <<"FieldMissing", "dockerIOPasswordFile">>>> >>

Git(provider, url, org) ==
    [ZeroConfig EXCEPT !.gitProvider = provider, !.gitUrl = url, !.gitProviderOrg = org]

\* TestValidateGitValues and its configurations.
TestValidateGitValues ==
    << <<Git(Unset, "foo", Unset), <<"GitProviderInvalid">>>>,
       <<Git("gitlab", "foo", Unset), NoError>>,
       <<Git("github", Unset, "foo"), NoError>>,
       <<Git("gitlab", Unset, Unset), <<"GitlabUrlMissing">>>>,
       <<Git("github", Unset, Unset), <<"GithubOrgMissing">>>>,
       <<Git("bitbucket", Unset, Unset), <<"GitProviderInvalid">>>>,
       <<Git(Unset, Unset, Unset), <<"GitProviderInvalid">>>> >>

Sealed(cert, key) ==
    [ZeroConfig EXCEPT !.sealedSecretsCertificate = cert, !.sealedSecretsPrivateKey = key]

\* TestValidateSealedSecretsValues and its configurations.
TestValidateSealedSecretsValues ==
    << <<Sealed(Unset, Unset), NoError>>,
       <<Sealed(Unset, "testdata/sealedSecretsKey"), <<"SealedSecretsBothRequired">>>>,
       <<Sealed("testdata/sealedSecretsCert.crt", Unset), <<"SealedSecretsBothRequired">>>>,
       <<Sealed("testdata/sealedSecretsCert.crt", "testdata/sealedSecretsKey"), NoError>>,
       <<Sealed("testdata/nonMatchingCert.crt", "testdata/sealedSecretsKey"),
         <<"KeyPairMismatch">>>> >>

EKS(version, region, file, groups) ==
    [kubernetesVersion |-> version, clusterRegion |-> region,
     managedNodeGroupFile |-> file, nodeGroups |-> groups]

\* TestRequiredEKSValues and its configurations.
TestRequiredEKSValues ==
    << <<EKS("1.14", "eu-north-1", "testdata/managedNodeGroups.yaml", <<>>), NoError>>,
       <<EKS("1.14", "eu-north-1", Unset,
             <<NodeGroup("my-first-node-group", "m5.small", 1),
               NodeGroup("my-second-node-group", "m5.large", 2)>>), NoError>>,
       <<EKS("1.14", "eu-north-1", Unset,
             <<NodeGroup("my-first-node-group", "m5.small", 1),
               NodeGroup("my-second-node-group", "m5.large", -1)>>), <<"NodeGroupCapacity">>>>,
       <<EKS(Unset, "eu-north-1", Unset, <<>>), <<"VersionMissing">>>>,
       <<EKS("1.14", Unset, Unset, <<>>), <<"FieldMissing", "clusterRegion">>>>,
       <<EKS("1.16", "eu-north-1", Unset, <<>>), <<"EKSVersionInvalid">>>>,
       <<EKS("1.14", "eu-north-1", "628wanda496", <<>>),
         <<"NoFile", "628wanda496", "managedNodeGroupFile">>>> >>

CIDR(addr, prefix) == [addr |-> addr, prefix |-> prefix]

WKS(version, service, pod, lb) ==
    [ZeroConfig.wksConfig EXCEPT !.kubernetesVersion = version, !.serviceCIDRBlocks = service,
                                 !.podCIDRBlocks = pod, !.controlPlaneLbAddress = lb]

ServiceOK == <<CIDR(Addr_10_96_0_0, 12)>>
PodOK == <<CIDR(Addr_192_168_1_0, 16)>>

\* TestInvalidWKSValues and its configurations.
TestInvalidWKSValues ==
    << <<WKS(<<1, 14, 1>>, ServiceOK, PodOK, <<>>), NoError>>,
       <<WKS(<<>>, ServiceOK, PodOK, <<>>), <<"VersionMissing">>>>,
       <<WKS(<<1, 14, 1>>, <<>>, PodOK, <<>>), <<"ServiceCIDRMissing">>>>,
       <<WKS(<<1, 14, 1>>, ServiceOK, <<>>, <<>>), <<"PodCIDRMissing">>>>,
       <<WKS(<<1, 16, 1>>, ServiceOK, PodOK, <<>>), <<"WKSVersionInvalid", <<1, 16, 1>>>>>>,
       <<WKS(<<1, 14, 1>>, <<CIDR(Addr_1000_96_0_0, 12)>>, PodOK, <<>>),
         <<"CIDRInvalid", CIDR(Addr_1000_96_0_0, 12)>>>>,
       <<WKS(<<1, 14, 1>>, ServiceOK, <<CIDR(Addr_192_1680_1_0, 16)>>, <<>>),
         <<"CIDRInvalid", CIDR(Addr_192_1680_1_0, 16)>>>>,
       <<WKS(<<1, 14, 1>>, ServiceOK, PodOK, Addr_192_1680_1_0),
         <<"LbAddressInvalid", Addr_192_1680_1_0>>>>,
       <<WKS(<<1, 14, 1>>, ServiceOK, PodOK, Domain_hello_World__com),
         <<"LbAddressInvalid", Domain_hello_World__com>>>> >>

\* TestValidWKSValues: both configurations pass.
TestValidWKSValues ==
    << <<WKS(<<1, 14, 1>>, ServiceOK, PodOK, Addr_192_168_1_0), NoError>>,
       <<WKS(<<1, 14, 1>>, ServiceOK, PodOK, Domain_hello_World_com), NoError>> >>

SSH(key, machines) ==
    [ZeroConfig.wksConfig.sshConfig EXCEPT !.sshKeyFile = key, !.machines = machines]

TwoMachines == <<Machine("master", "172.17.20.5"), Machine("worker", "172.17.20.6")>>

\* TestRequiredSSHValues and its configurations.
TestRequiredSSHValues ==
    << <<SSH(Unset, TwoMachines), NoError>>,
       <<SSH("testdata/sshKey", TwoMachines), NoError>>,
       <<SSH(Unset, <<>>), <<"NoMachines">>>>,
       <<SSH(Unset, <<Machine("master", "172.17.20.5")>>), <<"MachineSetInvalid">>>>,
       <<SSH(Unset, <<Machine("worker", "172.17.20.5")>>), <<"MachineSetInvalid">>>>,
       <<SSH(Unset, <<Machine(Unset, "172.17.20.5"), Machine("worker", "172.17.20.6")>>),
         <<"RoleMissing">>>>,
       <<SSH(Unset, <<Machine("supervisor", "172.17.20.5"), Machine("worker", "172.17.20.6")>>),
         <<"RoleInvalid", "supervisor">>>>,
       <<SSH("8128goober", TwoMachines), <<"NoFile", "8128goober", "sshKeyFile">>>> >>

Footloose(backend, cp, workers) ==
    [backend |-> backend, controlPlaneNodes |-> cp, workerNodes |-> workers]

\* TestRequiredFootlooseValues and its configurations.
TestRequiredFootlooseValues ==
    << <<Footloose("docker", 1, 1), NoError>>,
       <<Footloose("ignite", 1, 1), NoError>>,
       <<Footloose(Unset, 1, 1), <<"BackendMissing">>>>,
       <<Footloose("igniter", 1, 1), <<"BackendInvalid">>>>,
       <<Footloose("ignite", -1, 1), <<"ControlPlaneCount">>>>,
       <<Footloose("ignite", 0, 1), <<"ControlPlaneCount">>>>,
       <<Footloose("ignite", 1, -1), <<"WorkerCount">>>>,
       <<Footloose("ignite", 1, 0), <<"WorkerCount">>>> >>

\* A table agrees with a validator when every row gets its expected error.
TableAgrees(table, Check(_)) == \A r \in Range(table) : Check(r[1]) = r[2]

\* TestDefaultGlobals, TestDefaultEKSValues and TestDefaultSSHValues: what
\* the defaulters must have filled in.
DefaultTestsAgree ==
    /\ setDefaultGlobalValues(Globals("eks", "TheodoreLogan", "testdata/passwordFile")).clusterName
           = "wk-" \o IfUnset(EnvUser, "cluster")
    /\ setDefaultEKSValues(TestRequiredEKSValues[1][1]).nodeGroups
           = <<NodeGroup("ng-0", "m5.large", 3)>>
    /\ setDefaultEKSValues(EKS("1.14", "eu-north-1", Unset,
                               <<NodeGroup(Unset, "m5.small", 0), NodeGroup(Unset, "m5.large", 0)>>)).nodeGroups
           = <<NodeGroup("ng-0", "m5.small", 3), NodeGroup("ng-1", "m5.large", 3)>>
    /\ LET s == setDefaultSSHValues(SSH(Unset, TwoMachines)) IN
       /\ s.sshUser = "root"
       /\ s.sshKeyFile = EnvHome \o "/.ssh/id_rsa"
       /\ \A i \in 1..2 : /\ s.machines[i].publicPort = 22
                          /\ s.machines[i].privatePort = 22
                          /\ s.machines[i].privateAddress = TwoMachines[i].publicAddress

-----------------------------------------------------------------------------

\* The validators and defaulters as the spec describes them reproduce
\* every row of the repository's tests of the global, git, sealed-secrets,
\* EKS and footloose validators, the passing WKS cases, and the defaulters.
ValidatorTestsAgree ==
    /\ TableAgrees(TestRequiredGlobals, checkRequiredGlobalValues)
    /\ TableAgrees(TestValidateGitValues, checkRequiredGitValues)
    /\ TableAgrees(TestValidateSealedSecretsValues, validateSealedSecretsValues)
    /\ TableAgrees(TestRequiredEKSValues, checkRequiredEKSValues)
    /\ TableAgrees(TestValidWKSValues, checkRequiredWKSValues)
    /\ TableAgrees(TestRequiredFootlooseValues, checkRequiredFootlooseValues)
    /\ DefaultTestsAgree

=============================================================================
