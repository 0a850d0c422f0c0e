---------------------------- MODULE MCConfigEngine ----------------------------
(***************************************************************************)
(* Model-checking instance of ConfigEngine.  The loaded specifications are *)
(* every combination of a few choices per section, each choice either a    *)
(* configuration of the repository's tests or the value that breaks one    *)
(* rule, so that every rule of every validator is the first to fail for    *)
(* some input and rules of different sections compete.                     *)
(***************************************************************************)
EXTENDS ConfigEngine, ConfigTests

MCExistingFiles ==
    {"testdata/managedNodeGroups.yaml", "testdata/sshKey", "testdata/sealedSecretsCert.crt",
     "testdata/sealedSecretsKey", "testdata/nonMatchingCert.crt"}
MCMatchingPairs == {<<"testdata/sealedSecretsCert.crt", "testdata/sealedSecretsKey">>}
MCEnvUser == ""
MCEnvHome == "/home/wk"

\* The test tables are constant data: every run of this module first
\* checks that the validators and defaulters reproduce them.
ASSUME TestTablesAssumption == ValidatorTestsAgree

GlobalChoices ==
    {<<u, p>> : u \in {"TheodoreLogan", Unset}, p \in {"testdata/passwordFile", Unset}}
    \ {<<Unset, Unset>>}

GitChoices ==
    {<<g, u, o>> : g \in {Unset, "github", "gitlab", "bitbucket"},
                   <<u, o>> \in {<<Unset, Unset>>, <<"foo", Unset>>, <<Unset, "foo">>}}

SealedChoices ==
    {<<Unset, Unset>>, <<Unset, "testdata/sealedSecretsKey">>,
     <<"testdata/sealedSecretsCert.crt", "testdata/sealedSecretsKey">>,
     <<"testdata/nonMatchingCert.crt", "testdata/sealedSecretsKey">>,
     <<"nonexistent.crt", "testdata/sealedSecretsKey">>}

EKSChoices ==
    {row[1] : row \in Range(TestRequiredEKSValues)}
    \cup {EKS("1.15", "eu-north-1", Unset,
              <<NodeGroup(Unset, "m5.small", 0), NodeGroup("big", Unset, 5)>>)}

WKSChoices ==
    {WKS(<<1, 14, 1>>, ServiceOK, PodOK, <<>>), WKS(<<1, 16, 1>>, ServiceOK, PodOK, <<>>),
     WKS(<<1, 15, 0>>, <<CIDR(Addr_10_96_0_0, 12)>>, <<CIDR(Addr_192_1680_1_0, 16)>>, <<>>),
     WKS(<<1, 14, 1>>, ServiceOK, PodOK, Domain_hello_World__com)}

SSHChoices ==
    {row[1] : row \in Range(TestRequiredSSHValues)}
    \cup {[SSH(Unset, TwoMachines) EXCEPT !.sshUser = "admin",
             !.machines[2].privateAddress = "10.0.0.6", !.machines[2].publicPort = 2222]}

FootlooseChoices ==
    {Footloose("docker", 1, 1), Footloose(Unset, 1, 1), Footloose("igniter", 0, 1),
     Footloose("ignite", 1, 0)}

TrackParts ==
    {<<"eks", [ZeroConfig EXCEPT !.eksConfig = e]>> : e \in EKSChoices}
    \cup {<<"wks-ssh", [ZeroConfig EXCEPT !.wksConfig = [w EXCEPT !.sshConfig = s]]>> :
            w \in WKSChoices, s \in SSHChoices}
    \cup {<<"wks-footloose", [ZeroConfig EXCEPT !.wksConfig = [w EXCEPT !.footlooseConfig = f]]>> :
            w \in WKSChoices, f \in FootlooseChoices}
    \cup {<<t, ZeroConfig>> : t \in {Unset, "footlose"}}

MCInputs ==
    {[tp[2] EXCEPT !.track = tp[1], !.clusterName = n,
                   !.dockerIOUser = gl[1], !.dockerIOPasswordFile = gl[2],
                   !.gitProvider = gi[1], !.gitUrl = gi[2], !.gitProviderOrg = gi[3],
                   !.sealedSecretsCertificate = ss[1], !.sealedSecretsPrivateKey = ss[2]] :
        tp \in TrackParts, n \in {Unset, "prod"}, gl \in GlobalChoices,
        gi \in GitChoices, ss \in SealedChoices}

\* A test row's configuration loaded as a whole wks-ssh specification,
\* with the globals of TestRequiredGlobals and the passing WKS or SSH part.
TestSpec(wks) ==
    [Globals("wks-ssh", "TheodoreLogan", "testdata/passwordFile") EXCEPT !.wksConfig = wks]
SSHRowInput(row) == TestSpec([WKS(<<1, 14, 1>>, ServiceOK, PodOK, <<>>) EXCEPT !.sshConfig = row[1]])
WKSRowInput(row) == TestSpec([row[1] EXCEPT !.sshConfig = SSH(Unset, TwoMachines)])
MCSSHTestInputs == {SSHRowInput(row) : row \in Range(TestRequiredSSHValues)}
MCWKSTestInputs == {WKSRowInput(row) : row \in Range(TestInvalidWKSValues)}

\* A call on a row's specification, without git intent, ends with the
\* error the row expects (no error: the call reaches Defaulted).
RowOutcomeAgrees(table, RowInput(_)) ==
    phase \in {"Rejected", "Defaulted"} /\ ~gitIntent =>
        \A row \in Range(table) : input = RowInput(row) => err = row[2]

\* The engine, with the rules of spec 4.5 in the order the spec lists
\* them, rejects each machine set of TestRequiredSSHValues with the error
\* the test expects.
SSHTestsAgree == RowOutcomeAgrees(TestRequiredSSHValues, SSHRowInput)

\* The engine, by the address rules of spec 4.5, rejects exactly the WKS
\* configurations TestInvalidWKSValues expects it to reject, with the
\* error the test expects.
WKSTestsAgree == RowOutcomeAgrees(TestInvalidWKSValues, WKSRowInput)

=============================================================================
