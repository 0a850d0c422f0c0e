------------------------- MODULE ConfigEngineProofs -------------------------
(***************************************************************************)
(* The defaulting step of the validation engine, for every set of loaded  *)
(* specifications of the configuration struct (InputsAssumption), every   *)
(* filesystem and every environment: defaulting keeps every value the     *)
(* operator set (DefaultsKeepGivenValues), and the defaulters are         *)
(* idempotent (DefaultingIdempotent).                                     *)
(*                                                                         *)
(* The argument.  Every defaulter fills a field only when it is unset     *)
(* (IfUnset, IfZero), so a second pass fills nothing and a set field      *)
(* keeps its value.  IInv says that the engine's specification is the     *)
(* loaded input until Defaulted and the defaulted input from then on, so  *)
(* both facts about DefaultAll apply to the reachable states.             *)
(***************************************************************************)
EXTENDS ConfigEngine, TLAPS


-----------------------------------------------------------------------------
(* The defaulters fill a field only when it is unset, so a second pass    *)
(* finds nothing to fill.                                                 *)

LEMMA IfUnsetIdem ==
    ASSUME NEW v, NEW d
    PROVE  IfUnset(IfUnset(v, d), d) = IfUnset(v, d)
BY DEF IfUnset

LEMMA IfZeroIdem ==
    ASSUME NEW v, NEW d
    PROVE  IfZero(IfZero(v, d), d) = IfZero(v, d)
BY DEF IfZero

\* The name of the default node group is set.
LEMMA DefaultNameSet == "ng-0" # Unset
BY Zenon DEF Unset

\* The cluster name, filled from $USER when unset.
ClusterName(c) == IfUnset(c.clusterName, "wk-" \o IfUnset(EnvUser, "cluster"))

LEMMA GlobalUnfold ==
    ASSUME NEW c
    PROVE  setDefaultGlobalValues(c) = [c EXCEPT !.clusterName = ClusterName(c)]
BY Zenon DEF setDefaultGlobalValues, ClusterName

\* The node groups: one default group for none, otherwise each group's
\* name and capacity filled by its index.  The default name is kept
\* opaque: filling is idempotent whatever it is.
NgName(i) == "ng-" \o ToString(i - 1)
NgFill(g, i) ==
    [g EXCEPT !.name = IfUnset(g.name, NgName(i)),
              !.desiredCapacity = IfZero(g.desiredCapacity, 3)]
NgDefaulted(gs) ==
    IF gs = <<>> THEN <<DefaultNodeGroup>> ELSE [i \in 1..Len(gs) |-> NgFill(gs[i], i)]

LEMMA EKSUnfold ==
    ASSUME NEW e
    PROVE  setDefaultEKSValues(e) = [e EXCEPT !.nodeGroups = NgDefaulted(e.nodeGroups)]
BY Zenon DEF setDefaultEKSValues, NgDefaulted, NgFill, NgName

LEMMA NgFillIdem ==
    ASSUME NEW g \in NodeGroupT, NEW i
    PROVE  NgFill(NgFill(g, i), i) = NgFill(g, i)
BY IfUnsetIdem, IfZeroIdem DEF NgFill, NodeGroupT

LEMMA NgDefaultedIdem ==
    ASSUME NEW gs \in Seq(NodeGroupT)
    PROVE  NgDefaulted(NgDefaulted(gs)) = NgDefaulted(gs)
<1>1. CASE gs = <<>>
  <2>1. NgFill(DefaultNodeGroup, 1) = DefaultNodeGroup
    BY DefaultNameSet DEF NgFill, DefaultNodeGroup, IfUnset, IfZero
  <2> QED BY <1>1, <2>1 DEF NgDefaulted
<1>2. CASE gs # <<>>
  <2> DEFINE gs1 == [i \in 1..Len(gs) |-> NgFill(gs[i], i)]
  <2>1. NgDefaulted(gs) = gs1
    BY <1>2 DEF NgDefaulted
  <2>2. gs1 # <<>> /\ Len(gs1) = Len(gs)
    BY <1>2
  <2>3. \A i \in 1..Len(gs) : NgFill(gs1[i], i) = gs1[i]
    BY NgFillIdem
  <2> QED BY <2>1, <2>2, <2>3 DEF NgDefaulted
<1> QED BY <1>1, <1>2

LEMMA EKSIdem ==
    ASSUME NEW e \in EKSConfigT
    PROVE  setDefaultEKSValues(setDefaultEKSValues(e)) = setDefaultEKSValues(e)
BY EKSUnfold, NgDefaultedIdem DEF EKSConfigT
\* The remote-shell settings: user, key file, and each machine's ports and
\* private address (its public one when unset).
KeyDefault == EnvHome \o "/.ssh/id_rsa"
MachineFill(m) ==
    [m EXCEPT !.publicPort = IfZero(m.publicPort, 22),
              !.privatePort = IfZero(m.privatePort, 22),
              !.privateAddress = IfUnset(m.privateAddress, m.publicAddress)]
SSHFill(s) ==
    [s EXCEPT !.sshUser = IfUnset(s.sshUser, "root"),
              !.sshKeyFile = IfUnset(s.sshKeyFile, KeyDefault),
              !.machines = [i \in 1..Len(s.machines) |-> MachineFill(s.machines[i])]]

LEMMA SSHUnfold ==
    ASSUME NEW s
    PROVE  setDefaultSSHValues(s) = SSHFill(s)
BY Zenon DEF setDefaultSSHValues, SSHFill, MachineFill, KeyDefault

LEMMA MachineFillIdem ==
    ASSUME NEW m \in MachineT
    PROVE  MachineFill(MachineFill(m)) = MachineFill(m)
BY IfUnsetIdem, IfZeroIdem DEF MachineFill, MachineT

LEMMA SSHIdem ==
    ASSUME NEW s \in SSHConfigT
    PROVE  setDefaultSSHValues(setDefaultSSHValues(s)) = setDefaultSSHValues(s)
<1> DEFINE ms == s.machines
<1> DEFINE ms1 == [i \in 1..Len(ms) |-> MachineFill(ms[i])]
<1>1. ms \in Seq(MachineT)
  BY DEF SSHConfigT
<1>2. Len(ms1) = Len(ms) /\ \A i \in 1..Len(ms) : MachineFill(ms1[i]) = ms1[i]
  BY <1>1, MachineFillIdem
<1>3. SSHFill(SSHFill(s)) = SSHFill(s)
  BY <1>2, IfUnsetIdem DEF SSHFill, SSHConfigT
<1> QED BY <1>3, SSHUnfold
\* DefaultAll by the track, with the global defaulter unfolded.
LEMMA DefaultAllEKS ==
    ASSUME NEW c, c.track = "eks"
    PROVE  DefaultAll(c) = [[c EXCEPT !.clusterName = ClusterName(c)] EXCEPT
                             !.eksConfig = setDefaultEKSValues(c.eksConfig)]
<1>1. setDefaultGlobalValues(c) = [c EXCEPT !.clusterName = ClusterName(c)]
  BY GlobalUnfold
<1>2. DefaultAll(c) = [setDefaultGlobalValues(c) EXCEPT
                        !.eksConfig = setDefaultEKSValues(setDefaultGlobalValues(c).eksConfig)]
  BY Zenon DEF DefaultAll
<1> QED BY <1>1, <1>2

LEMMA DefaultAllSSH ==
    ASSUME NEW c, c.track = "wks-ssh"
    PROVE  DefaultAll(c) = [[c EXCEPT !.clusterName = ClusterName(c)] EXCEPT
                             !.wksConfig.sshConfig = setDefaultSSHValues(c.wksConfig.sshConfig)]
<1>1. setDefaultGlobalValues(c) = [c EXCEPT !.clusterName = ClusterName(c)]
  BY GlobalUnfold
<1>2. DefaultAll(c) = [setDefaultGlobalValues(c) EXCEPT !.wksConfig.sshConfig =
                        setDefaultSSHValues(setDefaultGlobalValues(c).wksConfig.sshConfig)]
  BY Zenon DEF DefaultAll
<1> QED BY <1>1, <1>2

LEMMA DefaultAllOther ==
    ASSUME NEW c, c.track \notin {"eks", "wks-ssh"}
    PROVE  DefaultAll(c) = [c EXCEPT !.clusterName = ClusterName(c)]
<1>1. setDefaultGlobalValues(c) = [c EXCEPT !.clusterName = ClusterName(c)]
  BY GlobalUnfold
<1> QED BY <1>1, Zenon DEF DefaultAll

\* Defaulting a defaulted specification changes nothing.
LEMMA DefaultAllIdem ==
    ASSUME NEW c \in ClusterSpecs
    PROVE  DefaultAll(DefaultAll(c)) = DefaultAll(c)
<1> DEFINE g == [c EXCEPT !.clusterName = ClusterName(c)]
<1>1. CASE c.track = "eks"
  <2> DEFINE d == [g EXCEPT !.eksConfig = setDefaultEKSValues(g.eksConfig)]
  <2>1. DefaultAll(c) = d
    BY <1>1, DefaultAllEKS
  <2>2. d.track = "eks" /\ g.eksConfig = c.eksConfig /\ c.eksConfig \in EKSConfigT
    BY <1>1 DEF ClusterSpecs
  <2>3. DefaultAll(d) = [[d EXCEPT !.clusterName = ClusterName(d)] EXCEPT
                          !.eksConfig = setDefaultEKSValues(d.eksConfig)]
    BY <2>2, DefaultAllEKS
  <2>4. ClusterName(d) = ClusterName(c)
    BY IfUnsetIdem DEF ClusterName, ClusterSpecs
  <2>5. setDefaultEKSValues(d.eksConfig) = d.eksConfig
    BY <2>2, EKSIdem DEF ClusterSpecs
  <2> QED BY <2>1, <2>3, <2>4, <2>5 DEF ClusterSpecs
<1>2. CASE c.track = "wks-ssh"
  <2> DEFINE d == [g EXCEPT !.wksConfig.sshConfig = setDefaultSSHValues(g.wksConfig.sshConfig)]
  <2>1. DefaultAll(c) = d
    BY <1>2, DefaultAllSSH
  <2>2. d.track = "wks-ssh" /\ g.wksConfig = c.wksConfig
        /\ c.wksConfig.sshConfig \in SSHConfigT
    BY <1>2 DEF ClusterSpecs, WKSConfigT
  <2>3. DefaultAll(d) = [[d EXCEPT !.clusterName = ClusterName(d)] EXCEPT
                          !.wksConfig.sshConfig = setDefaultSSHValues(d.wksConfig.sshConfig)]
    BY <2>2, DefaultAllSSH
  <2>4. ClusterName(d) = ClusterName(c)
    BY IfUnsetIdem DEF ClusterName, ClusterSpecs
  <2>5. setDefaultSSHValues(d.wksConfig.sshConfig) = d.wksConfig.sshConfig
    BY <2>2, SSHIdem DEF ClusterSpecs, WKSConfigT
  <2>6. d.clusterName = ClusterName(c) /\ "clusterName" \in DOMAIN d
        /\ "wksConfig" \in DOMAIN d /\ "sshConfig" \in DOMAIN d.wksConfig
    BY DEF ClusterSpecs, WKSConfigT
  <2>7. DefaultAll(d) = [[d EXCEPT !.clusterName = d.clusterName] EXCEPT
                          !.wksConfig.sshConfig = d.wksConfig.sshConfig]
    BY <2>3, <2>4, <2>5, <2>6
  <2>8. [d EXCEPT !.clusterName = d.clusterName] = d
    BY <2>6
  <2>9. [d EXCEPT !.wksConfig.sshConfig = d.wksConfig.sshConfig] = d
    BY <2>6
  <2> QED BY <2>1, <2>7, <2>8, <2>9
<1>3. CASE c.track \notin {"eks", "wks-ssh"}
  <2>1. DefaultAll(c) = g
    BY <1>3, DefaultAllOther
  <2>2. g.track \notin {"eks", "wks-ssh"}
    BY <1>3 DEF ClusterSpecs
  <2>3. DefaultAll(g) = [g EXCEPT !.clusterName = ClusterName(g)]
    BY <2>2, DefaultAllOther
  <2>4. ClusterName(g) = ClusterName(c)
    BY IfUnsetIdem DEF ClusterName, ClusterSpecs
  <2> QED BY <2>1, <2>3, <2>4 DEF ClusterSpecs
<1> QED BY <1>1, <1>2, <1>3
-----------------------------------------------------------------------------
(* The inductive invariant.  The validators read the specification and    *)
(* never change it, so until Defaulted it is the loaded input untouched.  *)

IInv ==
    /\ input \in Inputs
    /\ phase \in {"Loaded", "GlobalsChecked", "GitChecked", "SecretsChecked",
                  "TrackChecked", "Defaulted", "Rejected"}
    /\ spec = IF phase = "Defaulted" THEN DefaultAll(input) ELSE input

LEMMA InitIInv == Init => IInv
BY DEF Init, IInv

\* A validator moves to its next phase or to Rejected and leaves the
\* specification alone.
LEMMA StepIInv ==
    ASSUME IInv, NEW from, NEW rules, NEW to, Step(from, rules, to),
           from # "Defaulted", to \in {"GlobalsChecked", "GitChecked", "SecretsChecked", "TrackChecked"}
    PROVE  IInv'
<1>1. phase' \in {to, "Rejected"} /\ UNCHANGED <<spec, input>>
  BY DEF Step
<1>2. phase # "Defaulted"
  BY DEF Step
<1> QED BY <1>1, <1>2 DEF IInv

LEMMA DefaultIInv ==
    ASSUME IInv, Default
    PROVE  IInv'
<1>1. phase = "TrackChecked" /\ spec = input
  BY DEF Default, IInv
<1> QED BY <1>1 DEF Default, IInv

LEMMA NextIInv == IInv /\ [Next]_vars => IInv'
<1> SUFFICES ASSUME IInv, [Next]_vars PROVE IInv'
  OBVIOUS
<1>1. CASE CheckGlobals BY <1>1, StepIInv DEF CheckGlobals
<1>2. CASE CheckGit BY <1>2, StepIInv DEF CheckGit
<1>3. CASE CheckSealedSecrets BY <1>3, StepIInv DEF CheckSealedSecrets
<1>4. CASE CheckTrack BY <1>4, StepIInv DEF CheckTrack
<1>5. CASE Default BY <1>5, DefaultIInv
<1>6. CASE UNCHANGED vars BY <1>6 DEF vars, IInv
<1> QED BY <1>1, <1>2, <1>3, <1>4, <1>5, <1>6 DEF Next

-----------------------------------------------------------------------------
(* The defaulters only fill what is unset.                                *)

LEMMA KeptFill ==
    ASSUME NEW v, NEW d
    PROVE  Kept(v, IfUnset(v, d), Unset) /\ Kept(v, IfZero(v, d), 0) /\ Kept(v, v, d)
BY DEF Kept, IfUnset, IfZero

LEMMA NgFillKeeps ==
    ASSUME NEW g \in NodeGroupT, NEW i
    PROVE  KeptFields(g, NgFill(g, i), {"name", "instanceType"}, {"desiredCapacity"})
BY KeptFill DEF KeptFields, NgFill, NodeGroupT

LEMMA MachineFillKeeps ==
    ASSUME NEW m \in MachineT
    PROVE  KeptFields(m, MachineFill(m), {"role", "publicAddress", "privateAddress"},
                      {"publicPort", "privatePort"})
BY KeptFill DEF KeptFields, MachineFill, MachineT

\* KeepsGiven, conjunct by conjunct.
LEMMA KeepsGivenIntro ==
    ASSUME NEW a, NEW b,
           Kept(a.clusterName, b.clusterName, Unset),
           a.eksConfig.nodeGroups # << >> =>
              /\ Len(b.eksConfig.nodeGroups) = Len(a.eksConfig.nodeGroups)
              /\ \A i \in DOMAIN a.eksConfig.nodeGroups :
                    KeptFields(a.eksConfig.nodeGroups[i], b.eksConfig.nodeGroups[i],
                               {"name", "instanceType"}, {"desiredCapacity"}),
           KeptFields(a.wksConfig.sshConfig, b.wksConfig.sshConfig, {"sshUser", "sshKeyFile"}, {}),
           Len(b.wksConfig.sshConfig.machines) = Len(a.wksConfig.sshConfig.machines),
           \A i \in DOMAIN a.wksConfig.sshConfig.machines :
              KeptFields(a.wksConfig.sshConfig.machines[i], b.wksConfig.sshConfig.machines[i],
                         {"role", "publicAddress", "privateAddress"}, {"publicPort", "privatePort"}),
           [b EXCEPT !.clusterName = a.clusterName,
                     !.eksConfig.nodeGroups = a.eksConfig.nodeGroups,
                     !.wksConfig.sshConfig = a.wksConfig.sshConfig] = a
    PROVE  KeepsGiven(a, b)
BY Zenon DEF KeepsGiven

\* What the defaulters keep, for a spec of the struct and its defaulted form.
LEMMA DefaultAllKeeps ==
    ASSUME NEW c \in ClusterSpecs
    PROVE  KeepsGiven(c, DefaultAll(c))
<1> DEFINE g == [c EXCEPT !.clusterName = ClusterName(c)]
<1> DEFINE ga == c.eksConfig.nodeGroups
<1> DEFINE sa == c.wksConfig.sshConfig
<1> DEFINE ma == sa.machines
<1>1. /\ ga \in Seq(NodeGroupT) /\ sa \in SSHConfigT /\ ma \in Seq(MachineT)
      /\ Kept(c.clusterName, g.clusterName, Unset)
  BY KeptFill DEF ClusterSpecs, EKSConfigT, WKSConfigT, SSHConfigT, ClusterName
<1>2. /\ \A i \in DOMAIN ga :
            KeptFields(ga[i], ga[i], {"name", "instanceType"}, {"desiredCapacity"})
      /\ KeptFields(sa, sa, {"sshUser", "sshKeyFile"}, {})
      /\ \A i \in DOMAIN ma :
            KeptFields(ma[i], ma[i], {"role", "publicAddress", "privateAddress"},
                       {"publicPort", "privatePort"})
  BY KeptFill DEF KeptFields
<1>3. CASE c.track = "eks"
  <2> DEFINE gb == NgDefaulted(ga)
  <2> DEFINE b == [g EXCEPT !.eksConfig = [c.eksConfig EXCEPT !.nodeGroups = gb]]
  <2>1. DefaultAll(c) = b
    BY <1>3, DefaultAllEKS, EKSUnfold DEF ClusterSpecs
  <2>2. ga # << >> => /\ Len(gb) = Len(ga)
                      /\ \A i \in DOMAIN ga :
                            KeptFields(ga[i], gb[i], {"name", "instanceType"}, {"desiredCapacity"})
    BY <1>1, NgFillKeeps DEF NgDefaulted
  <2>3. /\ b.clusterName = g.clusterName /\ b.eksConfig.nodeGroups = gb
        /\ b.wksConfig = c.wksConfig
    BY DEF ClusterSpecs, EKSConfigT
  <2>4. [b EXCEPT !.clusterName = c.clusterName, !.eksConfig.nodeGroups = ga,
                  !.wksConfig.sshConfig = sa] = c
    BY DEF ClusterSpecs, EKSConfigT, WKSConfigT
  <2> QED BY <1>1, <1>2, <2>1, <2>2, <2>3, <2>4, KeepsGivenIntro
<1>4. CASE c.track = "wks-ssh"
  <2> DEFINE sb == SSHFill(sa)
  <2> DEFINE b == [g EXCEPT !.wksConfig.sshConfig = sb]
  <2>1. DefaultAll(c) = b
    BY <1>4, DefaultAllSSH, SSHUnfold DEF ClusterSpecs
  <2>2. /\ KeptFields(sa, sb, {"sshUser", "sshKeyFile"}, {})
        /\ Len(sb.machines) = Len(ma)
        /\ \A i \in DOMAIN ma :
              KeptFields(ma[i], sb.machines[i], {"role", "publicAddress", "privateAddress"},
                         {"publicPort", "privatePort"})
    BY <1>1, KeptFill, MachineFillKeeps DEF SSHFill, KeptFields, SSHConfigT
  <2>3. /\ b.clusterName = g.clusterName /\ b.eksConfig = c.eksConfig
        /\ b.wksConfig.sshConfig = sb
    BY DEF ClusterSpecs, WKSConfigT
  <2>4. [b EXCEPT !.clusterName = c.clusterName, !.eksConfig.nodeGroups = ga,
                  !.wksConfig.sshConfig = sa] = c
    BY DEF ClusterSpecs, EKSConfigT, WKSConfigT
  <2> QED BY <1>1, <1>2, <2>1, <2>2, <2>3, <2>4, KeepsGivenIntro
<1>5. CASE c.track \notin {"eks", "wks-ssh"}
  <2>1. DefaultAll(c) = g
    BY <1>5, DefaultAllOther
  <2>2. [g EXCEPT !.clusterName = c.clusterName, !.eksConfig.nodeGroups = ga,
                  !.wksConfig.sshConfig = sa] = c
    BY DEF ClusterSpecs, EKSConfigT, WKSConfigT
  <2>3. g.eksConfig = c.eksConfig /\ g.wksConfig = c.wksConfig
    BY DEF ClusterSpecs
  <2> QED BY <1>1, <1>2, <2>1, <2>2, <2>3, KeepsGivenIntro
<1> QED BY <1>3, <1>4, <1>5

-----------------------------------------------------------------------------
(* The theorems.                                                          *)

\* The defaulters are idempotent on their own output (spec 8): running
\* setDefaultGlobalValues and the track's defaulter again on a defaulted
\* specification of the struct changes nothing.
THEOREM DefaultingIdempotentHolds == Spec => []DefaultingIdempotent
<1>1. IInv => DefaultingIdempotent
  <2> SUFFICES ASSUME IInv, phase = "Defaulted" PROVE DefaultAll(spec) = spec
    BY DEF DefaultingIdempotent
  <2>1. input \in ClusterSpecs /\ spec = DefaultAll(input)
    BY InputsAssumption DEF IInv
  <2> QED BY <2>1, DefaultAllIdem
<1> QED BY <1>1, InitIInv, NextIInv, PTL DEF Spec
\* Defaulting never overrides a value the operator set (spec 4.4 and the
\* glossary): in the one step that runs the defaulters, every field set in
\* the specification keeps its value, for every specification of the struct.
THEOREM DefaultsKeepGivenValuesHolds == Spec => DefaultsKeepGivenValues
<1>1. IInv /\ [Next]_vars => [Default => KeepsGiven(spec, spec')]_vars
  <2> SUFFICES ASSUME IInv, [Next]_vars, Default PROVE KeepsGiven(spec, spec')
    OBVIOUS
  <2>1. spec = input /\ input \in ClusterSpecs /\ spec' = DefaultAll(spec)
    BY InputsAssumption DEF Default, IInv
  <2> QED BY <2>1, DefaultAllKeeps
<1>2. Spec => []IInv
  BY InitIInv, NextIInv, PTL DEF Spec
<1> QED BY <1>1, <1>2, PTL DEF Spec, DefaultsKeepGivenValues
====
