----------------------------- MODULE ConfigEngine -----------------------------
(***************************************************************************)
(* The engine of spec.md section 4.6: one call of Validate(spec) walks the *)
(* phases Loaded, GlobalsChecked, GitChecked, SecretsChecked, TrackChecked *)
(* and Defaulted, running one validator per step; the first failure moves  *)
(* it to Rejected with that error and nothing else runs.  The git          *)
(* validator runs only when the caller says the specification declares    *)
(* git intent (spec 4.2 and 9 leave that to the caller).  After the track  *)
(* validator the defaulters of the track change the specification in      *)
(* place.                                                                  *)
(***************************************************************************)
EXTENDS ConfigValidators

CONSTANT Inputs   \* the specifications the external loader may hand over

\* The loader hands over only what it unmarshalled into the struct.
ASSUME InputsAssumption == Inputs \subseteq ClusterSpecs

VARIABLES
    phase,       \* where the call is in the chain of spec 4.6
    spec,        \* the specification, defaulted in place at the end
    err,         \* the one error of a rejected call
    gitIntent,   \* the caller's flag: run the git settings validator
    input        \* the specification as loaded (never changes)

vars == <<phase, spec, err, gitIntent, input>>

Init ==
    /\ input \in Inputs
    /\ spec = input
    /\ gitIntent \in BOOLEAN
    /\ phase = "Loaded"
    /\ err = NoError

\* One validator: on success the next phase, otherwise Rejected with the
\* first error it reports.
Step(from, rules, to) ==
    /\ phase = from
    /\ IF FirstError(rules) = NoError
         THEN phase' = to /\ err' = err
         ELSE phase' = "Rejected" /\ err' = FirstError(rules)
    /\ UNCHANGED <<spec, gitIntent, input>>

CheckGlobals == Step("Loaded", GlobalRules(spec), "GlobalsChecked")

CheckGit == Step("GlobalsChecked", IF gitIntent THEN GitRules(spec) ELSE <<>>, "GitChecked")

CheckSealedSecrets == Step("GitChecked", SealedSecretsRules(spec), "SecretsChecked")

CheckTrack == Step("SecretsChecked", TrackRules(spec), "TrackChecked")

\* The defaulters of the track fill the specification in place.
Default ==
    /\ phase = "TrackChecked"
    /\ spec' = DefaultAll(spec)
    /\ phase' = "Defaulted"
    /\ UNCHANGED <<err, gitIntent, input>>

Next == CheckGlobals \/ CheckGit \/ CheckSealedSecrets \/ CheckTrack \/ Default

\* The call runs to its end: nothing in it waits.
Spec == Init /\ [][Next]_vars /\ WF_vars(Next)

-----------------------------------------------------------------------------
(* Properties *)

\* A value the operator set is never overridden (spec 4.4, glossary); an
\* unset string field is "" and an unset number 0.
Kept(given, now, zero) == given = zero \/ given = now

\* Every field of the record r that is set in a has the same value in b.
KeptFields(ra, rb, strings, numbers) ==
    /\ \A f \in strings : Kept(ra[f], rb[f], Unset)
    /\ \A f \in numbers : Kept(ra[f], rb[f], 0)

KeepsGiven(a, b) ==
    LET ga == a.eksConfig.nodeGroups
        gb == b.eksConfig.nodeGroups
        ma == a.wksConfig.sshConfig.machines
        mb == b.wksConfig.sshConfig.machines
    IN
    /\ Kept(a.clusterName, b.clusterName, Unset)
    /\ ga # <<>> => /\ Len(gb) = Len(ga)
                    /\ \A i \in DOMAIN ga :
                           KeptFields(ga[i], gb[i], {"name", "instanceType"}, {"desiredCapacity"})
    /\ KeptFields(a.wksConfig.sshConfig, b.wksConfig.sshConfig, {"sshUser", "sshKeyFile"}, {})
    /\ Len(mb) = Len(ma)
    /\ \A i \in DOMAIN ma :
           KeptFields(ma[i], mb[i], {"role", "publicAddress", "privateAddress"},
                      {"publicPort", "privatePort"})
    /\ [b EXCEPT !.clusterName = a.clusterName,
                 !.eksConfig.nodeGroups = ga,
                 !.wksConfig.sshConfig = a.wksConfig.sshConfig] = a

\* Defaulting only fills what the operator left unset: every field the
\* specification had before the defaulting step keeps its value.
DefaultsKeepGivenValues == [][Default => KeepsGiven(spec, spec')]_vars

\* Defaulting a defaulted specification changes nothing (spec 8): the
\* defaulters are safe to run again on their own output.
DefaultingIdempotent == phase = "Defaulted" => DefaultAll(spec) = spec

=============================================================================
