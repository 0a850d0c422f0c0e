\* Every combination of the section choices in MCConfigEngine, with and
\* without git intent.  Rejected and Defaulted are the final states of a
\* call, so deadlock is not checked.
SPECIFICATION Spec
CONSTANTS
    ExistingFiles <- MCExistingFiles
    MatchingPairs <- MCMatchingPairs
    EnvUser <- MCEnvUser
    EnvHome <- MCEnvHome
    Inputs <- MCInputs
INVARIANTS
    DefaultingIdempotent
PROPERTY
    DefaultsKeepGivenValues
CHECK_DEADLOCK FALSE
