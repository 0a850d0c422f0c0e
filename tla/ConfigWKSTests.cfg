\* The engine on the specifications of TestInvalidWKSValues, without git
\* intent.
SPECIFICATION Spec
CONSTANTS
    ExistingFiles <- MCExistingFiles
    MatchingPairs <- MCMatchingPairs
    EnvUser <- MCEnvUser
    EnvHome <- MCEnvHome
    Inputs <- MCWKSTestInputs
INVARIANT
    WKSTestsAgree
CHECK_DEADLOCK FALSE
