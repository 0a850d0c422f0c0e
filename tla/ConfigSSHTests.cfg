\* The engine on the specifications of TestRequiredSSHValues, without git
\* intent.
SPECIFICATION Spec
CONSTANTS
    ExistingFiles <- MCExistingFiles
    MatchingPairs <- MCMatchingPairs
    EnvUser <- MCEnvUser
    EnvHome <- MCEnvHome
    Inputs <- MCSSHTestInputs
INVARIANT
    SSHTestsAgree
CHECK_DEADLOCK FALSE
