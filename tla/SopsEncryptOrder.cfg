CONSTANTS
    Namespaces <- MCNamespaces
    KustNames <- MCKustNames
    SecretNames <- MCSecretNames
    KustChoices <- MCKustChoices
    SecretChoices <- MCSecretChoices
    Requests <- MCRequests
    GpgWorks = TRUE
SPECIFICATION Spec
INVARIANT SameSecretSameOutcome
