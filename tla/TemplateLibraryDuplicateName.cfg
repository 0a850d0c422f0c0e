CONSTANTS
    Namespaces <- MCNamespaces
    CAPINamespace <- MCCAPINamespace
    GitOpsTemplateNamespace <- MCGitOpsTemplateNamespace
    DataKeys <- MCDataKeys
    TemplateNames <- MCTemplateNames
    TemplateBodies <- MCTwoBodies
    RequestKinds <- MCKinds
    WrittenEntries <- MCWellFormed
SPECIFICATION Spec
INVARIANT IndexedByName
