CONSTANTS
    Namespaces <- MCNamespaces
    CAPINamespace <- MCCAPINamespace
    GitOpsTemplateNamespace <- MCGitOpsTemplateNamespace
    DataKeys <- MCDataKeys
    TemplateNames <- MCTemplateNames
    TemplateBodies <- MCOneBody
    RequestKinds <- MCKinds
    WrittenEntries <- MCAnyEntry
SPECIFICATION Spec
INVARIANT ListReturnsStored
