CONSTANTS
    Namespaces <- MCNamespaces
    CAPINamespace <- MCCAPINamespace
    GitOpsTemplateNamespace <- MCGitOpsTemplateNamespace
    DataKeys <- MCDataKeys
    TemplateNames <- MCTemplateNames
    TemplateBodies <- MCOneBody
    RequestKinds <- MCKindsWithOther
    WrittenEntries <- MCWellFormed
SPECIFICATION Spec
INVARIANT GetReturnsTemplate
