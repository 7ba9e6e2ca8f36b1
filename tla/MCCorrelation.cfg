SPECIFICATION Spec
CONSTANTS
    Pids = {1, 2, 3}
    SessionOf <- MCSessionOf
    Workspaces = {"ws"}
    Scenarios <- MCScenarios
    MaxPrompts = 3
    CapiWindow = 4
    RiskWindow <- MCRiskWindow
    PromptWindow = 3
    PromptRepeats = 2
    MaxArtifacts = 3
    MaxTemplates = 2
    MaxChains = 2
    TemplateTtl = 5
    FreshWindow = 2
INVARIANTS
    TypeOK
    ChainsArePropagated
    InjectionsAreFound
    ExcerptsAreMasked
CHECK_DEADLOCK FALSE
