SPECIFICATION Spec
CONSTANTS
    Args <- MCArgs
    Envs <- MCEnvs
    Configs <- MCConfigs
    Default <- MCDefault
INVARIANTS
    ChoiceIsAsked
    ChooserIsUsable
    AdviceHelps
    TokenAsConfigured
PROPERTIES
    CreateSparesConfig
