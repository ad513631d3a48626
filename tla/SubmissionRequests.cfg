\* Every request, clone and restart over small forms and environments.
SPECIFICATION Spec
CONSTANTS
    Prompts <- MCPrompts
    FormDatasets <- MCFormDatasets
    Configs <- MCConfigs
INVARIANTS
    TypeOK
    PromptWins
    OwnImage
PROPERTIES
    CloneRepeats
