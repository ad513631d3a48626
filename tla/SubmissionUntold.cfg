\* The dataset recorded against the one the backend is told.
SPECIFICATION Spec
CONSTANTS
    Prompts <- MCPrompts
    FormDatasets <- MCFormDatasets
    Configs <- MCConfigs
INVARIANTS
    BackendIsTold
