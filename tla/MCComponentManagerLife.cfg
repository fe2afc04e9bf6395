\* Every configuration of MCConfigurations, launched and closed.
SPECIFICATION Spec
CONSTANTS
    Names <- MCNames
    Place <- MCPlace
    Haven = "final_haven"
    Libs <- MCLibs
    Interfaces <- MCInterfaces
    ReportsTo = "FinalHaven"
    provides <- MCProvides
    depends <- MCDepends
    Configurations <- MCConfigurations
INVARIANTS TypeOK LaunchedAsConfigured DependenciesMet CodeStaysLoaded StartedByName
CHECK_DEADLOCK FALSE
