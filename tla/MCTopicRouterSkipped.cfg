\* A channel listed after a channel that has a mapping.
SPECIFICATION Spec
CONSTANTS
    Tables <- MCTables
    Arrivals <- MCArrivals
    Texts <- MCTexts
    Stoi <- MCStoi
INVARIANT InputsUpdated
