\* Tables of two devices, every mapping, right and wrong messages.
SPECIFICATION Spec
CONSTANTS
    Tables <- MCTables
    Arrivals <- MCArrivals
    Texts <- MCTexts
    Stoi <- MCStoi
INVARIANTS TypeOK ValuesMeant CommandsMeant OkWhenHeard
