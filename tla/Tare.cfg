SPECIFICATION Spec
CONSTANTS
    DATA_SET = 2
    Loads = {"empty", "cup"}
INVARIANTS
    TimedOutStaysPut
    FreshZero
    TuneOnItsOwnZero
    GrindOnItsOwnZero
PROPERTIES
    TuneTareServed
