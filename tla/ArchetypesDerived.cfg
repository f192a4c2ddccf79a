SPECIFICATION SubclassesSpec
CONSTANTS
    MaxLength = 4
    HeapFrom = 3
    SearchFrom = 3
    AliasedInserts = FALSE
    EntryKeys <- MCKeys
    Entries <- MCEntries
    NoEntry <- MCNothing
    Declarations <- MCDeclarations
    Times <- MCTimes
    MaxStream = 12
INVARIANT SubclassesKeepCallbacks
CHECK_DEADLOCK FALSE
