SPECIFICATION PartsSpec
CONSTANTS
    MaxLength = 4
    HeapFrom = 3
    SearchFrom = 3
    AliasedInserts = FALSE
    EntryKeys <- MCKeys
    Entries <- MCEntries
    NoEntry <- MCNothing
    Declarations <- MCDeclarations
    Times <- MCTimes
    MaxStream = 12
INVARIANTS AllTypesOK CallbacksMean IteratorsDeliver LinksAgree StreamsDeliver FieldsReadBack ConstantsAgree
PROPERTY ImplementsCollection
CHECK_DEADLOCK FALSE
