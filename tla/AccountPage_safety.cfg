\* Two calls under way at once, in each of the visits.
SPECIFICATION MCSpec
CONSTANTS
    ada = ada
    bea = bea
    Bad = Bad
    Empty = Empty
    Call = {1, 2}
    Name = {ada, bea}
    OtherNames <- MCNames
    MaxVersion = 2
INVARIANTS
    TypeOK
    NamesStayValid
    EnableFlips
PROPERTIES
    OnlyTypedFieldsChange
    AccountWrittenAsSeen
    NamesWrittenAsSeen
CHECK_DEADLOCK FALSE
