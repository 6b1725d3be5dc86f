SPECIFICATION Spec
CONSTANTS
    Number <- MCNumber
    Quoted <- MCQuoted
    Names <- MCNames
    MaxInt = 2
    NoWhere = NoWhere
    Nothing = Nothing
    Schema <- MCSchema
    Values <- MCValues
    Sent <- MCSent
    Parsed <- Parse
    MaxRows = 2
INVARIANTS
    TypeOK
    ParsesBack
    ResultIsQuery
    ColumnsByName
PROPERTY
    EveryQueryEnds
CHECK_DEADLOCK FALSE
