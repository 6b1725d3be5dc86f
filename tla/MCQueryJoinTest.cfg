SPECIFICATION Spec
CONSTANTS
    Number <- MCNumber
    Quoted <- MCQuoted
    Names <- MCNames
    MaxInt = 2
    NoWhere = NoWhere
    Nothing = Nothing
    Schema <- MCSchema
    Values <- MCValues
    Sent <- MCJoinTest
    Parsed <- Parse
    MaxRows = 2
INVARIANT ParsesBack
CHECK_DEADLOCK FALSE
