SPECIFICATION Spec
CONSTANTS
    c1 = c1
    c2 = c2
    c3 = c3
    Callers = {c1, c2, c3}
    Names = {"a", "b"}
    Types = {"image/png", "image/gif", "text/html"}
    Whitelist = {"image/png", "image/gif"}
    TypeOf <- MCTypeOf
    Slices <- MCSlices
    TaxNumbers <- MCTaxNumbers
    TaxTexts <- MCTaxTexts
    FieldNames <- MCFieldNames
    Numbers <- MCNumbers
    Personal <- MCPersonal
    Quarters <- MCQuarters
    IntLimit = 1073741824
    Zones = {"UTC", "New York"}
    Instants <- MCInstants
    Wall <- MCWall
    Spans <- MCSpans
INVARIANTS
    FilesTypeOK
    HelpersRight
    SuccessMeansWhole
    LeaksAreKnown
CHECK_DEADLOCK FALSE
