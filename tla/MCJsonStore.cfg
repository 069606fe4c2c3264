SPECIFICATION FileSpec
CONSTANTS
    Docs = {d1, d2, d3}
    Missing = Missing
    Torn = Torn
    MaxLosses = 2
INVARIANTS
    FileTypeOK
    AnswersAreTrue
PROPERTIES
    KeepsFilePromise
