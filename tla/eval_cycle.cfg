SPECIFICATION FairSpec
CHECK_DEADLOCK FALSE
CONSTANTS
    Fields <- SomeFields
    Numbers <- SomeNumbers
    Strings <- SomeStrings
    Relations <- SomeRelations
    Documents <- CyclicDocuments
    Inputs <- OneInput
    Depths <- GraphDepth
PROPERTY EveryEvaluationEnds
