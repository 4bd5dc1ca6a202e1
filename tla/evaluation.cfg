SPECIFICATION FairSpec
CHECK_DEADLOCK FALSE
CONSTANTS
    Fields <- SomeFields
    Numbers <- SomeNumbers
    Strings <- SomeStrings
    Relations <- SomeRelations
    Documents <- SomeDocuments
    Inputs <- SomeInputs
    Depths <- GraphDepth
INVARIANTS
    EvaluationTypeOK
    NeverPanics
    WellTypedNeverFails
    PublishableIsSavable
    OutcomeIsMeaning
PROPERTY EvaluationEnds
