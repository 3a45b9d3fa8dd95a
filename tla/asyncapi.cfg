SPECIFICATION Spec
CONSTANTS
    Specs <- MCSpecs
    Topic <- MCTopic
    JSONSchemaFormats <- MCJSONSchemaFormats
    AvroFormats <- MCAvroFormats
    MaxRefChain = 3
    MaxMergeDepth = 4
INVARIANTS
    MeaningKept
    CyclesOnly
    TraitsMerged
    FilledOneWay
    ParametersMerged
    MessagesOnce
CHECK_DEADLOCK FALSE
