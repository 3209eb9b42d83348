SPECIFICATION Spec
CONSTANTS
    Schemas <- MCSchemas
    Contents <- MCContents
    FloatBytes <- MCFloatBytes
    Junk <- MCJunk
    Conditions <- MCConditions
INVARIANTS
    TypeOK
    AttributesKept
    ConditionsMean
CHECK_DEADLOCK FALSE
