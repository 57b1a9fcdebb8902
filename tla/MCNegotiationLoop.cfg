\* A run stops when the loop has ended, so stopping is not an error.
CONSTANT
    Inputs <- MCInputs
SPECIFICATION Spec
CHECK_DEADLOCK FALSE
INVARIANTS
    TypeOK
    SellerNeverRefuses
    ComputesResult
PROPERTY
    AlwaysConcludes
