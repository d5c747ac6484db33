SPECIFICATION PathSpec
CONSTANTS
    Plans <- UnannotatedPlans
    Middlewares = 2
    Mro <- SomeMro
    Raised <- SomeRaised
    MaxNext = 3
    IsCompiled <- Compiles
    IsBound <- Binds
    BoundTo <- Arguments
    ReadsBody <- ReadsTheBody
    Nothing = Nothing
    None = None
INVARIANT MissingIsRefused
\* The model ends when the request does.
CHECK_DEADLOCK FALSE
