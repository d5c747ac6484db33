SPECIFICATION PathSpec
CONSTANTS
    Plans <- SomePlans
    Middlewares = 2
    Mro <- SomeMro
    Raised <- SomeRaised
    MaxNext = 3
    IsCompiled <- Compiles
    IsBound <- Binds
    BoundTo <- Arguments
    ReadsBody <- ReadsTheBody
    Nothing = Nothing
    None = None
INVARIANT MeasuredOnce
INVARIANT FiltersAreAsked
INVARIANT OneInstancePerRequest
INVARIANT EscapesOnlyUnwritten
INVARIANT CalledAsDeclared
\* The model ends when the request does.
CHECK_DEADLOCK FALSE
