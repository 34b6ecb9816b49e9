\* The answer of an earlier session arrives in the next one.
CONSTANTS
    Queries = {all, q1}
    NoFilter = all
    Nothing = Nothing
    MaxLogins = 2
    MaxSent = 5
    MaxPage = 1
\* The instance stops when its requests are used up.
CHECK_DEADLOCK FALSE
SPECIFICATION Spec
INVARIANT ClaimsAreCurrent
