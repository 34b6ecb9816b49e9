\* Two tenants, three accounts and one that is refused, two samples, pages of
\* one row; MCBudgets says how much of each kind of step an instance has.
CONSTANTS
    a = a
    b = b
    ann = ann
    bob = bob
    good = good
    bad = bad
    Tenants = {a, b}
    Empty = Empty
    Commands <- MCCommands
    Credentials <- MCCredentials
    Samples <- MCSamples
    Expire = 2
    Limit = 1
    Ranges <- MCRanges
    Others <- MCOthers
    Budgets <- MCBudgets
SPECIFICATION Spec
CHECK_DEADLOCK FALSE
INVARIANTS WritesBacked PostsHonest PagesComplete RepeatsExplained
