\* Three sessions in one tab, two queries, eight requests.
CONSTANTS
    Queries = {all, q1}
    NoFilter = all
    Nothing = Nothing
    MaxLogins = 3
    MaxSent = 8
    MaxPage = 1
\* The instance stops when its requests are used up.
CHECK_DEADLOCK FALSE
SPECIFICATION Spec
INVARIANTS TypeOK ShownIsOwn DashboardIsCurrent NoStuckSpinner
