\* Four days of a short calendar: events up to three days off, lines up to
\* a year late or two ticks early, and eleven ways to call the loader.
CONSTANTS
    DaysBack = 1
    DaysAhead = 2
    RetainDays = 2
    MaxSkew = 3
    MaxDay = 4
    Default = Default
    DayTicks = 2
    YearDays = 3
    LeapEvery = 2
    LeapDay = 1
    Tolerance = 1
    NoTime = NoTime
    Nothing = Nothing
    Unhashable = Unhashable
    BadTenant = BadTenant
    a = a
    b = b
    Tenants = {a, b}
    ListenerTenant = a
    Loads <- MCLoads
    Bodies <- MCBodies
    Lines <- MCLines
    Late = 5
    Fast = 2
    MaxRows = 2
SPECIFICATION IngestSpec
INVARIANTS TypeOK RowsRouted TablesProtected TodayCovered LoadIsPrefix OutcomeHonest LinesDatedRight
PROPERTIES RetentionExact RebasedVisible
