CONSTANTS
    LastWindow = 3
    Outputs = {"o1", "o2"}
    Workspaces = {"d1", "d2"}
    InitialDomains <- AnyDomains
    AdmissionAxes = {"horizontal"}
    Sights <- AnySights
    FixedAdmission = TRUE
    Unfloat = "any"
    MaxRevision = 3
    Instances = {"pairs", "shapes", "fixed_size", "withdrawn"}
SPECIFICATION MCSpec
INVARIANTS TopologyHolds DragStaysCurrent MarksHold
PROPERTIES SurvivorsKeepTheirPlaces ImplementsStagedStore
