SPECIFICATION CatalogSpec
CONSTANTS
    null = null
    Null = null
    Failed = failed
    Refused = refused
    refused = refused
    Scenes <- MCScenes
    Models = {"m1", "m2"}
    Covers <- MCCovers
    Users = {"u1", "root"}
    Protected = "root"
    Admins = {"a1", "a2"}
    Periodic = "task"
    Listings <- MCListings
    Owner <- MCOwner
    EnvLdap <- MCEnvLdap
INVARIANTS
    OnlyGranted
PROPERTIES
    SectionsConverge
    DisabledStays
    ListedIsRouted
