\* Three requests of two users at once, up to three versions; the policies bind.
SPECIFICATION Spec
CONSTANTS
    Requests = {r1, r2, r3}
    Orgs = {ann, bob}
    RowSecurity = TRUE
    MaxVersion = 3
SYMMETRY Symmetry
INVARIANTS
    Numbered
    VersionsAudited
    OneOrganisation
    GenerateFailsToARace
