SPECIFICATION MailingSpec
CONSTANTS
    r1 = r1
    r2 = r2
    None = None
    Tasks = {t1, t2}
    Apps = {app1, app2}
    Keys = {k0, k1, k2}
    FirstKey = k0
    Requests = {r1, r2}
    MaxForms = 1
    MaxFaults = 2
SYMMETRY Symmetry
CONSTRAINT
    Followed
INVARIANTS
    TypeOK
    SavedWasStored
    TypedKeysStay
    StoresInStep
PROPERTIES
    RefusedOnlyWhileRotating
