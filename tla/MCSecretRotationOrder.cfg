SPECIFICATION Spec
CONSTANTS
    r1 = r1
    r2 = r2
    None = None
    Apps = {app1, app2}
    Keys = {k0, k1, k2, k3}
    FirstKey = k0
    Requests = {r1, r2}
    MaxForms = 0
    MaxFaults = 1
SYMMETRY Symmetry
INVARIANTS
    StoredSecretWorks
