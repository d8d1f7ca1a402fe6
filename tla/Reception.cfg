\* Two tenants, keys, administrators, requests and documents; two events.
CONSTANTS
    n1 = n1
    n2 = n2
    supplier = supplier
    Tenant = {t1, t2}
    Nit = {n1, n2}
    Key = {k1, k2}
    Call = {a1, a2}
    None = None
    MaxI32 = 50
    DocId = {d1, d2}
    Request = {r1, r2}
    Zip <- MCZip
    DianCufe = {"c1", "c2"}
    Dian = "dian"
    MaxEntries = 3
    MaxEvents = 2
SYMMETRY Symmetry
SPECIFICATION Spec
INVARIANTS
    EventsAreAboutValidated
    NoEventIsMadeUp
PROPERTY
    StoredAsInMemory
