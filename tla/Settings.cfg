\* Two subscriptions, one notification, two senders; or two administrators,
\* three certificates, two signatures, one secret replaced once.
CONSTANTS
    other = other
    Hook = {h1, h2}
    Event = {e1}
    Wants <- MCWants
    Client = {k1}
    Sender = {s1, s2}
    MaxHooks = 2
    MaxAttempts = 2
    LateSenders = FALSE
    NoDelivery = NoDelivery
    MaxFaults = 1
    MaxRetries = 1
    c1 = c1
    p1 = p1
    p2 = p2
    Cert = {c1, c2, c3}
    Path = {p1, p2}
    PathOf <- MCPathOf
    Expiration <- MCExpiration
    Local = Local
    Admin = {a1, a2}
    Signer = {s1, s2}
    NoCert = NoCert
    MaxTime = 1
    MaxReplaced = 1
    MaxBusy = 2
SPECIFICATION SettingsSpec
CHECK_DEADLOCK FALSE
INVARIANTS
    TypeOK
    DeliveredWasReceived
    OneSender
    DeadWasTried
    SigningTypeOK
    LastActivatedIsActive
PROPERTIES
    DeliveredIsFinal
    DeliverySettles
    DeliveriesAreInMemory
    RotationTakesEffect
