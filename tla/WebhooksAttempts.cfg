\* README, webhooks: is a delivery given up after its maximum of attempts?
CONSTANTS
    other = other
    Hook = {h1, other}
    Event = {e1}
    Wants <- MCWants
    Client = {c1}
    Sender = {s1, s2}
    MaxHooks = 1
    MaxAttempts = 2
    LateSenders = FALSE
    NoDelivery = NoDelivery
    MaxFaults = 3
    MaxRetries = 0
SPECIFICATION Spec
CHECK_DEADLOCK FALSE
INVARIANT
    AttemptsBounded
