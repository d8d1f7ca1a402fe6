\* README, webhooks: has a tenant at most the maximum of subscriptions?
CONSTANTS
    other = other
    Hook = {h1, h2, other}
    Event = {e1}
    Wants <- MCWants
    Client = {c1, c2}
    Sender = {s1}
    MaxHooks = 2
    MaxAttempts = 2
    LateSenders = FALSE
    NoDelivery = NoDelivery
    MaxFaults = 0
    MaxRetries = 0
SPECIFICATION Spec
CHECK_DEADLOCK FALSE
INVARIANT
    SubscriptionsBounded
