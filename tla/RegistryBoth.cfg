\* Both containers: expiry, stops and failures at any step.
SPECIFICATION FairSpec
CONSTANTS
    Channels = {c1, c2}
    Containers = {Tg, Vk}
    Tg = Tg
    Vk = Vk
    None = None
    SharedDatabase = TRUE
    MaxEvents = 4
    MaxStops = 2
    MaxFailures = 2
INVARIANTS
    IInv
    OneMemberVk
    RegistryAgrees
    RestartForgetsNothingVk
PROPERTIES
    EveryChannelServed
CHECK_DEADLOCK FALSE
