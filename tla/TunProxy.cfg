\* Two sessions at most, channels of capacity one.
CONSTANTS
    Sender = {p, q}
    channel_capacity = 1
    tx_capacity = 1
    MaxPackets = 2
SPECIFICATION TunSpec
INVARIANT RoutesTornDown
PROPERTIES RunnerUnblocked SessionsRelayed RepliesTaken
CHECK_DEADLOCK FALSE
