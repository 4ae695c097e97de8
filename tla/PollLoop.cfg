\* Two senders on a one-datagram buffer, channels of capacity one.
CONSTANTS
    Sender = {p, q}
    channel_capacity = 1
    tx_capacity = 1
    MaxPackets = 1
SPECIFICATION FairSpec
INVARIANT NoSessionLost
PROPERTIES SendCompletes PacketsPolled StopsWithHandle
CHECK_DEADLOCK FALSE
