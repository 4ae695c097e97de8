\* A byte in or two bytes out, buffers of one byte, channels of capacity one.
CONSTANTS
    Sender = {}
    channel_capacity = 1
    tx_capacity = 1
    MaxPackets = 0
    NoPeer = NoPeer
    tcp_buffer_size = 1
    MaxIn = 1
    MaxOut = 2
SPECIFICATION StreamFairSpec
INVARIANTS StreamTypeOK NoLostWakeup ReapedAfterDelivery
PROPERTIES InboundPipe OutboundPipe WrittenDelivered WaitsEnd WindowReopens
CHECK_DEADLOCK FALSE
