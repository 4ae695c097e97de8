\* TCP and UDP on two interfaces that share the tables and the budget: one UDP socket and one connection fit.
CONSTANTS
    Interface = {1, 2}
    Src = {s1}
    Dst = {d1}
    Handle = {0, 1}
    NoPeer = NoPeer
    NoLimit = NoLimit
    max_buffer_bytes = 67
    tcp_max_connections = 1
    tcp_pool_size = 1
    tcp_buffer_size = 1
    udp_max_sessions = 2
    udp_buffer_packets = 1
    udp_buffer_bytes = 1
    udp_session_timeout = 0
    mtu = 1
    Sid = {1, 2}
    Packet <- MixedPackets
    MaxBatch = 1
SPECIFICATION FairSpec
INVARIANTS SocketsOwned BudgetExact
PROPERTIES CycleReclaims CycleAdvances MutexReleased IdleReclaimed OrphanReclaimed
CHECK_DEADLOCK TRUE
