\* A connection that is finished as soon as it is set up.
CONSTANTS
    Interface = {1}
    Src = {s1, s2}
    Dst = {d1}
    Handle = {0, 1}
    NoPeer = NoPeer
    NoLimit = NoLimit
    max_buffer_bytes = NoLimit
    tcp_max_connections = 2
    tcp_pool_size = 1
    tcp_buffer_size = 1
    udp_max_sessions = 0
    udp_buffer_packets = 1
    udp_buffer_bytes = 1
    udp_session_timeout = 0
    mtu = 1
    Sid = {1, 2}
    Packet <- TcpPackets
    MaxBatch = 2
SPECIFICATION Spec
INVARIANT HandshakeExposed
CHECK_DEADLOCK TRUE
