\* A reaped session dropped after its 5-tuple came back.
CONSTANTS
    Interface = {1}
    Src = {s1, s2}
    Dst = {d1, d2}
    Handle = {0, 1}
    NoPeer = NoPeer
    NoLimit = NoLimit
    max_buffer_bytes = 100
    tcp_max_connections = 0
    tcp_pool_size = 0
    tcp_buffer_size = 1
    udp_max_sessions = 2
    udp_buffer_packets = 1
    udp_buffer_bytes = 1
    udp_session_timeout = 1
    mtu = 1
    Sid = {1, 2, 3}
    Packet <- UdpPackets
    MaxBatch = 2
SPECIFICATION Spec
PROPERTY OpenUntilReaped
CHECK_DEADLOCK TRUE
