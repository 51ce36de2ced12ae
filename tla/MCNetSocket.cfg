\* Two sockets with fewer descriptors than they could use at once.
SPECIFICATION Spec
CONSTANTS
    Socks = {s1, s2}
    Fds = {3, 4}
    MaxSignals = 2
INVARIANT SocketInv
PROPERTIES
    LeakOnlyByReopen
    ConnectTellsTruth
    ConnectReturns
