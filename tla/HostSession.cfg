SPECIFICATION FairSpec
CONSTANTS
    s1 = s1
    t1 = t1
    Tab <- MCTab
    Tunnel <- MCTunnel
    AutoStart <- MCNoAutoStart
    MaxRequests = 4
    MaxDeaths = 1
INVARIANTS
    SwallowsOnlyWhatWasAsked
    ConnectingIsCancellable
    LiveHasSession
    OneLossAtATime
    QuietHostAgrees
PROPERTIES
    CancelledStaysOffline
    EverythingSettles
CHECK_DEADLOCK FALSE
