SPECIFICATION DnssdFair
CONSTANTS
    eth = eth
    wifi = wifi
    lo = lo
    c1 = c1
    c2 = c2
    h1 = h1
    h2 = h2
    MinIndex = 7
    Addrs = {eth, wifi, lo}
    Interface <- AllInterfaces
    Threads = {c1, c2}
    Scenes <- AllScenes
    Hosts = {h1, h2}
    Answers <- AllAnswers
    Selected = {"ssh"}
    MaxCalls = 2
    MaxFaults = 1
INVARIANTS
    SocketsOwned
    ToldIsLabels
PROPERTY
    HostFound
CHECK_DEADLOCK FALSE
