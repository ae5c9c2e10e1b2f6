SPECIFICATION Spec
CONSTANTS
    MaxConns = 2
    MaxBinds = 1
    MaxStarts = 1
    MaxStops = 1
    Clients = {c1, c2}
    MaxRequests = 2
    m_maxRequest = 2
    m_maxAliveTime = 1
    Now = 10
INVARIANTS  MessagesExact PoolExact
PROPERTIES RequestsReturn 
CHECK_DEADLOCK FALSE
