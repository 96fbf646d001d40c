SPECIFICATION GateSpec

CONSTANTS
    Clients = {c1, c2}
    Window = 3
    RPM = 2
    MaxTime = 5
    MaxAdmitted = 3
    Tokens = {t1, t2}
    Versions = {{}, {t2}, {t1, t2}}
    ProxyKeys = {t1}
    KeepAlive = 5
    Behind = 1
    Ahead = 0
    RedisClients = {c3}
    MaxEdits = 1

INVARIANTS
    GateTypeOK
    WindowRespected
    OneVersion
    RedisWindowRespected
    RedisSilenceReopens

PROPERTIES
    ImplementsWindow

SYMMETRY Symmetry

CHECK_DEADLOCK FALSE
