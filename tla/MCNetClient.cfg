\* Pass run: a TCPClient with one connection and a WSClient with two.
CONSTANTS
    g1 = g1  g2 = g2
    TCPConns <- TCPOne
    TCPMaxConnects = 1
    WSConns <- Both
    WSMaxConnects = 3
SPECIFICATION Spec
INVARIANT ConnsTracked
PROPERTY WSCloseReturns
CHECK_DEADLOCK FALSE
