SPECIFICATION Spec
CONSTANTS
    MaxConns = 2
    MaxChunks = 3
    MaxPieces = 2
    MaxPeer = 2
    OutLen = 1
INVARIANT TypeOK  OutputIsComplete
PROPERTY PeerGoneEnds TerminalEofEnds
CHECK_DEADLOCK FALSE
