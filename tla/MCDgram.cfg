CONSTANTS
    NODE_ID_LEN = 2
    MSG_ID_LEN = 2
    MAX_UPDATES = 2
    MAX_PAYLOAD = 2
    Messages <- MCMessages
    Caps = {8, 13, 30}
    Values = {0, 1, 2, 3, 5, 255}
SPECIFICATION Spec
INVARIANT TypeOK
PROPERTIES RoundTrip CutNoticed
