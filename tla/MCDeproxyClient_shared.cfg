\* Two clients of one test (the Cache tester of test_tls_integrity.py uses
\* four) sharing the class attribute DeproxyClient.responses.
CONSTANTS
    c1 = c1
    c2 = c2
    Clients <- TwoClients
    Methods = {"GET"}
    Inputs = {"plain"}
    MaxRequests = 2
    ReqLen = 2
    BodyLen = 1
    SegmentSize = 1
SPECIFICATION Spec
INVARIANT ReceivedLeSent
