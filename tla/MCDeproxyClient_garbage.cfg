\* One client sending plain and pipelined requests: the proxy answers a
\* pipelined input with 200 then 400, back to back on the connection.
CONSTANTS
    c1 = c1
    c2 = c2
    Clients <- OneClient
    Methods = {"GET", "HEAD"}
    Inputs = {"plain", "pipelined"}
    MaxRequests = 2
    ReqLen = 2
    BodyLen = 1
    SegmentSize = 1
SPECIFICATION Spec
INVARIANT NoParseError
