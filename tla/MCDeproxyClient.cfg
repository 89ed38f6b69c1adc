\* One client; plain, malformed and pipelined requests with GET and HEAD;
\* two requests; requests written one byte per writable event (segment_size 1).
CONSTANTS
    c1 = c1
    c2 = c2
    Clients <- OneClient
    Methods = {"GET", "HEAD"}
    Inputs = {"plain", "malformed", "pipelined"}
    MaxRequests = 2
    ReqLen = 2
    BodyLen = 1
    SegmentSize = 1
SPECIFICATION Spec
INVARIANT TypeOK
INVARIANT ResponseAnswersRequest
INVARIANT ParseErrorOnlyOnPipelined
PROPERTY ExchangeCompletes
PROPERTY ExchangeRefined
