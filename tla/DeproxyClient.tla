--------------------------- MODULE DeproxyClient ---------------------------
(***************************************************************************)
(* The deproxy client of src/framework/deproxy_client.py, driven by a test *)
(* thread, serviced by the asyncore event loop thread, and talking over    *)
(* one TCP connection per client to the proxy under test (Tempesta), whose *)
(* backend answers every forwarded request.                                *)
(*                                                                         *)
(* Bytes are abstracted to tokens.  A request byte is a record             *)
(* [rid, m, i]: byte i of the request made by the rid-th make_request,     *)
(* with method m; i = 0 marks a byte that breaks the request line (the     *)
(* '\t' or bare '\n' of test_malformed_rqline.py).  A response byte is     *)
(* either a header token [kind "H", rid, status, cl] (status line and      *)
(* headers, with Content-Length cl) or a body token [kind "B", rid].      *)
(*                                                                         *)
(* The class attribute DeproxyClient.responses is one list shared by all   *)
(* client instances: it is the single variable `responses` here.          *)
(***************************************************************************)
EXTENDS Naturals, Sequences, SequencesExt

CONSTANTS
    Clients,        \* DeproxyClient instances of one test (model values)
    Methods,        \* request methods the test uses, a subset of {"GET", "HEAD"}
    Inputs,         \* request kinds the test sends (see RequestBytes)
    MaxRequests,    \* bound on make_request calls per client
    ReqLen,         \* bytes of a well-formed request
    BodyLen,        \* Content-Length of the backend's response
    SegmentSize     \* client segment_size: 0 means unset (whole buffer)

ASSUME Methods \subseteq {"GET", "HEAD"} /\ Methods # {}
ASSUME Inputs \subseteq {"plain", "malformed", "pipelined"} /\ Inputs # {}
ASSUME MaxRequests \in Nat \ {0} /\ ReqLen \in Nat \ {0}
ASSUME BodyLen \in Nat /\ SegmentSize \in Nat

VARIABLES
    phase,          \* stateful state of the client: "init", "started", "stopped"
    request,        \* method of self.request, "none" before the first make_request
    request_buffer, \* bytes not yet written to the socket
    response_buffer,\* bytes received and not yet consumed by a parsed response
    responses,      \* the class-level list DeproxyClient.responses
    last_response,  \* self.last_response
    nr,             \* self.nr: len(responses) captured by make_request
    error,          \* handle_read raised deproxy.ParseError for this client
    tpc,            \* program counter of the test thread using the client
    made,           \* number of make_request calls (history: sent_count)
    input,          \* [k, m] of the latest make_request (history)
    answered,       \* the latest wait_for_response returned True
    up,             \* bytes in flight from the client to the proxy
    down,           \* bytes in flight from the proxy to the client
    closed          \* the proxy closed the connection after an error reply

client_vars == <<phase, request, request_buffer, response_buffer, responses,
                 last_response, nr, error>>
test_vars == <<tpc, made, input, answered>>
net_vars == <<up, down, closed>>
vars == <<client_vars, test_vars, net_vars>>

None == [rid |-> 0, status |-> 0, intact |-> FALSE]
NoInput == [k |-> "none", m |-> "none"]

-----------------------------------------------------------------------------
(* Bytes.                                                                  *)

ReqByte(r, m, i) == [rid |-> r, m |-> m, i |-> i]

\* The bytes a test hands to make_request: one well-formed request, one
\* whose request line is broken, or a well-formed request followed by a
\* malformed second one (the *_pipeline tests).
RequestBytes(r, m, k) ==
    LET good == [i \in 1..ReqLen |-> ReqByte(r, m, i)]
    IN  CASE k = "plain"     -> good
          [] k = "malformed" -> <<ReqByte(r, m, 0)>> \o Tail(good)
          [] k = "pipelined" -> good \o <<ReqByte(r, m, 0)>>

Header(r, s, cl) == [kind |-> "H", rid |-> r, status |-> s, cl |-> cl]
Body(r) == [kind |-> "B", rid |-> r]

\* The response the backend sends through the proxy: a HEAD response
\* carries the Content-Length of the resource but no body.
ResponseBytes(r, m) ==
    <<Header(r, 200, BodyLen)>>
      \o (IF m = "HEAD" THEN <<>> ELSE [i \in 1..BodyLen |-> Body(r)])

-----------------------------------------------------------------------------
(* deproxy.Response(buffer, method): the response parser of helpers/       *)
(* deproxy.py.  A buffer not starting with a status line is a ParseError;  *)
(* a HEAD response has no body whatever its Content-Length; otherwise the  *)
(* message is complete once Content-Length body bytes follow the headers. *)
(* `len` is len(response.msg).                                             *)

ParseResponse(buf, method) ==
    LET h == buf[1]
        n == IF method = "HEAD" THEN 0 ELSE h.cl
    IN  IF h.kind # "H" THEN [res |-> "error"]
        ELSE IF Len(buf) < 1 + n THEN [res |-> "incomplete"]
        ELSE [res  |-> "complete",
              len  |-> 1 + n,
              resp |-> [rid |-> h.rid, status |-> h.status,
                        intact |-> \A k \in 2..(1 + n) : buf[k] = Body(h.rid)]]

-----------------------------------------------------------------------------
Init ==
    /\ phase = [c \in Clients |-> "init"]
    /\ request = [c \in Clients |-> "none"]
    /\ request_buffer = [c \in Clients |-> <<>>]
    /\ response_buffer = [c \in Clients |-> <<>>]
    /\ responses = <<>>
    /\ last_response = [c \in Clients |-> None]
    /\ nr = [c \in Clients |-> 0]
    /\ error = [c \in Clients |-> FALSE]
    /\ tpc = [c \in Clients |-> "idle"]
    /\ made = [c \in Clients |-> 0]
    /\ input = [c \in Clients |-> NoInput]
    /\ answered = [c \in Clients |-> TRUE]
    /\ up = [c \in Clients |-> <<>>]
    /\ down = [c \in Clients |-> <<>>]
    /\ closed = [c \in Clients |-> FALSE]

-----------------------------------------------------------------------------
(* The event loop thread (asyncore) services a started client whose       *)
(* exchange has not failed; its handlers never run concurrently.          *)

\* Mutation: the event loop keeps servicing a stopped client.
ServicedAfterStop(c) == ~error[c]

Serviced(c) == phase[c] = "started" /\ ~error[c]

\* Mutation: writable() off by one, the last byte is never sent.
WritableAfterFirst(c) == Len(request_buffer[c]) > 1

\* Mutation: the garbage check also fires on an empty remainder.
GarbageAtEnd(rest) == Len(rest) >= 0

\* BaseDeproxyClient.writable()
Writable(c) == Len(request_buffer[c]) > 0

\* Whether bytes remain after the parsed response (the garbage check).
Garbage(rest) == Len(rest) > 0

\* deproxy.Client.handle_write: send one segment_size slice (or the whole
\* buffer) and keep the rest for the next writable event.
HandleWrite(c) ==
    /\ Serviced(c) /\ Writable(c)
    /\ LET n == IF SegmentSize = 0 \/ SegmentSize > Len(request_buffer[c])
                THEN Len(request_buffer[c]) ELSE SegmentSize
       IN  /\ up' = [up EXCEPT ![c] = @ \o SubSeq(request_buffer[c], 1, n)]
           /\ request_buffer' = [request_buffer EXCEPT
                                    ![c] = SubSeq(@, n + 1, Len(@))]
    /\ UNCHANGED <<phase, request, response_buffer, responses, last_response,
                   nr, error, test_vars, down, closed>>

\* DeproxyClient.recieve_response: append to the class-level list and set
\* self.last_response.
RecieveResponse(c, r) ==
    /\ responses' = Append(responses, r)
    /\ last_response' = [last_response EXCEPT ![c] = r]

\* BaseDeproxyClient.handle_read: recv() whatever part of the stream has
\* arrived, append it to response_buffer and parse with the method of the
\* current self.request.  An incomplete message waits for more bytes; a
\* parse error, or bytes left after the parsed response, raise ParseError;
\* otherwise recieve_response() records the response and the buffer is
\* emptied.
HandleRead(c) ==
    /\ Serviced(c)
    /\ down[c] # <<>>
    /\ \E k \in 1..Len(down[c]) :
        LET buf == response_buffer[c] \o SubSeq(down[c], 1, k)
            p   == ParseResponse(buf, request[c])
            rest == IF p.res = "complete" THEN SubSeq(buf, p.len + 1, Len(buf))
                    ELSE buf
        IN  /\ down' = [down EXCEPT ![c] = SubSeq(@, k + 1, Len(@))]
            /\ \/ /\ p.res = "incomplete"
                  /\ response_buffer' = [response_buffer EXCEPT ![c] = buf]
                  /\ UNCHANGED <<responses, last_response, error>>
               \/ /\ \/ p.res = "error"
                     \/ p.res = "complete" /\ Garbage(rest)
                  /\ response_buffer' = [response_buffer EXCEPT ![c] = rest]
                  /\ error' = [error EXCEPT ![c] = TRUE]
                  /\ UNCHANGED <<responses, last_response>>
               \/ /\ p.res = "complete" /\ ~Garbage(rest)
                  /\ RecieveResponse(c, p.resp)
                  /\ response_buffer' = [response_buffer EXCEPT ![c] = <<>>]
                  /\ UNCHANGED error
    /\ UNCHANGED <<phase, request, request_buffer, nr, test_vars, up, closed>>

-----------------------------------------------------------------------------
(* The proxy under test and its backend: a well-formed request at the     *)
(* head of the stream is forwarded and answered; a malformed one is       *)
(* answered with 400 and the connection is closed.                         *)

WellFormedUpTo(bytes, n) ==
    \A i \in 1..n : bytes[i] = ReqByte(bytes[1].rid, bytes[1].m, i)

ProxyForward(c) ==
    /\ ~closed[c]
    /\ Len(up[c]) >= ReqLen
    /\ WellFormedUpTo(up[c], ReqLen)
    /\ down' = [down EXCEPT ![c] = @ \o ResponseBytes(up[c][1].rid, up[c][1].m)]
    /\ up' = [up EXCEPT ![c] = SubSeq(@, ReqLen + 1, Len(@))]
    /\ UNCHANGED <<client_vars, test_vars, closed>>

ProxyReject(c) ==
    /\ ~closed[c]
    /\ up[c] # <<>>
    /\ ~WellFormedUpTo(up[c], IF Len(up[c]) < ReqLen THEN Len(up[c]) ELSE ReqLen)
    /\ down' = [down EXCEPT ![c] = Append(@, Header(up[c][1].rid, 400, 0))]
    /\ up' = [up EXCEPT ![c] = <<>>]
    /\ closed' = [closed EXCEPT ![c] = TRUE]
    /\ UNCHANGED <<client_vars, test_vars>>

-----------------------------------------------------------------------------
(* The test thread.  It starts the client, makes a request, waits for the *)
(* response and makes the next request only after a wait returned True,   *)
(* as every test of the repository does; a failed wait, or an exception,  *)
(* ends the test, which then stops the client.  A pipelined input is the  *)
(* last request of its test.                                               *)

Start(c) ==
    /\ tpc[c] = "idle" /\ phase[c] = "init"
    /\ phase' = [phase EXCEPT ![c] = "started"]
    /\ UNCHANGED <<request, request_buffer, response_buffer, responses,
                   last_response, nr, error, test_vars, net_vars>>

\* Mutation: make_request without the self.nr snapshot.
MakeRequestKeepNr(c) ==
    /\ tpc[c] = "idle" /\ answered[c]
    /\ made[c] < MaxRequests
    /\ input[c].k \in {"none", "plain"}
    /\ \E k \in Inputs, m \in Methods :
          input' = [input EXCEPT ![c] = [k |-> k, m |-> m]]
    /\ made' = [made EXCEPT ![c] = @ + 1]
    /\ answered' = [answered EXCEPT ![c] = FALSE]
    /\ tpc' = [tpc EXCEPT ![c] = "mr_parse"]
    /\ UNCHANGED <<phase, request, request_buffer, response_buffer, responses,
                   last_response, nr, error, net_vars>>

\* DeproxyClient.make_request, first statement: self.nr = len(self.responses).
MakeRequest(c) ==
    /\ tpc[c] = "idle" /\ answered[c]
    /\ made[c] < MaxRequests
    /\ input[c].k \in {"none", "plain"}
    /\ \E k \in Inputs, m \in Methods :
          input' = [input EXCEPT ![c] = [k |-> k, m |-> m]]
    /\ nr' = [nr EXCEPT ![c] = Len(responses)]
    /\ made' = [made EXCEPT ![c] = @ + 1]
    /\ answered' = [answered EXCEPT ![c] = FALSE]
    /\ tpc' = [tpc EXCEPT ![c] = "mr_parse"]
    /\ UNCHANGED <<phase, request, request_buffer, response_buffer, responses,
                   last_response, error, net_vars>>

\* Mutation: self.request = request, the raw input instead of a Request.
MakeRequestParseRaw(c) ==
    /\ tpc[c] = "mr_parse" /\ input[c].k # "malformed"
    /\ request' = [request EXCEPT ![c] = input[c].k]
    /\ tpc' = [tpc EXCEPT ![c] = "mr_buffer"]
    /\ UNCHANGED <<phase, request_buffer, response_buffer, responses,
                   last_response, nr, error, made, input, answered, net_vars>>

\* BaseDeproxyClient.make_request: self.request = deproxy.Request(request).
MakeRequestParse(c) ==
    /\ tpc[c] = "mr_parse" /\ input[c].k # "malformed"
    /\ request' = [request EXCEPT ![c] = input[c].m]
    /\ tpc' = [tpc EXCEPT ![c] = "mr_buffer"]
    /\ UNCHANGED <<phase, request_buffer, response_buffer, responses,
                   last_response, nr, error, made, input, answered, net_vars>>

\* deproxy.Request raises ParseError on a broken request line: the
\* exception leaves make_request with self.nr already updated.
MakeRequestParseError(c) ==
    /\ tpc[c] = "mr_parse" /\ input[c].k = "malformed"
    /\ tpc' = [tpc EXCEPT ![c] = "failed"]
    /\ UNCHANGED <<client_vars, made, input, answered, net_vars>>

\* BaseDeproxyClient.make_request: self.request_buffer = request.
MakeRequestBuffer(c) ==
    /\ tpc[c] = "mr_buffer"
    /\ request_buffer' = [request_buffer EXCEPT
                            ![c] = RequestBytes(made[c], input[c].m, input[c].k)]
    /\ tpc' = [tpc EXCEPT ![c] = "idle"]
    /\ UNCHANGED <<phase, request, response_buffer, responses, last_response,
                   nr, error, made, input, answered, net_vars>>

\* DeproxyClient.wait_for_response on a client that is not started.
WaitNotStarted(c) ==
    /\ tpc[c] = "idle" /\ ~answered[c] /\ phase[c] # "started"
    /\ tpc' = [tpc EXCEPT ![c] = "failed"]
    /\ UNCHANGED <<client_vars, made, input, answered, net_vars>>

WaitStart(c) ==
    /\ tpc[c] = "idle" /\ ~answered[c] /\ phase[c] = "started"
    /\ tpc' = [tpc EXCEPT ![c] = "waiting"]
    /\ UNCHANGED <<client_vars, made, input, answered, net_vars>>

\* The polling loop sees len(self.responses) != self.nr and returns True.
WaitDone(c) ==
    /\ tpc[c] = "waiting" /\ Len(responses) # nr[c]
    /\ tpc' = [tpc EXCEPT ![c] = "idle"]
    /\ answered' = [answered EXCEPT ![c] = TRUE]
    /\ UNCHANGED <<client_vars, made, input, net_vars>>

\* The polling loop finds the list unchanged after the timeout: False.
WaitTimeout(c) ==
    /\ tpc[c] = "waiting" /\ Len(responses) = nr[c]
    /\ tpc' = [tpc EXCEPT ![c] = "failed"]
    /\ UNCHANGED <<client_vars, made, input, answered, net_vars>>

\* stateful.Stateful.stop at the end of the test.
Stop(c) ==
    /\ tpc[c] \in {"idle", "failed"}
    /\ phase' = [phase EXCEPT ![c] = "stopped"]
    /\ tpc' = [tpc EXCEPT ![c] = "done"]
    /\ UNCHANGED <<request, request_buffer, response_buffer, responses,
                   last_response, nr, error, made, input, answered, net_vars>>

\* Every test has finished and stopped its clients.
Finished ==
    /\ \A c \in Clients : tpc[c] = "done"
    /\ UNCHANGED vars

-----------------------------------------------------------------------------
Next ==
    \/ \E c \in Clients :
          \/ HandleWrite(c) \/ HandleRead(c)
          \/ ProxyForward(c) \/ ProxyReject(c)
          \/ Start(c) \/ MakeRequest(c) \/ MakeRequestParse(c)
          \/ MakeRequestParseError(c) \/ MakeRequestBuffer(c)
          \/ WaitNotStarted(c) \/ WaitStart(c) \/ WaitDone(c)
          \/ WaitTimeout(c) \/ Stop(c)
    \/ Finished

\* The event loop services every ready socket, the proxy and backend answer,
\* and the polling loop of wait_for_response wakes up every 10 ms.  Timeouts,
\* and what the test calls next, are not forced.
Fairness ==
    \A c \in Clients :
        /\ WF_vars(HandleWrite(c)) /\ WF_vars(HandleRead(c))
        /\ WF_vars(ProxyForward(c)) /\ WF_vars(ProxyReject(c))
        /\ WF_vars(MakeRequestParse(c)) /\ WF_vars(MakeRequestBuffer(c))
        /\ WF_vars(WaitDone(c))

Spec == Init /\ [][Next]_vars /\ Fairness

-----------------------------------------------------------------------------
(* Properties.                                                             *)

ReqBytes == [rid : 1..MaxRequests, m : Methods, i : 0..ReqLen]
RespBytes ==
    {Header(r, s, cl) : r \in 1..MaxRequests, s \in {200, 400}, cl \in {0, BodyLen}}
      \cup {Body(r) : r \in 1..MaxRequests}
Response == [rid : 0..MaxRequests, status : {0, 200, 400}, intact : BOOLEAN]

TypeOK ==
    /\ phase \in [Clients -> {"init", "started", "stopped"}]
    /\ request \in [Clients -> Methods \cup {"none"}]
    /\ request_buffer \in [Clients -> Seq(ReqBytes)]
    /\ response_buffer \in [Clients -> Seq(RespBytes)]
    /\ responses \in Seq(Response)
    /\ last_response \in [Clients -> Response]
    /\ nr \in [Clients -> Nat]
    /\ error \in [Clients -> BOOLEAN]
    /\ tpc \in [Clients -> {"idle", "mr_parse", "mr_buffer", "waiting",
                             "failed", "done"}]
    /\ made \in [Clients -> 0..MaxRequests]
    /\ input \in [Clients -> [k : Inputs, m : Methods] \cup {NoInput}]
    /\ answered \in [Clients -> BOOLEAN]
    /\ up \in [Clients -> Seq(ReqBytes)]
    /\ down \in [Clients -> Seq(RespBytes)]
    /\ closed \in [Clients -> BOOLEAN]

\* After wait_for_response returned True, the response a test reads
\* (self.last_response) answers the request of its latest make_request and
\* carries that response's own body: the self.nr snapshot, the method the
\* response is parsed with and the buffer handling of handle_read together
\* make the oracle report the right exchange.
ResponseAnswersRequest ==
    \A c \in Clients :
        answered[c] /\ made[c] > 0 =>
            /\ last_response[c].rid = made[c]
            /\ last_response[c].intact

\* handle_read raises ParseError only when the proxy sent two responses
\* back to back (a pipelined input): however recv() splits a single
\* response, the client assembles it (fragmentation invariance).
ParseErrorOnlyOnPipelined ==
    \A c \in Clients : error[c] => input[c].k = "pipelined"

\* Spec: handle_read never raises ParseError on a stream of well-formed
\* responses, whatever fragments recv() returns.
NoParseError ==
    \A c \in Clients : ~error[c]

\* Spec: a client never holds more received responses than it made
\* requests (received_count <= sent_count), counting len(self.responses).
ReceivedLeSent ==
    \A c \in Clients : Len(responses) <= made[c]

\* A wait_for_response returns, even when no timeout fires, unless the
\* client's exchange failed with ParseError: the request is written segment
\* by segment, the proxy answers, the response is read and recorded, and
\* the polling loop notices it.
ExchangeCompletes ==
    \A c \in Clients : tpc[c] = "waiting" ~> (tpc[c] # "waiting" \/ error[c])


-----------------------------------------------------------------------------
(* Refinement: the client implements the exchange its spec promises.  The  *)
(* requests sent are make_request calls, the request answered is the rid   *)
(* of self.last_response, and the test's exchange is read off the test     *)
(* thread: ready after a wait returned True, failed, or done.              *)

ExchangeState(c) ==
    CASE tpc[c] = "done"   -> "done"
      [] tpc[c] = "failed" -> "failed"
      [] answered[c]       -> "ready"
      [] OTHER             -> "busy"

Exchange == INSTANCE DeproxyExchange WITH
    sent  <- made,
    got   <- [c \in Clients |-> last_response[c].rid],
    st    <- [c \in Clients |-> ExchangeState(c)]

\* The client, with its event loop thread, the test thread and the proxy,
\* behaves as the exchange of the spec: every response recorded (by
\* handle_read's recieve_response) answers the latest request and arrives
\* while the client is started, and wait_for_response returns True only
\* once it is there.
ExchangeRefined == Exchange!Spec

=============================================================================
