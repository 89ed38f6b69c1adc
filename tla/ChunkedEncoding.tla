--------------------------- MODULE ChunkedEncoding ---------------------------
(***************************************************************************)
(* TestTransformPayload of src/msg_modification/tests_encode_to_chunked.py:*)
(* make_body, make_chain and make_empty_body_chain build the response the  *)
(* backend sends without framing and the response the client must receive  *)
(* from Tempesta with framing added.  A message is its header list and its *)
(* body; a byte is a one-character string, CR and LF are tokens.  The      *)
(* client's parser (helpers/deproxy.py, not under src/) is modelled from   *)
(* the framing rules of the spec and decodes the expected response.        *)
(***************************************************************************)
EXTENDS Naturals, Sequences, SequencesExt

CONSTANT
    BodyLens        \* the body_len arguments of make_body the tests use

ASSUME BodyLens \subseteq Nat

Letters == <<"a", "b", "c", "d", "e", "f", "g", "h", "i", "j", "k", "l", "m",
             "n", "o", "p", "q", "r", "s", "t", "u", "v", "w", "x", "y", "z">>
HexUpper == <<"0", "1", "2", "3", "4", "5", "6", "7", "8", "9",
              "A", "B", "C", "D", "E", "F">>
HexLower == <<"0", "1", "2", "3", "4", "5", "6", "7", "8", "9",
              "a", "b", "c", "d", "e", "f">>
CRLF == <<"CR", "LF">>
Bytes == ToSet(Letters) \cup ToSet(HexUpper) \cup {"CR", "LF"}

\* The longest chunk-size line the parser reads before giving up.
SizeLineMax == 8

-----------------------------------------------------------------------------
(* Conversions and string helpers.                                         *)

\* "%X" % n: n in upper-case hexadecimal, without leading zeros.
RECURSIVE Hex(_)
Hex(n) == IF n < 16 THEN <<HexUpper[n + 1]>>
          ELSE Hex(n \div 16) \o <<HexUpper[(n % 16) + 1]>>

\* Mutation: "%d" % n, the size in decimal.
RECURSIVE Dec(_)
Dec(n) == IF n < 10 THEN <<HexUpper[n + 1]>>
          ELSE Dec(n \div 10) \o <<HexUpper[(n % 10) + 1]>>

\* '\r\n'.join(parts)
CrlfJoin(parts) ==
    FlattenSeq([i \in 1..(2 * Len(parts) - 1) |->
                  IF i % 2 = 1 THEN parts[(i + 1) \div 2] ELSE CRLF])

\* headers.delete_all(name) and headers.add(name, value)
DeleteAll(hs, name) == SelectSeq(hs, LAMBDA h : h[1] # name)
AddHeader(hs, name, value) == Append(hs, <<name, value>>)

\* The response of chains.base(): a Content-Length header for its empty
\* body and a header that plays no part in framing.
BaseResponse == [headers |-> << <<"Content-Length", <<"0">> >>,
                                <<"Server", <<>> >> >>,
                 body    |-> <<>>]

-----------------------------------------------------------------------------
(* The three builders.                                                     *)

\* ''.join([chr(i % 26 + ord('a')) for i in range(body_len)])
make_body(len) == [i \in 1..len |-> Letters[((i - 1) % 26) + 1]]

\* The backend's response: no framing, the body ends with the connection.
ServerResponse(body) ==
    [BaseResponse EXCEPT !.headers = DeleteAll(@, "Content-Length"),
                         !.body = body]

\* Mutation: the chunk size is formatted with "%d".
ChunkedBodyDecimal(body) ==
    IF body # <<>> THEN CrlfJoin(<<Dec(Len(body)), body, <<"0">>, <<>>, <<>> >>)
    ELSE CrlfJoin(<< <<"0">>, <<>>, <<>> >>)

\* The chunked_body of make_chain: one chunk carrying the body and the
\* last chunk, or the last chunk alone when the body is empty.
ChunkedBody(body) ==
    IF body # <<>> THEN CrlfJoin(<<Hex(Len(body)), body, <<"0">>, <<>>, <<>> >>)
    ELSE CrlfJoin(<< <<"0">>, <<>>, <<>> >>)

Chunked == <<"c", "h", "u", "n", "k", "e", "d">>

\* make_chain(body): the backend's response carries the body unframed, the
\* client's has Content-Length replaced by Transfer-Encoding: chunked.
MakeChain(body) ==
    [server   |-> ServerResponse(body),
     response |-> [headers |-> AddHeader(DeleteAll(BaseResponse.headers,
                                  "Content-Length"), "Transfer-Encoding", Chunked),
                   body    |-> ChunkedBody(body)]]

\* Mutation: the header added is misspelt.
MakeEmptyBodyChainTypo ==
    [server   |-> ServerResponse(<<>>),
     response |-> [headers |-> AddHeader(DeleteAll(BaseResponse.headers,
                                  "Content-Length"), "Content-Lenght", <<"0">>),
                   body |-> <<>>]]

\* make_empty_body_chain(): an empty body framed by Content-Length: 0.
MakeEmptyBodyChain ==
    [server   |-> ServerResponse(<<>>),
     response |-> [headers |-> AddHeader(DeleteAll(BaseResponse.headers,
                                  "Content-Length"), "Content-Length", <<"0">>),
                   body |-> <<>>]]

-----------------------------------------------------------------------------
(* The client's parser: framing chosen from the headers, then Content-     *)
(* Length, chunked or connection-close decoding.  A parse is [ok, body];   *)
(* ok is FALSE for a malformed or incomplete message.                      *)

Failed == [ok |-> FALSE, body |-> <<>>]

HexDigit(c) == CHOOSE v \in 0..15 : HexUpper[v + 1] = c \/ HexLower[v + 1] = c

\* The number a sequence of digits of the given base writes.
RECURSIVE NumberOf(_, _)
NumberOf(ds, base) == IF ds = <<>> THEN 0
                      ELSE NumberOf(Front(ds), base) * base + HexDigit(Last(ds))

IsHexLine(line) ==
    line # <<>> /\ \A k \in 1..Len(line) : line[k] \in ToSet(HexUpper) \cup ToSet(HexLower)

\* Decode the chunks of s from position i on, acc holding the data so far:
\* a size line ends at CRLF within SizeLineMax bytes, the data is followed by
\* CRLF, and the zero-size chunk is followed by the final CRLF and nothing.
RECURSIVE Dechunk(_, _, _)
Dechunk(s, i, acc) ==
    LET e    == IF i > Len(s) THEN 0
                ELSE SelectInSubSeq(s, i, IF i + SizeLineMax > Len(s) THEN Len(s)
                                          ELSE i + SizeLineMax, LAMBDA c : c = "CR")
        line == SubSeq(s, i, e - 1)
        d    == e + 2
        n    == NumberOf(line, 16)
    IN CASE e = 0 \/ e + 1 > Len(s) \/ ~IsHexLine(line) -> Failed
         [] s[e + 1] # "LF"                               -> Failed
         [] n = 0 -> IF SubSeq(s, d, Len(s)) = CRLF THEN [ok |-> TRUE, body |-> acc]
                     ELSE Failed
         [] d + n + 1 > Len(s) \/ SubSeq(s, d + n, d + n + 1) # CRLF -> Failed
         [] OTHER -> Dechunk(s, d + n + 2, acc \o SubSeq(s, d, d + n - 1))

HeaderValues(hs, name) == {hs[k][2] : k \in {j \in 1..Len(hs) : hs[j][1] = name}}

ParseResponse(msg) ==
    LET te == HeaderValues(msg.headers, "Transfer-Encoding")
        cl == HeaderValues(msg.headers, "Content-Length")
    IN CASE Chunked \in te -> Dechunk(msg.body, 1, <<>>)
         [] cl # {} -> LET n == NumberOf(CHOOSE v \in cl : TRUE, 10)
                       IN IF Len(msg.body) = n THEN [ok |-> TRUE, body |-> msg.body]
                          ELSE Failed
         [] OTHER -> [ok |-> TRUE, body |-> msg.body]

-----------------------------------------------------------------------------
(* A test: build the body and the chain, then the client receives the      *)
(* expected response.                                                      *)

VARIABLES
    pc,             \* "start", "body", "chain", "done"
    body,           \* the body built by make_body
    chain,          \* the chain: [server, response]
    received        \* the client's parse of chain.response

vars == <<pc, body, chain, received>>

Init ==
    /\ pc = "start"
    /\ body = <<>>
    /\ chain = [server |-> BaseResponse, response |-> BaseResponse]
    /\ received = Failed

\* test_small_body_to_chunked, test_big_body_to_chunked: make_body(n).
MakeBodyStep ==
    /\ pc = "start"
    /\ \E n \in BodyLens : body' = make_body(n)
    /\ pc' = "body"
    /\ UNCHANGED <<chain, received>>

MakeChainStep ==
    /\ pc = "body"
    /\ chain' = MakeChain(body)
    /\ pc' = "chain"
    /\ UNCHANGED <<body, received>>

\* test_zero_body_to_chunked.
MakeEmptyBodyChainStep ==
    /\ pc = "start"
    /\ chain' = MakeEmptyBodyChain
    /\ pc' = "chain"
    /\ UNCHANGED <<body, received>>

\* generic_test_routine: the client parses the response it receives.
Receive ==
    /\ pc = "chain"
    /\ received' = ParseResponse(chain.response)
    /\ pc' = "done"
    /\ UNCHANGED <<body, chain>>

Done ==
    /\ pc = "done"
    /\ UNCHANGED vars

Next == MakeBodyStep \/ MakeChainStep \/ MakeEmptyBodyChainStep \/ Receive \/ Done

Spec == Init /\ [][Next]_vars

-----------------------------------------------------------------------------
(* Properties.                                                             *)

Header == {"Content-Length", "Transfer-Encoding", "Server"} \X Seq(Bytes)
Message == [headers : Seq(Header), body : Seq(Bytes)]

TypeOK ==
    /\ pc \in {"start", "body", "chain", "done"}
    /\ body \in Seq(Bytes)
    /\ chain \in [server : Message, response : Message]
    /\ received \in [ok : BOOLEAN, body : Seq(Bytes)]

\* The response the test expects the client to receive decodes, by the
\* framing it declares, to exactly the body the backend sent.
RoundTrip ==
    pc = "done" => received.ok /\ received.body = chain.server.body

=============================================================================
