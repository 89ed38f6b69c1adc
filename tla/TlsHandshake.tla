---------------------------- MODULE TlsHandshake ----------------------------
(***************************************************************************)
(* TlsHandshake of src/tls/handshake.py: one handshake object used by a    *)
(* test of src/tls/test_tls_handshake.py, against a TLS server whose every *)
(* answer is a nondeterministic choice.  do_12 runs _do_12_hs inside       *)
(* socket_ctx; each step below runs the statements between two exchanges  *)
(* with the server.  Extension lists, certificates and record contents are *)
(* left out: only what decides the control flow is kept.                   *)
(***************************************************************************)
EXTENDS Naturals

CONSTANTS
    Scenarios,      \* call sequences of the tests (see Call)
    MaxInject       \* largest inject value test_fuzzing uses (xrange(4))

ASSUME Scenarios \subseteq {"single", "twice", "fuzz"} /\ Scenarios # {}
ASSUME MaxInject \in Nat

\* The exceptions do_12 can leave with, and its normal return "false".
Outcomes == {"none", "false", "TLSProtocolError", "socket.error",
             "AssertionError", "KexError"}

\* What the server's first flight contains: ServerHello .. ServerHelloDone,
\* a certificate without the key exchange (a flight cut short by the rto
\* timeout of recvall), no certificate, a fatal alert, or a socket error.
Flights == {"full", "certOnly", "noCert", "alert", "sockErr"}

\* How many times a test calls do_12 on one object: test_bad_sni calls it
\* again after the first call returned, the other tests call it once.
CallsOf(s) == IF s = "twice" THEN 2 ELSE 1

\* The self.inject a test sets: test_fuzzing makes one object for each
\* inject_rec of xrange(4); the other tests leave it at 0.
InjectValues(s) == IF s = "fuzz" THEN 0..MaxInject ELSE {0}

VARIABLES
    scenario,       \* the test driving the object
    sock,           \* self.sock: "none", "open", or "closed" (still set)
    fuzz,           \* a fuzzer is passed and self.inject is not None
    inject,         \* self.inject
    inject0,        \* self.inject as the test set it (history)
    randint,        \* the process-global random.randint: "orig" or "patched"
    tpc,            \* the statement do_12 is at, or "idle"/"returned"/"raised"
    flight,         \* the server's first flight of the current handshake
    outcome,        \* what the current do_12 returns or raises
    points,         \* inject_bad calls made so far (history)
    bad,            \* injection points at which a bad record was sent (history)
    calls,          \* do_12 calls made by the test
    exts            \* extra_extensions batches appended to self.exts

vars == <<scenario, sock, fuzz, inject, inject0, randint, tpc, flight,
          outcome, points, bad, calls, exts>>

Init ==
    /\ scenario \in Scenarios
    /\ sock = "none"
    /\ fuzz = (scenario = "fuzz")
    /\ inject \in InjectValues(scenario)
    /\ inject0 = inject
    /\ randint = "orig"
    /\ tpc = "idle"
    /\ flight = "none"
    /\ outcome = "none"
    /\ points = 0
    /\ bad = {}
    /\ calls = 0
    /\ exts = 0

-----------------------------------------------------------------------------
(* inject_bad(fuzzer): count down self.inject normal records, then send a  *)
(* fuzzed record at this and every later injection point.                  *)

\* Mutation: the countdown tests inject >= 0.
InjectBadGe ==
    /\ points' = points + 1
    /\ IF ~fuzz THEN UNCHANGED <<inject, bad>>
       ELSE IF inject >= 0 THEN /\ inject' = inject - 1
                                /\ UNCHANGED bad
       ELSE /\ bad' = bad \cup {points + 1}
            /\ UNCHANGED inject

InjectBad ==
    /\ points' = points + 1
    /\ IF ~fuzz THEN UNCHANGED <<inject, bad>>
       ELSE IF inject > 0 THEN /\ inject' = inject - 1
                               /\ UNCHANGED bad
       ELSE /\ bad' = bad \cup {points + 1}
            /\ UNCHANGED inject

\* extra_extensions: `self.exts +=` the SNI, signature algorithm, group,
\* renegotiation and unsupported extensions, and return self.exts.  The
\* list is never reset, so every call appends one more batch.
ExtraExtensions == exts' = exts + 1

Goto(pc) == tpc' = pc

\* Leave _do_12_hs with a result or an exception; socket_ctx closes next.
Leave(o) == /\ outcome' = o
            /\ Goto("exit")

\* inject_bad's self.sock.send of the fuzzed record fails with a broken
\* pipe: the server has already closed the connection.
BrokenPipe ==
    /\ fuzz /\ inject = 0
    /\ Leave("socket.error")

\* send_recv raises TLSProtocolError on a fatal alert and wraps a
\* socket.error of sendall or recvall into one.
SendRecvFails == Leave("TLSProtocolError")

-----------------------------------------------------------------------------
(* The test calls do_12: once, twice on the same object (test_bad_sni), or *)
(* once with a fuzzer and inject = 0..3 (test_fuzzing).  The second call  *)
(* of test_bad_sni happens only when the first returned.                   *)
Call ==
    /\ \/ tpc = "idle"
       \/ tpc = "returned" /\ calls < CallsOf(scenario)
    /\ calls' = calls + 1
    /\ outcome' = "none"
    /\ flight' = "none"
    /\ Goto("estab")
    /\ UNCHANGED <<scenario, exts, sock, fuzz, inject, inject0, randint, points,
                   bad>>

\* conn_estab on an object whose self.sock is still set: the assertion
\* fails, and _do_12_hs catches only socket.error.
ConnEstabReused ==
    /\ tpc = "estab" /\ sock # "none"
    /\ Leave("AssertionError")
    /\ UNCHANGED <<scenario, exts, sock, fuzz, inject, inject0, randint, flight,
                   points, bad, calls>>

\* conn_estab: self.sock is set before connect(), whose socket.error
\* _do_12_hs turns into return False.
ConnEstab ==
    /\ tpc = "estab" /\ sock = "none"
    /\ sock' = "open"
    /\ \/ Goto("hello") /\ UNCHANGED outcome
       \/ Leave("false")
    /\ UNCHANGED <<scenario, exts, fuzz, inject, inject0, randint, flight,
                   points, bad, calls>>

\* The ClientHello is built with self.extra_extensions(); then inject_bad
\* and send_recv(ClientHello).  send_recv raises
\* TLSProtocolError on a fatal alert and on a socket error; a flight without
\* a certificate makes _do_12_hs return False.
ClientHello ==
    /\ tpc = "hello"
    /\ ExtraExtensions
    /\ InjectBad
    /\ \/ \E f \in Flights :
          /\ flight' = f
          /\ CASE f \in {"full", "certOnly"} -> Goto("warn") /\ UNCHANGED outcome
               [] f = "noCert"               -> Leave("false")
               [] f \in {"alert", "sockErr"} -> SendRecvFails
       \/ BrokenPipe /\ UNCHANGED flight
    /\ UNCHANGED <<scenario, sock, fuzz, inject0, randint, calls>>

\* send_12_alert(WARNING, RECORD_OVERFLOW): a bare sendall, whose
\* socket.error is not wrapped.
WarnAlert ==
    /\ tpc = "warn"
    /\ \/ Goto("kex") /\ UNCHANGED outcome
       \/ Leave("socket.error")
    /\ UNCHANGED <<scenario, exts, sock, fuzz, inject, inject0, randint, flight,
                   points, bad, calls>>

\* random.randint = static_rnd; get_client_kex_data(); random.randint =
\* randint_save.
Kex ==
    /\ tpc = "kex" /\ flight = "full"
    /\ randint' = "orig"
    /\ Goto("cke")
    /\ UNCHANGED <<scenario, exts, sock, fuzz, inject, inject0, flight,
                   outcome, points, bad, calls>>

\* get_client_kex_data raises without the server's key exchange: the
\* restoring assignment is skipped.
KexFail ==
    /\ tpc = "kex" /\ flight = "certOnly"
    /\ randint' = "patched"
    /\ Leave("KexError")
    /\ UNCHANGED <<scenario, exts, sock, fuzz, inject, inject0, flight,
                   points, bad, calls>>

\* inject_bad, then sendall(ClientKeyExchange, ChangeCipherSpec).
ClientKeyExchange ==
    /\ tpc = "cke"
    /\ InjectBad
    /\ \/ Goto("fin") /\ UNCHANGED outcome
       \/ Leave("socket.error")
       \/ BrokenPipe
    /\ UNCHANGED <<scenario, exts, sock, fuzz, inject0, randint, flight,
                   calls>>

\* inject_bad, then send_recv(ClientFinished); after ServerFinished the
\* method ends with `return False`.
ClientFinished ==
    /\ tpc = "fin"
    /\ InjectBad
    /\ \/ Leave("false")
       \/ SendRecvFails
       \/ BrokenPipe
    /\ UNCHANGED <<scenario, exts, sock, fuzz, inject0, randint, flight, calls>>

\* socket_ctx's finally: self.sock.close(), self.sock stays set; do_12
\* returns False (`if not self._do_12_hs(...)`) or the exception propagates.
Exit ==
    /\ tpc = "exit"
    /\ sock' = "closed"
    /\ Goto(IF outcome = "false" THEN "returned" ELSE "raised")
    /\ UNCHANGED <<scenario, exts, fuzz, inject, inject0, randint, flight,
                   outcome, points, bad, calls>>

\* The test is over.
Done ==
    /\ tpc \in {"returned", "raised"}
    /\ ~(tpc = "returned" /\ calls < CallsOf(scenario))
    /\ UNCHANGED vars

Next ==
    \/ Call \/ ConnEstabReused \/ ConnEstab \/ ClientHello \/ WarnAlert
    \/ Kex \/ KexFail \/ ClientKeyExchange \/ ClientFinished \/ Exit \/ Done

Spec == Init /\ [][Next]_vars

-----------------------------------------------------------------------------
(* Properties.                                                             *)

TypeOK ==
    /\ scenario \in Scenarios
    /\ sock \in {"none", "open", "closed"}
    /\ fuzz \in BOOLEAN
    /\ inject \in 0..MaxInject /\ inject0 \in 0..MaxInject
    /\ randint \in {"orig", "patched"}
    /\ tpc \in {"idle", "estab", "hello", "warn", "kex", "cke", "fin", "exit",
                "returned", "raised"}
    /\ flight \in Flights \cup {"none"}
    /\ outcome \in Outcomes
    /\ points \in 0..6 /\ bad \subseteq 1..6
    /\ calls \in 0..2 /\ exts \in 0..2

\* The comment of the patch: random.randint is replaced for the key
\* exchange only; after do_12, however it ends, it is the original.
RandintRestored ==
    tpc \in {"returned", "raised"} => randint = "orig"

=============================================================================
