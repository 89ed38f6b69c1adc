------------------------------- MODULE WsPing --------------------------------
(***************************************************************************)
(* test_ping_websockets of src/ws/test_ws_ping.py (Ws_ping, Wss_ping and   *)
(* Wss_stress): the test process starts the backend process p1 (run_ws),  *)
(* Tempesta, and the client process p2 (run_test -> ws_ping_test), joins  *)
(* p2 and terminates p1.  Tempesta is the environment: it proxies a        *)
(* WebSocket upgrade to the backend once it has connected to it, and       *)
(* answers 502 before that.  Each ping is its own connection: connect,     *)
(* send, recv of the echo from handler.                                    *)
(*                                                                         *)
(* /tmp/cert.pem is state of the host, shared by the three processes and   *)
(* by consecutive tests: Ws_ping never calls remove_certs, so a test can   *)
(* start with the certificate an earlier test generated ("old"), which     *)
(* gen_cert in p1 replaces with this test's one ("new").  Tempesta loads   *)
(* the file when it starts or restarts; p2 of the Wss tests loads it as    *)
(* its only trust anchor.                                                  *)
(***************************************************************************)
EXTENDS Naturals

CONSTANTS
    Variants,       \* "ws" (Ws_ping), "wss" (Wss_ping), "stress" (Wss_stress)
    N               \* the n of run_test: pings made by the client

ASSUME Variants \subseteq {"ws", "wss", "stress"} /\ Variants # {} /\ N \in Nat \ {0}

\* int(n/4): the largest interval between two restarts of Wss_stress.
RestartMax == N \div 4

VARIABLES
    variant,        \* the test class being run
    tpc,            \* where the test process is
    cert,           \* /tmp/cert.pem: "none", "old" (an earlier test's), "new"
    backend,        \* p1: "none", "starting", "certified", "listening",
                    \* "terminated"
    tempesta,       \* "stopped", "starting", "running"
    served,         \* the certificate Tempesta loaded at its last (re)start
    trusted,        \* the certificate p2 loaded with load_verify_locations
    srvconn,        \* Tempesta has connected to the backend
    p2,             \* "none", "running", "ok", "failed", "terminated"
    cpc,            \* where p2's loop is: "load", "iter", "connect", "ping"
    iters,          \* iterations of p2's loop begun
    echoed,         \* pings whose echo p2 received
    count,          \* Wss_stress: count
    next_restart    \* Wss_stress: next_restart

vars == <<variant, tpc, cert, backend, tempesta, served, trusted, srvconn, p2,
          cpc, iters, echoed, count, next_restart>>

Init ==
    /\ variant \in Variants
    /\ tpc = "start_p1"
    /\ cert \in {"none", "old"}
    /\ backend = "none"
    /\ tempesta = "stopped"
    /\ served = "none" /\ trusted = "none"
    /\ srvconn = FALSE
    /\ p2 = "none"
    /\ cpc = "iter"
    /\ iters = 0
    /\ echoed = 0
    /\ count = 0
    /\ next_restart = 0

client_vars == <<cpc, iters, echoed, count, next_restart, trusted>>

\* The p2 of a Wss test speaks TLS and verifies Tempesta's certificate.
TLS == variant \in {"wss", "stress"}

-----------------------------------------------------------------------------------------------------------------------------------------------------
(* The test process.                                                       *)

\* p1.start()
StartBackendProcess ==
    /\ tpc = "start_p1"
    /\ backend' = "starting"
    /\ tpc' = "start_tempesta"
    /\ UNCHANGED <<variant, cert, tempesta, served, srvconn, p2, client_vars>>

\* Mutation: a Tempesta that fails to load its certificate is not reported.
StartTempestaNoRaise ==
    /\ tpc = "start_tempesta"
    /\ IF cert # "none" THEN tempesta' = "starting" /\ served' = cert
                        ELSE UNCHANGED <<tempesta, served>>
    /\ tpc' = "wait_running"
    /\ UNCHANGED <<variant, cert, backend, srvconn, p2, client_vars>>

\* self.get_tempesta().start(): Tempesta loads tls_certificate /tmp/cert.pem,
\* whichever test wrote it, and fails to start (the framework raises) when
\* there is none; otherwise start() returns while Tempesta is still coming up.
StartTempesta ==
    /\ tpc = "start_tempesta"
    /\ IF cert # "none"
       THEN tempesta' = "starting" /\ served' = cert /\ tpc' = "wait_running"
       ELSE tpc' = "error" /\ UNCHANGED <<tempesta, served>>
    /\ UNCHANGED <<variant, cert, backend, srvconn, p2, client_vars>>

\* while not self.get_tempesta().is_running(): pass
SpinRunning ==
    /\ tpc = "wait_running" /\ tempesta # "running"
    /\ UNCHANGED vars

\* p2.start(), once the busy wait saw Tempesta running.
StartClientProcess ==
    /\ tpc = "wait_running" /\ tempesta = "running"
    /\ p2' = "running"
    /\ cpc' = IF TLS THEN "load" ELSE "iter"
    /\ tpc' = "join"
    /\ UNCHANGED <<variant, cert, backend, tempesta, served, srvconn, iters,
                   echoed, count, next_restart, trusted>>

\* remove_certs(['/tmp/cert.pem', '/tmp/key.pem'])
RemoveCerts == cert' = "none"

\* p2.join() returns when p2 has exited, whatever its exit code; then
\* p1.terminate(), and the Wss tests remove the certificate files (Ws_ping
\* calls p2.terminate() instead and leaves them).
Join ==
    /\ tpc = "join" /\ p2 \in {"ok", "failed"}
    /\ backend' = "terminated"
    /\ IF TLS THEN RemoveCerts ELSE UNCHANGED cert
    /\ tpc' = "done"
    /\ UNCHANGED <<variant, tempesta, served, srvconn, p2, client_vars>>

-----------------------------------------------------------------------------
(* p1: run_ws.  gen_cert writes this test's certificate over any earlier   *)
(* one, then the servers are bound when loop.run_forever() runs.           *)

GenCert ==
    /\ backend = "starting"
    /\ cert' = "new"
    /\ backend' = "certified"
    /\ UNCHANGED <<variant, tpc, tempesta, served, srvconn, p2, client_vars>>

BackendListen ==
    /\ backend = "certified"
    /\ backend' = "listening"
    /\ UNCHANGED <<variant, tpc, cert, tempesta, served, srvconn, p2,
                   client_vars>>

\* Tempesta finishes starting.
TempestaUp ==
    /\ tempesta = "starting"
    /\ tempesta' = "running"
    /\ UNCHANGED <<variant, tpc, cert, backend, served, srvconn, p2,
                   client_vars>>

\* Tempesta connects to the backend server once it listens.
TempestaConnect ==
    /\ tempesta = "running" /\ backend = "listening" /\ ~srvconn
    /\ srvconn' = TRUE
    /\ UNCHANGED <<variant, tpc, cert, backend, tempesta, served, p2,
                   client_vars>>

-----------------------------------------------------------------------------
(* p2: asyncio.run(ws_ping_test(port, n)) or wss_ping_test; an exception    *)
(* ends the process with a non-zero exit code.                             *)

\* wss_ping_test: ssl_context.load_verify_locations("/tmp/cert.pem") makes
\* the file's current certificate the only trusted one; Wss_stress then
\* draws the first next_restart.
LoadVerify ==
    /\ p2 = "running" /\ cpc = "load"
    /\ trusted' = cert
    /\ cpc' = "iter"
    /\ IF variant = "stress" THEN next_restart' \in 0..RestartMax
                             ELSE UNCHANGED next_restart
    /\ UNCHANGED <<variant, tpc, cert, backend, tempesta, served, srvconn, p2,
                   iters, echoed, count>>

\* Wss_stress: self.get_tempesta().restart() reloads /tmp/cert.pem and
\* drops Tempesta's connection to the backend.
Restart ==
    /\ served' = cert
    /\ srvconn' = FALSE

\* Mutation: the loop has no bound.
IterateNoBound ==
    /\ p2 = "running" /\ cpc = "iter"
    /\ iters' = iters + 1
    /\ cpc' = "connect"
    /\ IF variant = "stress" /\ count + 1 = next_restart
       THEN count' = 0 /\ next_restart' \in 0..RestartMax /\ Restart
       ELSE /\ count' = IF variant = "stress" THEN count + 1 ELSE count
            /\ UNCHANGED <<next_restart, served, srvconn>>
    /\ UNCHANGED <<variant, tpc, cert, backend, tempesta, p2, echoed, trusted>>

\* Top of `for _ in range(n)`.  Wss_stress counts the iteration and, when
\* count reaches next_restart, resets it, draws the next interval and
\* restarts Tempesta.
Iterate ==
    /\ p2 = "running" /\ cpc = "iter" /\ iters < N
    /\ iters' = iters + 1
    /\ cpc' = "connect"
    /\ IF variant = "stress" /\ count + 1 = next_restart
       THEN count' = 0 /\ next_restart' \in 0..RestartMax /\ Restart
       ELSE /\ count' = IF variant = "stress" THEN count + 1 ELSE count
            /\ UNCHANGED <<next_restart, served, srvconn>>
    /\ UNCHANGED <<variant, tpc, cert, backend, tempesta, p2, echoed, trusted>>

\* The TLS handshake of a Wss ping verifies the certificate Tempesta serves
\* against the one p2 trusts.
Verified == ~TLS \/ served = trusted

\* websockets.connect: a failed certificate verification raises, and so
\* does the 502 of a Tempesta not connected to the backend; either ends p2
\* with an error.  Otherwise the upgrade succeeds.
Connect ==
    /\ p2 = "running" /\ cpc = "connect"
    /\ IF srvconn /\ Verified THEN cpc' = "ping" /\ UNCHANGED p2
                              ELSE p2' = "failed" /\ UNCHANGED cpc
    /\ UNCHANGED <<variant, tpc, cert, backend, tempesta, served, srvconn,
                   iters, echoed, count, next_restart, trusted>>

\* send(ping_message); recv(): handler echoes the message.
Ping ==
    /\ p2 = "running" /\ cpc = "ping"
    /\ echoed' = echoed + 1
    /\ cpc' = "iter"
    /\ UNCHANGED <<variant, tpc, cert, backend, tempesta, served, srvconn, p2,
                   iters, count, next_restart, trusted>>

\* Mutation: the loop ends one iteration early.
ClientExitEarly ==
    /\ p2 = "running" /\ cpc = "iter" /\ iters >= N - 1
    /\ p2' = "ok"
    /\ UNCHANGED <<variant, tpc, cert, backend, tempesta, served, srvconn,
                   client_vars>>

\* The loop is over: asyncio.run returns and p2 exits with code 0.
ClientExit ==
    /\ p2 = "running" /\ cpc = "iter" /\ iters = N
    /\ p2' = "ok"
    /\ UNCHANGED <<variant, tpc, cert, backend, tempesta, served, srvconn,
                   client_vars>>

\* The test is over (passed, or errored at Tempesta's start).
Done ==
    /\ tpc \in {"done", "error"}
    /\ UNCHANGED vars

Next ==
    \/ StartBackendProcess \/ StartTempesta \/ SpinRunning
    \/ StartClientProcess \/ Join
    \/ GenCert \/ BackendListen \/ TempestaUp \/ TempestaConnect
    \/ LoadVerify \/ Iterate \/ Connect \/ Ping \/ ClientExit \/ Done

\* The test process, p1 and p2 are processes the kernel schedules, and a
\* started Tempesta comes up and connects to a listening backend: none of
\* them stops forever while it can go on.  The spin of the busy wait gets
\* no fairness: it changes nothing.
Fairness ==
    /\ WF_vars(StartBackendProcess \/ StartTempesta \/ StartClientProcess \/ Join)
    /\ WF_vars(GenCert \/ BackendListen)
    /\ WF_vars(LoadVerify \/ Iterate \/ Connect \/ Ping \/ ClientExit)
    /\ WF_vars(TempestaUp) /\ WF_vars(TempestaConnect)

Spec == Init /\ [][Next]_vars /\ Fairness

-----------------------------------------------------------------------------
(* Properties.                                                             *)

TypeOK ==
    /\ variant \in Variants
    /\ tpc \in {"start_p1", "start_tempesta", "wait_running", "join", "done",
                "error"}
    /\ {cert, served, trusted} \subseteq {"none", "old", "new"}
    /\ srvconn \in BOOLEAN
    /\ backend \in {"none", "starting", "certified", "listening", "terminated"}
    /\ tempesta \in {"stopped", "starting", "running"}
    /\ p2 \in {"none", "running", "ok", "failed"}
    /\ cpc \in {"load", "iter", "connect", "ping"}
    /\ iters \in 0..N /\ echoed \in 0..iters
    /\ count \in 0..N /\ next_restart \in 0..RestartMax

\* p2 exits with code 0 only after every one of its n pings was echoed.
ExitOkMeansAllEchoed ==
    p2 = "ok" => echoed = N

\* test_ping_websockets returns: the busy wait for Tempesta and p2.join(),
\* neither of which has a timeout, both end, whether the pings succeed, a
\* ping fails on a 502, or Tempesta's start fails.
TestEnds ==
    <>(tpc \in {"done", "error"})

\* The test reports success only when every ping was echoed (the purpose of
\* test_ping_websockets).
PassMeansAllEchoed ==
    tpc = "done" => echoed = N

\* Wss_stress restarts Tempesta at most int(n/4) pings apart: count never
\* exceeds the largest interval.
RestartsRecur ==
    variant = "stress" => count <= RestartMax

=============================================================================
