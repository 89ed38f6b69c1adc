# TLA+ models of the tempesta-test deproxy client and test harness

This directory holds TLA+ models of the Python test harness in `src/`,
the TLC configurations that check them, and `PROJECT.json`, which maps every
model definition to the source lines it translates and lists the runs, the
mutants, the findings and the hazards.

## 1. Inventory

The repository is a test suite for the Tempesta FW reverse proxy. Its code
under `src/` falls into these parts:

| Component | Source | State | Operations | Interacts with |
|---|---|---|---|---|
| Deproxy client | `framework/deproxy_client.py` | `request`, `request_buffer`, `response_buffer`, `nr`, `last_response`, and the class-level `responses` list shared by all instances | `handle_read`, `writable`, `make_request`, `recieve_response`, `wait_for_response` | The asyncore event loop thread calls `handle_read`/`writable`/`handle_write`. The test thread calls `make_request`/`wait_for_response`. The two threads share the buffers and the `responses` list. The proxy sits at the other end of the socket. |
| Deproxy engine | `helpers/deproxy.py` (not in `src/`) | parsers, `Client.handle_write`, the deproxy server, `stateful` start/stop | `Request(...)`, `Response(buf, method)`, segmented write | Used by the client. Modelled from the spec. |
| Malformed request-line tests | `malformed/test_malformed_rqline.py` | one client and one backend per test | `common_check`: start, `make_request`, `wait_for_response`, read `last_response` and the backend's `last_request` | Sends malformed and pipelined requests through Tempesta. |
| TLS handshake client | `tls/handshake.py` `TlsHandshake` | `sock`, `inject` counter, `exts`, `cert`, `http_resp` | `conn_estab`, `send_recv`, `inject_bad`, `extra_extensions`, `_do_12_hs`, `_do_12_req`, `do_12`, `socket_ctx` | Sequential request/response with the TLS server. A fuzzer supplies bad records. It patches the global `random.randint`. |
| TLS old-version client | `tls/handshake.py` `TlsHandshakeStandard` | the socket and a dmesg warning count | `try_tls_vers`, `do_old` | Counts kernel warnings in dmesg. |
| TLS handshake tests | `tls/test_tls_handshake.py` | handshake objects, a warning counter | tests that reuse handshake objects and inject alerts and fuzzed records | Use `TlsHandshake`. |
| TLS integrity tests | `tls/test_tls_integrity.py` | deproxy clients (up to 4), MTU | `common_check`, `tcp_flow_check`, `mtu_ctx` | Use the deproxy client, `sysnet` and a sniffer. |
| Network helpers | `helpers/sysnet.py` | interface aliases, device MTU | `ip_str_to_number`, `ip_number_to_str`, `create_interface(s)`, `remove_interface(s)`, `route_dst_ip`, `get_mtu`, `change_mtu` | Run `ip` commands on a node. |
| WebSocket ping tests | `ws/test_ws_ping.py` | the backend process, the client process, Tempesta, a restart counter | `run_ws`, `ws_ping_test`, `wss_ping_test`, `handler`, `test_ping_websockets`, the stress loop with restarts | Separate processes and asyncio loops. Tempesta restarts during the stress test. |
| Access-log tests | `access_log/test_access_log_h2.py` | nginx config, a curl client, dmesg | `backends(status)`, `run_test`, `run_curl` | curl, nginx, dmesg. |
| Chunked transform tests | `msg_modification/tests_encode_to_chunked.py` | message chains | `make_body`, `make_chain`, `make_empty_body_chain` | The functional tester. |
| Config templates | `framework/templates.py` | the config key/value table | `fill_template` | `string.Template`. |
| Tempesta, nginx, asyncore, websockets | external | | | These are the environment. The models abstract the proxy as a process that answers each well-formed request and rejects a malformed one with 400 and a close. |

**What is hard here.** The deproxy client is used by two threads at once:

- The event loop thread reads and writes the socket.
- The test thread makes requests and polls for responses.

The state they share is a per-instance buffer, the `nr` snapshot, and a list
shared by every instance. Responses arrive split at arbitrary byte
boundaries, and two of them can arrive together. A wait can time out while
the answer is still on its way. The TLS client is sequential, but it has
several kinds of partial failure:

- It patches process-global state without `try/finally`.
- It closes a socket without clearing the reference to it.
- Its fuzz-injection counter keeps injecting after it reaches zero.

The WebSocket tests start processes without waiting for them to be ready,
restart Tempesta mid-run, and never check the client process's exit code.
`sysnet.change_mtu` can fail after it has already changed the device's MTU.

**Properties that make each component correct.**

- **Deproxy client:** after a successful wait, the response the test reads
  answers its latest request. How `recv` splits the stream never changes
  the outcome. A client never counts more responses than it sent requests.
  A wait always returns.
- **TLS client:** the socket is closed on every path. Global
  `random.randint` is restored. The fuzzed records go out exactly where the
  `inject` countdown puts them.
- **sysnet/MTU:** after `tcp_flow_check` the device MTU equals its initial
  value. Errors surface as `Error`.
- **WebSocket tests:** the test passes only if every ping was echoed. Restarts
  keep happening throughout the stress run.
- **Access log:** 3xx backends get a redirect target.
- **Chunked:** the expected chunked body decodes back to the original body.

## 2. Plan

Modules, most important first, and their state:

1. `DeproxyClient` (done): the deproxy client with the test thread, the event
   loop and the proxy as environment. `MCDeproxyClient` instantiates it with
   one or two clients.
2. `TlsHandshake` (done): `do_12` with `socket_ctx`, `_do_12_hs`,
   `inject_bad` and the `randint` patch, against a nondeterministic TLS
   server, with the call sequences of `test_tls_handshake.py`.
   `TlsHandshakeStandard` (done): `try_tls_vers` and `do_old`, composed
   with `TlsHandshake` in `MCTlsHandshake`.
3. `SysnetMtu` (done): `change_mtu`/`get_mtu` with failing commands, and
   `tcp_flow_check` with `mtu_ctx`. `common_check` and the interface
   helpers of `sysnet.py` are not modelled (section 4).
4. `WsPing` (done): the backend, client and Tempesta processes, with the
   stress restarts.
5. `ChunkedEncoding` (done): `make_body`, `make_chain` and
   `make_empty_body_chain` as operators, checked against the client's chunked
   decoder for all lengths below 40 and the two lengths the tests use.
6. `AccessLog`: not modelled (section 4).
7. `DeproxyExchange` (done): the abstract exchange specification (requests
   sent, the request the last response answers, the wait outcome).
   `DeproxyClient` is shown to refine it under the tests' usage.

The project keeps at most twelve TLC runs, and all twelve are in use. New
properties are therefore checked by the existing runs' cfgs.

## 3. Modules and runs

### DeproxyClient

State: one variable per attribute of the client:

- `request` (the method of `self.request`), `request_buffer`,
  `response_buffer`, `nr`, `last_response`, and `responses`. `responses` is
  a single sequence because it is a class attribute.
- `phase` is the `stateful` state.
- `error`: `handle_read` raised `ParseError`.

The test thread:

- `tpc` is its program counter.
- History variables `made`, `input` and `answered` record what it did.

The connection:

- `up` and `down` are the two byte streams.
- `closed`: the proxy closed the connection.

Bytes are tokens:

- A request byte is `[rid, m, i]`. `i = 0` is a byte that breaks the
  request line.
- A response is a header token carrying `Content-Length` and `cl` body
  tokens. A HEAD response has no body.

Actions:

- `HandleRead`: `recv` of any non-empty prefix of the stream, then buffering,
  parsing with the current method, the garbage check and
  `recieve_response` (`RecieveResponse`: append to the shared list and set
  `last_response`).
- `HandleWrite`: one `segment_size` slice.
- `MakeRequest`, `MakeRequestParse`, `MakeRequestParseError`,
  `MakeRequestBuffer`: the three statements of `make_request`, as separate
  steps of the test thread.
- `WaitStart`, `WaitDone`, `WaitTimeout`, `WaitNotStarted`: the branches of
  `wait_for_response`'s polling loop.
- `Start`, `Stop`.
- `ProxyForward`, `ProxyReject`: the environment.

The test thread follows the discipline of every test in the repository:

- It makes the next request only after a wait returned True.
- A failed wait or an exception ends the test.
- A pipelined input is the last request.

Fairness:

- Weak fairness on the event loop handlers. The loop services every ready
  socket.
- Weak fairness on the proxy. Tempesta answers every request it receives.
- Weak fairness on the rest of `make_request` and on `WaitDone`. The polling
  loop wakes every 10 ms.
- No fairness on timeouts or on what the test does next.

| Run | cfg | Expect | Shows |
|---|---|---|---|
| `deproxy_exchange` | `MCDeproxyClient.cfg` | pass | With one client, GET and HEAD, plain, malformed and pipelined inputs, two requests, writes of one byte per event: `ResponseAnswersRequest` (the response read after a True wait answers the latest request, with its own body), `ParseErrorOnlyOnPipelined` (no split of a single response raises), `ExchangeCompletes` (a wait returns even with no timeout), `ExchangeRefined` (the client implements `DeproxyExchange`). |
| `deproxy_pipelined_garbage` | `MCDeproxyClient_garbage.cfg` | violation | `NoParseError`: the 200 and 400 the proxy sends for a pipelined input, read by one `recv`, raise "Garbage after response"; read by two they are two responses. The spec requires fragmentation not to change the outcome. |
| `deproxy_shared_responses` | `MCDeproxyClient_shared.cfg` | violation | `ReceivedLeSent`: the class-level `responses` list makes one client count another client's responses. |

**Refinement.** `DeproxyExchange.tla` states what a client promises its
test, per client:

- `sent`: the requests enqueued.
- `got`: the request that the last complete response answers.
- `phase`: the `stateful` phase.
- `st`: the test's exchange, one of ready, busy, failed or done.

Its actions are:

- `Request`, only when the exchange is ready.
- `Receive`: a response to the latest request, only while started.
- `Answer`: a wait returns True once that response is there.
- `Fail`, `Start` and `Stop`.

`DeproxyClient` instantiates it with the refinement mapping:

- `sent <- made`
- `got <- last_response.rid`
- `st <- ExchangeState`, derived from `tpc` and `answered`

`ExchangeRefined == Exchange!Spec` is a PROPERTY of `deproxy_exchange`. Its
mutant lets the event loop go on servicing a stopped client. A response then
arrives after `Stop`, which the abstract spec forbids.

Bounds: `MaxRequests = 2` lets a second request follow a first one (so a stale
`nr` shows). `ReqLen = 2` with `SegmentSize = 1` makes a request take two
writes, so `writable` matters. `BodyLen = 1` makes GET and HEAD responses
differ. Two clients are enough to share the list.

### TlsHandshake

`TlsHandshake.tla` models one `TlsHandshake` object of `src/tls/handshake.py`
as the tests use it. The TLS server is the environment. Each answer it gives
is a nondeterministic choice.

State:

- `sock`: `self.sock` is `none`, `open`, or `closed` (closed but still set).
- `inject` and `fuzz`: `self.inject` and whether a fuzzer was passed.
- `randint`: the process-global `random.randint`, `orig` or `patched`.
- `tpc`: the statement of `_do_12_hs` that `do_12` is at.
- `flight`: what the server's first flight contained.
- `outcome`: what the call returns or raises.
- `exts`: how many batches `extra_extensions` has appended to `self.exts`.
  The list is never reset.
- `points`, `bad` and `inject0`: history variables. They record the
  injection points passed and where fuzzed records went out.

Actions, in the order of `_do_12_hs`:

- `Call`
- `ConnEstab` and `ConnEstabReused`. The assertion on a reused `self.sock`
  fails in `ConnEstabReused`.
- `ClientHello`: `extra_extensions` (`ExtraExtensions`), `inject_bad`, then
  `send_recv` and the checks on the first flight.
- `WarnAlert`
- `Kex` and `KexFail`: the `randint` patch around `get_client_kex_data`.
- `ClientKeyExchange`
- `ClientFinished`
- `Exit`: `socket_ctx`'s `finally`.

`InjectBad` is `inject_bad`. It is a conjunct of the three steps that call
it. `BrokenPipe` is the `socket.error` of its `send` of a fuzzed record.

`_do_12_req` is not an action. `_do_12_hs` returns `False` after
ServerFinished, so `do_12` never reaches it. `test_alert` calls it directly,
but only after `assertTrue(tls_conn._do_12_hs())`, which fails first.

Scenarios (`CallsOf`, `InjectValues`) are the tests' call sequences:

- one call per object;
- two calls on one object (`test_bad_sni`);
- one call per `inject` in `0..3` with a fuzzer (`test_fuzzing`).

### TlsHandshakeStandard

`TlsHandshakeStandard.tla` models `do_old` and `try_tls_vers`. Its names
carry an `Old` prefix, because `MCTlsHandshake` extends it together with
`TlsHandshake`.

State:

- `opc`: the statement the call is at.
- `ver`: the version being tried, TLS 1.0 then TLS 1.1.
- `socks`: sockets created and not yet closed.
- `warns`: the dmesg count taken before the handshake.
- `dmesg`: Tempesta's `TLS_HS_WARN` lines.
- `oresult`: what `do_old` returns or raises.
- `seen`: history of what happened to each version.

Actions:

- `DoOld`
- `TrySocket`: `socket()` and the warning count.
- `TryConnect`: connects, or raises `socket.error`.
- `TryWrap`: the handshake is refused, with or without Tempesta's warning;
  then the socket is closed and the result is whether exactly one warning
  was added. Or the handshake completes.
- `TrySend`: the request is sent and the response classified, or a
  `socket.error` is raised.
- `TryReturns`: the loop of `do_old`.

The refusal without a warning is the local OpenSSL refusing an old protocol
itself.

`MCTlsHandshake.TestsSpec` interleaves the two objects. They share no state.

### SysnetMtu

`SysnetMtu.tla` models `tcp_flow_check` and `mtu_ctx` of
`test_tls_integrity.py`, with `get_mtu`/`change_mtu` of `sysnet.py`.

- `tpc` and `cpc` are the program counters of the test and of
  `change_mtu`.
- `exc` is the exception propagating.
- `prev_mtu` and `cm_prev` are the two `prev_mtu` locals.
- `mtu` is the device's MTU.
- `mtu0`, `cm_entry` and `failed` are history.

Every `ip` command is a step that succeeds or raises. `ip link set` may also
exit 0 without effect. The request, the response and the sniffer check
inside `mtu_ctx` are one step (`Body`) that passes or fails its assertions.
The `finally` is the restoring `change_mtu` that `Body` calls.

### WsPing

`WsPing.tla` models `test_ping_websockets` of `Ws_ping`, `Wss_ping` and
`Wss_stress`. There are four actors:

- **The test process:** `StartBackendProcess`, `StartTempesta`,
  `StartClientProcess`, `Join`. In the Wss tests `Join` also runs
  `remove_certs` (`RemoveCerts`). `Ws_ping` never does.
- **The backend process `p1`:** `GenCert`, `BackendListen`.
- **The client process `p2`:** `LoadVerify`, `Iterate`, `Connect`, `Ping`,
  `ClientExit`. `LoadVerify` is `load_verify_locations("/tmp/cert.pem")` of
  the Wss tests, and `Wss_stress`'s first `next_restart` draw. `Iterate`
  includes `Wss_stress`'s restart bookkeeping: `count`,
  `next_restart = randint(0, int(n/4))`, and the Tempesta restart
  (`Restart`). The restart reloads `/tmp/cert.pem` and drops the backend
  connection.
- **Tempesta**, as environment: `TempestaUp` (a started Tempesta finishes
  coming up) and `TempestaConnect`.

`StartTempesta` leaves Tempesta `starting`. The test then spins in
`while not is_running(): pass` (`SpinRunning`, a step that changes nothing)
until `TempestaUp`, and only then starts `p2` (`StartClientProcess`).

A ping's connect is one step. In a Wss test the TLS handshake checks
Tempesta's certificate against the one `p2` trusts (`Verified`). The
upgrade then succeeds only through a Tempesta connected to the backend.
Either failure makes `p2` die.

`/tmp/cert.pem` is shared by the processes and by consecutive tests. `cert`
is its current generation:

- `none`;
- `old`: left by an earlier `Ws_ping`, which never removes it, and the test
  that runs right after it in unittest's order is `Wss_ping`;
- `new`: written by this test's `gen_cert`.

`served` is the certificate Tempesta loaded at its last start or restart.
`trusted` is the one `p2` loaded. Tempesta starts on an `old` file before
`p1` replaces it, so a Wss test can end in two ways. Either `p2` trusts the
new certificate, fails verification and dies while the test passes. Or `p2`
read the file first, and the test passes having verified the previous
test's certificate. No property of a passing run states which certificate a
passing `p2` verified: `p2`'s exit code is never read (the finding of
`ws_exit_code_ignored`), so the test's outcome is the same either way.

### ChunkedEncoding

`ChunkedEncoding.tla` gives the builders of `tests_encode_to_chunked.py` as
operators:

- `make_body`
- `Hex`, the `"%X"` conversion, RECURSIVE
- `CrlfJoin`
- `ChunkedBody`
- `MakeChain`
- `MakeEmptyBodyChain`

Header operations and `chains.base()` are modelled from the spec
(`DeleteAll`, `AddHeader`, `BaseResponse`), because that code is not under
`src/`.

The reference is the client's parser, `ParseResponse` with `Dechunk` and
`NumberOf`, written from the spec's framing rules:

- Transfer-Encoding chunked is read first.
- Then Content-Length.
- Otherwise the message is delimited by the connection close.

A test is three steps: `MakeBodyStep`, `MakeChainStep` (or
`MakeEmptyBodyChainStep`), then `Receive`. In `Receive` the client parses
the expected response.

### Runs

| Run | cfg | Expect | Shows |
|---|---|---|---|
| `tls_handshake` | `MCTlsHandshake.cfg` | pass | Every server answer and every test call sequence, composed with `try_tls_vers`/`do_old`. `OldTrueMeansRefused`: `do_old` returns True only if each old version was refused with Tempesta's warning or answered without a 200. `OldSocketsClosedOnReturn`: every socket is closed when `do_old` returns. |
| `tls_randint_leak` | `MCTlsHandshake_randint.cfg` | violation | `RandintRestored`. A first flight without ServerKeyExchange (for example one cut short by `recvall`'s timeout) makes `get_client_kex_data` raise while `random.randint` is still `static_rnd`. It stays patched for the rest of the test process. |
| `mtu_flow` | `MCSysnetMtu.cfg` | pass | `RestoredWhenCommandsWork`: when the `ip` commands work, the MTU is restored whether the test body passes or fails. `ChangeMtuContract`: a `change_mtu` that returns has set its MTU and returns the one from before. |
| `mtu_not_restored` | `MCSysnetMtu_restore.cfg` | violation | `MtuRestored`. `change_mtu` raises after `ip link set` took effect, so `prev_mtu` is never assigned and the device stays at 1500. |
| `mtu_nameerror` | `MCSysnetMtu_nameerror.cfg` | violation | `FailuresRaiseError`. The error paths of `get_mtu`/`change_mtu` format the undefined name `ip` and raise `NameError`, which `tcp_flow_check` does not turn into a test failure. |
| `ws_ping` | `MCWsPing.cfg` | pass | `ExitOkMeansAllEchoed`: over every interleaving of the four actors, with and without restarts and with a fresh or stale `/tmp/cert.pem`, `p2` exits 0 only after all `n` pings were echoed. `TestEnds`: under the processes' fairness the test always ends, through the busy wait on `is_running()` and `p2.join()`, neither of which has a timeout. |
| `ws_exit_code_ignored` | `MCWsPing_exitcode.cfg` | violation | `PassMeansAllEchoed`. `p2` dies on a 502 (the backend is not yet connected, or Tempesta was just restarted) and the test still passes, because `p2.exitcode` is never read. |
| `ws_restart_stops` | `MCWsPing_restart.cfg` | violation | `RestartsRecur`. `randint(0, int(n/4))` can draw 0. `count` is at least 1 when compared with it, so the stress test never restarts Tempesta again. |
| `chunked_round_trip` | `MCChunkedEncoding.cfg` | pass | For lengths 0..39, 40 and 131072: `RoundTrip` (the expected response decodes, by the framing it declares, to the backend's body). |

Every property of a passing run is paired with a mutant in `PROJECT.json`:
a plausible bug in the mapped code that TLC shows violates it. The mutants
are:

- `inject >= 0` in `inject_bad`;
- the MTU read in `get_mtu` dropped;
- `mtu_ctx` without `finally`;
- `change_mtu` returning the new MTU;
- `p2`'s loop unbounded, and `p2`'s loop one iteration short;
- the chunk size written with `"%d"`;
- a misspelt header name;
- the event loop servicing a stopped client;
- `do_old`'s loop running past TLS 1.1;
- the warning check written as `>=`;
- a refused handshake's socket left open;
- a Tempesta start that fails on the missing certificate without raising.

### Bounds

**TlsHandshake.** `MaxInject = 3` is `xrange(4)` of `test_fuzzing`. A
handshake has three injection points, so `inject` runs from all records
fuzzed to none.

**SysnetMtu.** The MTUs are 576, 1500 and 9000. They give a device already
at 1500 and devices above and below it.

**WsPing.** `N = 8` gives `int(n/4) = 2`. The stress variant therefore meets
a restart interval of 0 (the finding), 1 and 2, and several restarts within
one run. `cert` starts as `none` or `old`. The three tests are all
variants of one run, so each test runs from a fresh and from a stale
certificate file.

**ChunkedEncoding.** Lengths 0..39 give one- and two-digit chunk sizes and
the empty-body branch. 40 and 131072 (hex `20000`) are the tests' own
lengths.

**TlsHandshakeStandard.** Two versions, as `do_old` tries. The dmesg
count starts at 0, so each refusal adds its warning and the two versions
together reach 2 warnings.

### Fairness

`TlsHandshake`, `TlsHandshakeStandard`, `SysnetMtu` and `ChunkedEncoding`
check safety only, so they assume no fairness. Each ends in a `Done` step
that stutters, so a finished test is not a deadlock.

`WsPing` checks `TestEnds`, so its `Fairness` has one weak-fairness conjunct
per actor: the test process, `p1` and `p2` are processes the kernel
schedules, and a started Tempesta comes up and connects to a listening
backend. `SpinRunning` has no fairness, because it changes nothing. Under
this fairness a Tempesta that never comes up is the only way to hang the
test. The mutant `StartTempestaNoRaise` shows this: a start that fails
without raising leaves the test spinning forever.

## 4. Not modelled

- `Wss_ping_with_nginx` is not modelled. It is `Wss_ping` with an nginx
  backend started inside `p1`, and it adds no control of its own.
- Tempesta, nginx, curl and the kernel are the environment. They are
  modelled only as the proxy's answers.
- The deproxy server and its request parser are not in `src/`.
- Logging, printing and the TLS record layer are left out.
- The access-log tests and `common_check` of the integrity tests are not
  modelled. Their hazards are listed in `PROJECT.json` with notes. In the
  access-log tests each test is one `curl` call against nginx, followed by
  a check of the log line. Nothing there interleaves, and the one
  disagreement, `status_code / 100 != 3` at line 59 under Python 3's true
  division, would need a violation run of its own.
- The interface helpers of `sysnet.py` (`create_interface(s)`,
  `remove_interface(s)`, the address conversions) are not modelled. Nothing
  under `src/` calls them. `tf_cfg` is never imported, so the `tf_cfg.dbg`
  inside their `try` raises `NameError`. The bare `except` calls `tf_cfg.dbg`
  again and raises once more, so every call raises before any `ip` command
  runs. There is nothing for a model checker to explore.
- `TlsHandshakeStandard` leaves a socket open when `connect` or `send`
  raises. No run states this, because the exception fails the test anyway.
- Kernel warnings from sources other than Tempesta's handshake code are not
  modelled. Such a warning would change `do_old`'s count.
- `templates.fill_template` is a single `string.Template` substitution. It
  has no state.
- `_do_12_req` and `test_alert`'s direct calls to it are not modelled. No
  path reaches them, because `_do_12_hs` always returns `False` (see
  TlsHandshake above).
- `x509_check_cn`/`x509_check_issuer` are not modelled. They are suffix
  matches on certificate fields of scapy's ASN.1 objects and have no state.
- `test_fuzzing` catches only `socket.error`. A fatal alert from the server
  raises `TLSProtocolError` and fails the test. `TlsHandshake` reaches this
  state, but no run states it as a property.
- The proxy closing the connection is not delivered to the client as an EOF.
- `inject_bad`'s docstring says it injects "a bad record after
  @self.inject normal records", which reads as one record. The code sends
  a fuzzed record at that point and at every later one, since `inject`
  stays 0. `InjectBad` models what the code does (`bad` records where
  fuzzed records went out), but no run states the docstring's reading as
  a violated property; that would need a violation run of its own.
