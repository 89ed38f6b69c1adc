------------------------- MODULE TlsHandshakeStandard -------------------------
(***************************************************************************)
(* TlsHandshakeStandard of src/tls/handshake.py as test_old_handshakes     *)
(* uses it: do_old tries a TLS 1.0 and then a TLS 1.1 handshake with the  *)
(* OpenSSL client and counts Tempesta's TLS_HS_WARN warnings in dmesg.     *)
(* Tempesta is the environment: for each version it refuses the handshake *)
(* (logging the warning before it answers), or the handshake completes and *)
(* it answers the HTTP request with or without "HTTP/1.1 200".  The local *)
(* OpenSSL may also refuse the old version itself, without any warning.   *)
(***************************************************************************)
EXTENDS Naturals

\* (ssl.PROTOCOL_TLSv1, ssl.PROTOCOL_TLSv1_1), tried in this order.
OldVersions == 1..2

\* What happened to the handshake of one version.
OldOutcomes == {"none", "warned", "silent", "good", "other"}

VARIABLES
    opc,            \* where do_old/try_tls_vers is
    ver,            \* the version being tried
    socks,          \* sockets created and not closed
    warns,          \* try_tls_vers's warns
    dmesg,          \* TLS_HS_WARN lines in the kernel log
    oresult,        \* what do_old returns or raises
    seen            \* what happened to each version (history)

old_vars == <<opc, ver, socks, warns, dmesg, oresult, seen>>

OldInit ==
    /\ opc = "idle"
    /\ ver = 1
    /\ socks = 0
    /\ warns = 0
    /\ dmesg = 0
    /\ oresult = "none"
    /\ seen = [v \in OldVersions |-> "none"]

\* Mutation: the loop runs past the last version.
TryReturnsPastLast(ok) ==
    CASE ~ok           -> oresult' = "false" /\ opc' = "returned" /\ UNCHANGED ver
      [] ver = 3       -> oresult' = "true" /\ opc' = "returned" /\ UNCHANGED ver
      [] OTHER         -> ver' = ver + 1 /\ opc' = "socket" /\ UNCHANGED oresult

\* do_old goes on with the next version when try_tls_vers returned ok.
TryReturns(ok) ==
    CASE ~ok           -> oresult' = "false" /\ opc' = "returned" /\ UNCHANGED ver
      [] ver = 2       -> oresult' = "true" /\ opc' = "returned" /\ UNCHANGED ver
      [] OTHER         -> ver' = ver + 1 /\ opc' = "socket" /\ UNCHANGED oresult

\* do_old's loop begins.
DoOld ==
    /\ opc = "idle"
    /\ opc' = "socket"
    /\ UNCHANGED <<ver, socks, warns, dmesg, oresult, seen>>

\* socket(); settimeout(); warns = dmesg.count_warnings(TLS_HS_WARN)
TrySocket ==
    /\ opc = "socket"
    /\ socks' = socks + 1
    /\ warns' = dmesg
    /\ opc' = "connect"
    /\ UNCHANGED <<ver, dmesg, oresult, seen>>

\* sock.connect(): a socket.error is not caught and leaves do_old.
TryConnect ==
    /\ opc = "connect"
    /\ \/ opc' = "wrap" /\ UNCHANGED oresult
       \/ opc' = "raised" /\ oresult' = "socket.error"
    /\ UNCHANGED <<ver, socks, warns, dmesg, seen>>

\* Mutation: the warning check is `>= warns`.
TryWrapGe ==
    /\ opc = "wrap"
    /\ \/ \E o \in {"warned", "silent"} :
            LET d == IF o = "warned" THEN dmesg + 1 ELSE dmesg
            IN /\ dmesg' = d /\ socks' = socks - 1
               /\ seen' = [seen EXCEPT ![ver] = o]
               /\ TryReturns(d >= warns)
       \/ opc' = "send" /\ UNCHANGED <<ver, socks, dmesg, oresult, seen>>
    /\ UNCHANGED warns

\* Mutation: the socket is not closed when the handshake is refused.
TryWrapNoClose ==
    /\ opc = "wrap"
    /\ \/ \E o \in {"warned", "silent"} :
            LET d == IF o = "warned" THEN dmesg + 1 ELSE dmesg
            IN /\ dmesg' = d /\ UNCHANGED socks
               /\ seen' = [seen EXCEPT ![ver] = o]
               /\ TryReturns(d = warns + 1)
       \/ opc' = "send" /\ UNCHANGED <<ver, socks, dmesg, oresult, seen>>
    /\ UNCHANGED warns

\* ssl.wrap_socket(): the handshake is refused (IOError) with or without
\* Tempesta's warning; then sock.close() and the result is whether exactly
\* one warning was added.  Or the handshake completes.
TryWrap ==
    /\ opc = "wrap"
    /\ \/ \E o \in {"warned", "silent"} :
            LET d == IF o = "warned" THEN dmesg + 1 ELSE dmesg
            IN /\ dmesg' = d /\ socks' = socks - 1
               /\ seen' = [seen EXCEPT ![ver] = o]
               /\ TryReturns(d = warns + 1)
       \/ opc' = "send" /\ UNCHANGED <<ver, socks, dmesg, oresult, seen>>
    /\ UNCHANGED warns

\* tls_sock.send(request); recv(100); tls_sock.close(): a response that is
\* "HTTP/1.1 200" makes try_tls_vers return False, any other True.  A send
\* or recv failure (recv times out after rto) is not caught.
TrySend ==
    /\ opc = "send"
    /\ \/ \E o \in {"good", "other"} :
            /\ socks' = socks - 1
            /\ seen' = [seen EXCEPT ![ver] = o]
            /\ TryReturns(o # "good")
       \/ opc' = "raised" /\ oresult' = "socket.error"
          /\ UNCHANGED <<ver, socks, seen>>
    /\ UNCHANGED <<warns, dmesg>>

OldDone ==
    /\ opc \in {"returned", "raised"}
    /\ UNCHANGED old_vars

OldNext == DoOld \/ TrySocket \/ TryConnect \/ TryWrap \/ TrySend \/ OldDone

OldSpec == OldInit /\ [][OldNext]_old_vars

-----------------------------------------------------------------------------
(* Properties.                                                             *)

OldTypeOK ==
    /\ opc \in {"idle", "socket", "connect", "wrap", "send", "returned", "raised"}
    /\ ver \in OldVersions
    /\ socks \in 0..1 /\ warns \in 0..2 /\ dmesg \in 0..2
    /\ oresult \in {"none", "true", "false", "socket.error"}
    /\ seen \in [OldVersions -> OldOutcomes]

\* do_old returns True only if each old version was refused by Tempesta
\* with its warning, or completed without a 200 answer: a refusal the
\* local OpenSSL made without Tempesta's warning, or a 200, makes the
\* test fail.
OldTrueMeansRefused ==
    oresult = "true" => \A v \in OldVersions : seen[v] \in {"warned", "other"}

\* When do_old returns, every socket try_tls_vers created is closed.
OldSocketsClosedOnReturn ==
    opc = "returned" => socks = 0

=============================================================================
