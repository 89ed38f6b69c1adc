-------------------------- MODULE MCDeproxyClient --------------------------
(* Model-checking instance of DeproxyClient.                               *)
EXTENDS DeproxyClient

CONSTANTS c1, c2

\* One client, as in every test of tls/ and malformed/.
OneClient == {c1}

\* Two clients of one test, as in tls/test_tls_integrity.py Cache.
TwoClients == {c1, c2}

=============================================================================
