--------------------------- MODULE MCTlsHandshake ---------------------------
(* The two handshake classes of src/tls/handshake.py with the tests of     *)
(* test_tls_handshake.py: TlsHandshake with the call sequences of its      *)
(* tests, and TlsHandshakeStandard with test_old_handshakes.  The two      *)
(* objects share no state, so TestsSpec interleaves their steps.           *)
EXTENDS TlsHandshake, TlsHandshakeStandard

\* test_tls12_synthetic & co., test_bad_sni, test_fuzzing.
AllTests == {"single", "twice", "fuzz"}

\* test_fuzzing alone.
FuzzTest == {"fuzz"}

\* test_bad_sni alone.
ReuseTest == {"twice"}

all_vars == <<vars, old_vars>>

\* Both objects start as their constructors leave them.
TestsInit == Init /\ OldInit

TestsSpec ==
    /\ TestsInit
    /\ [][\/ Next /\ UNCHANGED old_vars
          \/ OldNext /\ UNCHANGED vars]_all_vars

=============================================================================
