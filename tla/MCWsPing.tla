------------------------------ MODULE MCWsPing -------------------------------
(* WsPing with Ws_ping, Wss_ping and Wss_stress.                          *)
EXTENDS WsPing

AllTests == {"ws", "wss", "stress"}

StressTest == {"stress"}

=============================================================================
