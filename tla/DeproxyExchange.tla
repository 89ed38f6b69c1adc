--------------------------- MODULE DeproxyExchange ---------------------------
(***************************************************************************)
(* What a deproxy client promises the test that uses it, as the spec's     *)
(* connection state tracker states it: per client, the requests sent, the *)
(* request the last complete response answers, the phase, and where the   *)
(* test's exchange is.  A response is recorded only while the client is   *)
(* started, and always answers the latest request; a wait returns True    *)
(* only once that response is there.                                      *)
(***************************************************************************)
EXTENDS Naturals

CONSTANTS
    Clients,        \* the clients of one test
    MaxRequests     \* bound on the requests a client sends

VARIABLES
    phase,          \* "init", "started", "stopped"
    sent,           \* sent_count: requests enqueued
    got,            \* the request the last complete response answers, 0 if none
    st              \* the test's exchange: "ready", "busy", "failed", "done"

vars == <<phase, sent, got, st>>

Init ==
    /\ phase = [c \in Clients |-> "init"]
    /\ sent = [c \in Clients |-> 0]
    /\ got = [c \in Clients |-> 0]
    /\ st = [c \in Clients |-> "ready"]

Start(c) ==
    /\ phase[c] = "init"
    /\ phase' = [phase EXCEPT ![c] = "started"]
    /\ UNCHANGED <<sent, got, st>>

\* The test enqueues a request once its previous exchange is over.
Request(c) ==
    /\ st[c] = "ready" /\ sent[c] < MaxRequests
    /\ sent' = [sent EXCEPT ![c] = @ + 1]
    /\ st' = [st EXCEPT ![c] = "busy"]
    /\ UNCHANGED <<phase, got>>

\* A complete response, to the latest request, is recorded.
Receive(c) ==
    /\ phase[c] = "started" /\ sent[c] > 0
    /\ got' = [got EXCEPT ![c] = sent[c]]
    /\ UNCHANGED <<phase, sent, st>>

\* waitForResponse returns True: the latest request has its response.
Answer(c) ==
    /\ st[c] = "busy" /\ got[c] = sent[c]
    /\ st' = [st EXCEPT ![c] = "ready"]
    /\ UNCHANGED <<phase, sent, got>>

\* The exchange fails: a timeout, a wait on a client not started, or a
\* request the client cannot build.
Fail(c) ==
    /\ st[c] = "busy"
    /\ st' = [st EXCEPT ![c] = "failed"]
    /\ UNCHANGED <<phase, sent, got>>

Stop(c) ==
    /\ st[c] # "done"
    /\ phase' = [phase EXCEPT ![c] = "stopped"]
    /\ st' = [st EXCEPT ![c] = "done"]
    /\ UNCHANGED <<sent, got>>

Next ==
    \E c \in Clients :
        Start(c) \/ Request(c) \/ Receive(c) \/ Answer(c) \/ Fail(c) \/ Stop(c)

Spec == Init /\ [][Next]_vars

=============================================================================
