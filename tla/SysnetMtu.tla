----------------------------- MODULE SysnetMtu ------------------------------
(***************************************************************************)
(* TlsIntegrityTester.tcp_flow_check of src/tls/test_tls_integrity.py with *)
(* the MTU helpers of src/helpers/sysnet.py.  Every `ip` command run on    *)
(* the client node is a step whose result the environment chooses: it      *)
(* succeeds, fails (run_cmd raises Error), or, for `ip link set`, exits 0   *)
(* without changing the MTU.  The exchange and the sniffer inside mtu_ctx  *)
(* are one step that passes or fails an assertion.                         *)
(***************************************************************************)
EXTENDS Naturals

CONSTANTS
    Mtus,           \* MTUs the client device can have before the test
    TestMtu         \* the MTU tcp_flow_check sets (1500)

ASSUME TestMtu \in Mtus /\ Mtus \subseteq Nat \ {0}

\* Exceptions propagating out of the test; "none" when it passes.
Exceptions == {"none", "Error", "NameError", "AssertionError"}

VARIABLES
    mtu,            \* the device's MTU
    mtu0,           \* the device's MTU before the test (history)
    tpc,            \* where tcp_flow_check is
    exc,            \* the exception propagating, "none" if none
    prev_mtu,       \* tcp_flow_check's prev_mtu, 0 while unassigned
    cpc,            \* where the running change_mtu is, "idle" if none
    target,         \* change_mtu's mtu argument
    cm_prev,        \* change_mtu's prev_mtu, 0 while unassigned
    cm_entry,       \* the device's MTU when change_mtu was called (history)
    failed          \* some ip command failed or was ignored (history)

vars == <<mtu, mtu0, tpc, exc, prev_mtu, cpc, target, cm_prev, cm_entry,
          failed>>

Init ==
    /\ mtu \in Mtus
    /\ mtu0 = mtu
    /\ tpc = "route"
    /\ exc = "none"
    /\ prev_mtu = 0
    /\ cpc = "idle"
    /\ target = 0
    /\ cm_prev = 0
    /\ cm_entry = 0
    /\ failed = FALSE

cm_vars == <<cpc, target, cm_prev, cm_entry>>

\* Call change_mtu(node, dev, m) from tcp_flow_check at statement `at`.
CallChangeMtu(m, at) ==
    /\ cpc' = "get_prev" /\ target' = m /\ cm_prev' = 0 /\ cm_entry' = mtu
    /\ tpc' = at

\* change_mtu leaves with an exception.
RaiseFromChangeMtu(e) ==
    /\ cpc' = "raised" /\ exc' = e
    /\ UNCHANGED <<target, cm_prev, cm_entry>>

-----------------------------------------------------------------------------
(* tcp_flow_check                                                          *)

\* route_dst_ip(remote.client, addr), then change_mtu(.., 1500); an Error of
\* route_dst_ip is turned into self.fail(err).
RouteDstIp ==
    /\ tpc = "route"
    /\ \/ CallChangeMtu(TestMtu, "set") /\ UNCHANGED <<exc, failed>>
       \/ /\ exc' = "AssertionError" /\ tpc' = "done" /\ failed' = TRUE
          /\ UNCHANGED cm_vars
    /\ UNCHANGED <<mtu, mtu0, prev_mtu>>

\* The first change_mtu is over: its Error becomes self.fail(err), any other
\* exception propagates, a return value is prev_mtu and mtu_ctx is entered.
AfterSet ==
    /\ tpc = "set" /\ cpc \in {"returned", "raised"}
    /\ CASE cpc = "returned" ->
              /\ prev_mtu' = cm_prev /\ tpc' = "body" /\ UNCHANGED exc
         [] exc = "Error" ->
              /\ exc' = "AssertionError" /\ tpc' = "done" /\ UNCHANGED prev_mtu
         [] OTHER ->
              /\ tpc' = "done" /\ UNCHANGED <<exc, prev_mtu>>
    /\ cpc' = "idle"
    /\ UNCHANGED <<mtu, mtu0, target, cm_prev, cm_entry, failed>>

\* Mutation: mtu_ctx restores the MTU only when its body succeeded.
BodyNoFinally ==
    /\ tpc = "body"
    /\ \/ CallChangeMtu(prev_mtu, "restore") /\ UNCHANGED exc
       \/ exc' = "AssertionError" /\ tpc' = "done" /\ UNCHANGED cm_vars
    /\ UNCHANGED <<mtu, mtu0, prev_mtu, failed>>

\* Inside mtu_ctx: make_request, wait_for_response and the sniffer check,
\* whose assertions pass or fail; the finally calls change_mtu(prev_mtu).
Body ==
    /\ tpc = "body"
    /\ \E e \in {"none", "AssertionError"} : exc' = e
    /\ CallChangeMtu(prev_mtu, "restore")
    /\ UNCHANGED <<mtu, mtu0, prev_mtu, failed>>

\* The change_mtu of the finally is over; an exception it raises replaces
\* the one the body raised.
AfterRestore ==
    /\ tpc = "restore" /\ cpc \in {"returned", "raised"}
    /\ tpc' = "done"
    /\ cpc' = "idle"
    /\ UNCHANGED <<mtu, mtu0, exc, prev_mtu, target, cm_prev, cm_entry, failed>>

-----------------------------------------------------------------------------
(* change_mtu(node, dev, mtu) and the get_mtu calls it makes.  Both        *)
(* format the undefined name `ip` when run_cmd raises Error.               *)

\* Mutation: the MTU read first is not kept.
GetPrevMtuLost ==
    /\ cpc = "get_prev"
    /\ \/ cpc' = "set_link"
          /\ UNCHANGED <<exc, failed, target, cm_prev, cm_entry>>
       \/ RaiseFromChangeMtu("NameError") /\ failed' = TRUE
    /\ UNCHANGED <<mtu, mtu0, tpc, prev_mtu>>

\* prev_mtu = get_mtu(node, dev)
GetPrevMtu ==
    /\ cpc = "get_prev"
    /\ \/ cm_prev' = mtu /\ cpc' = "set_link"
          /\ UNCHANGED <<exc, failed, target, cm_entry>>
       \/ RaiseFromChangeMtu("NameError") /\ failed' = TRUE
    /\ UNCHANGED <<mtu, mtu0, tpc, prev_mtu>>

\* node.run_cmd("ip link set dev mtu m")
SetLink ==
    /\ cpc = "set_link"
    /\ \/ mtu' = target /\ cpc' = "verify" /\ UNCHANGED <<exc, failed>>
       \/ cpc' = "verify" /\ failed' = TRUE /\ UNCHANGED <<mtu, exc>>
       \/ RaiseFromChangeMtu("NameError") /\ failed' = TRUE /\ UNCHANGED mtu
    /\ UNCHANGED <<mtu0, tpc, prev_mtu, target, cm_prev, cm_entry>>

\* Mutation: `return mtu` instead of the MTU read first.
VerifyReturnNew ==
    /\ cpc = "verify"
    /\ \/ /\ IF target # mtu THEN RaiseFromChangeMtu("Error")
                             ELSE cpc' = "returned" /\ cm_prev' = target
                                  /\ UNCHANGED <<exc, target, cm_entry>>
          /\ UNCHANGED failed
       \/ RaiseFromChangeMtu("NameError") /\ failed' = TRUE
    /\ UNCHANGED <<mtu, mtu0, tpc, prev_mtu>>

\* Mutation: the result of `ip link set` is not verified.
VerifyNone ==
    /\ cpc = "verify"
    /\ \/ cpc' = "returned" /\ UNCHANGED <<exc, failed, target, cm_prev, cm_entry>>
       \/ RaiseFromChangeMtu("NameError") /\ failed' = TRUE
    /\ UNCHANGED <<mtu, mtu0, tpc, prev_mtu>>

\* if mtu != get_mtu(node, dev): raise Error(...); return prev_mtu
Verify ==
    /\ cpc = "verify"
    /\ \/ /\ IF target # mtu THEN RaiseFromChangeMtu("Error")
                             ELSE cpc' = "returned"
                                  /\ UNCHANGED <<exc, target, cm_prev, cm_entry>>
          /\ UNCHANGED failed
       \/ RaiseFromChangeMtu("NameError") /\ failed' = TRUE
    /\ UNCHANGED <<mtu, mtu0, tpc, prev_mtu>>

\* The test is over.
Done ==
    /\ tpc = "done"
    /\ UNCHANGED vars

Next ==
    \/ RouteDstIp \/ AfterSet \/ Body \/ AfterRestore
    \/ GetPrevMtu \/ SetLink \/ Verify \/ Done

Spec == Init /\ [][Next]_vars

-----------------------------------------------------------------------------
(* Properties.                                                             *)

TypeOK ==
    /\ mtu \in Mtus /\ mtu0 \in Mtus
    /\ tpc \in {"route", "set", "body", "restore", "done"}
    /\ exc \in Exceptions
    /\ prev_mtu \in Mtus \cup {0}
    /\ cpc \in {"idle", "get_prev", "set_link", "verify", "returned", "raised"}
    /\ target \in Mtus \cup {0} /\ cm_prev \in Mtus \cup {0}
    /\ cpc \in {"set_link", "verify", "returned"} => cm_prev \in Mtus
    /\ cm_entry \in Mtus \cup {0}
    /\ failed \in BOOLEAN

\* When every ip command does what it is asked, the device has its
\* original MTU at the end of tcp_flow_check, whether the test passed or
\* failed inside mtu_ctx.
RestoredWhenCommandsWork ==
    tpc = "done" /\ ~failed => mtu = mtu0

\* A change_mtu that returns has set the requested MTU and returns the one
\* the device had when it was called; tcp_flow_check's prev_mtu, which
\* mtu_ctx restores, is the device's MTU before the test.
ChangeMtuContract ==
    /\ cpc = "returned" => mtu = target /\ cm_prev = cm_entry
    /\ prev_mtu # 0 => prev_mtu = mtu0

\* tcp_flow_check leaves the client device with the MTU it had, however it
\* ends (mtu_ctx's purpose).
MtuRestored ==
    tpc = "done" => mtu = mtu0

\* The sysnet helpers report a failed command as helpers.error.Error, the
\* exception tcp_flow_check catches.
FailuresRaiseError ==
    exc # "NameError"

=============================================================================
