---------------------------- MODULE MCSysnetMtu -----------------------------
(* SysnetMtu with a device at the IPv4 minimum, at 1500 or at a jumbo MTU.  *)
EXTENDS SysnetMtu

DeviceMtus == {576, 1500, 9000}

=============================================================================
