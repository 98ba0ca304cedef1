---------------------------- MODULE MCSensorCache ----------------------------
(* Small instances of SensorCache for TLC.                                   *)
EXTENDS SensorCache, TLC

CONSTANTS u1, u2, u3, u4, c1, d1, d2, d3

MCUpdates == {u1, u2, u3, u4}
MCClients == {c1}
MCDevices == {d1, d2, d3}
MCDeviceOf == [u \in Updates |-> CASE u = u3 -> d2 [] u = u4 -> d3 [] OTHER -> d1]
MCSymmetry == Permutations({u1, u2})
=============================================================================
