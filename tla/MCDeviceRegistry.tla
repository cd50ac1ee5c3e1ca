-------------------------- MODULE MCDeviceRegistry --------------------------
(* DeviceRegistry on a few devices: values for its constants. *)
EXTENDS DeviceRegistry, TLC

CONSTANTS d1, d2, x1, x2, b1, b2, w1, w2, f1, f2

Encoded == (x1 :> b1) @@ (x2 :> b2)

SymmetricDevices == Permutations(Devices)
SymmetricWorkers == Permutations(Workers)
SymmetricThreads == SymmetricDevices \cup SymmetricWorkers

=============================================================================
