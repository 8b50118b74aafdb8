----------------------------- MODULE MCDeviceWrites -----------------------------
(* Instances of DeviceWrites for TLC: one scan beside presses.             *)
EXTENDS DeviceWrites, TLC

CONSTANTS p1, f1, f2, on, off

(* No press, or one press of the first field.                              *)
NoneOwn == [p \in {} |-> f1]
OneOwn == [p \in {p1} |-> f1]

(* The two values of a field are alike.                                    *)
Flip == Permutations({on, off})
=============================================================================
