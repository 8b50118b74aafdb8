-------------------------------- MODULE MCFeeding -------------------------------
(* An instance of Feeding for TLC: the machine states no defaults until a  *)
(* meal is kept or the app sets some, with a portion the integration       *)
(* refuses.                                                                *)
EXTENDS Feeding, TLC

CONSTANTS t1, t2

Config(food, water, mixMin) == [food |-> food, water |-> water, mixMin |-> mixMin]

NoneStated == {NoConfig}
OneSetting == {Config(2, 10, 2)}
OneFood == {8}
OneRatio == {2}
OneMinute == {2}

(* The feeds are alike.                                                    *)
Alike == Permutations({t1, t2})
=============================================================================
