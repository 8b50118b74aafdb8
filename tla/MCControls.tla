-------------------------------- MODULE MCControls -----------------------------
(* An instance of Controls for TLC: machines that state everything, or     *)
(* nothing, or texts for numbers; the last hour of a day of 25 hours and   *)
(* the first of a day of 24 after it.                                      *)
EXTENDS Controls

All(keys, stated) == [k \in DOMAIN keys |-> [f \in keys[k] |-> stated]]

FullFeeder ==
  [All(FeederKeys, 1) EXCEPT !.displayCfg.displayParam = "TESTE",
                             !.bowlStatus.curWeight = 5,
                             !.bowlStatus.bowlGram = 7,
                             !.DeviceVer.FW_Version = "1.0"]

Odd(keys) == All(keys, Junk)

ThreeStates ==
  [petFeeder |-> {FullFeeder, All(FeederKeys, Missing), Odd(FeederKeys)},
   CatLitter |-> {All(LitterKeys, 1), All(LitterKeys, Missing), Odd(LitterKeys)}]

Setting(key, field, to) == [key |-> key, field |-> field, to |-> to]

SomeSettings ==
  [petFeeder |->
     {Setting("displayCfg", "displayType", 2), Setting("freshMgrCfg", "bOnOff", 0),
      Setting("bowlStatus", "bowlGram", Missing)},
   CatLitter |->
     {Setting("cleanCfg", "active", 0), Setting("cleanCfg", "delay", 5)}]

SomeHours == {72, 73}
SomeMidnights == {24, 48, 73, 97}
SomeCats == {"tom"}
SomeUses == {[cat |-> "tom", weight |-> 4]}
SomeMeals == {[feed_weight |-> 5, water_weight |-> None]}
SomeWeighings == {[gram |-> 9, bowlGram |-> 7], [gram |-> 9, bowlGram |-> Missing]}
CONSTANT lab
SomeLabels == {lab}
SomeDays == {20}
SomeMinutes == {4}
SomeVolumes == {0}
=============================================================================
