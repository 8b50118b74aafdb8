------------------------------ MODULE EntityStates -----------------------------
(***************************************************************************)
(* The entities of a device: what each of them shows of a snapshot, and    *)
(* what those that a user sets write.                                      *)
(*                                                                         *)
(* The state a sensor shows is a value or None; the names of numbered      *)
(* states are left out, so a named state is its number.                    *)
(***************************************************************************)
EXTENDS Snapshots

CONSTANTS
  Cats,  \* the cats of a litter box
  Days,  \* the desiccant days, rehydration minutes and volumes chosen
  Minutes,
  Volumes

ASSUME NumbersAssumption ==
  Days \subseteq 1 .. 60 /\ Minutes \subseteq 0 .. 30 /\ Volumes \subseteq 0 .. 100

(* What the model has of a device that the last scan left out.             *)
NoSnapshot == <<>>

Of(s, attr) == IF s = NoSnapshot THEN None ELSE s[attr]

(* The entities of two platforms together.                                 *)
Beside(f, g) == [e \in DOMAIN f \cup DOMAIN g |-> IF e \in DOMAIN f THEN f[e] ELSE g[e]]

(* Python's truth of a stated value, shown as a switch.                    *)
OnOff(stated) == IF stated \in {None, Missing, 0} THEN "off" ELSE "on"

-----------------------------------------------------------------------------
(* Sensors of a feeder.                                                    *)

Label(s) == Of(s, "label")
FoodLevel(s) == Of(s, "food_level_state")
WaterLevel(s) == Of(s, "water_level_state")
Battery(s) == Of(s, "battery_percent")
BatteryState(s) == Of(s, "battery_state")
WifiRssi(s) == Of(s, "wifi_rssi")
DeviceStatus(s) == Of(s, "device_state")
DeepCleanState(s) == Of(s, "deep_clean_state")
DesiccantDaysLeft(s) == Of(s, "desiccant_days_left")
FirmwareVersion(s) == Of(s, "firmware_version")
WaterBinClean(s) == Of(s, "last_water_bin_clean")
FoodBinClean(s) == Of(s, "last_food_bin_clean")
FoodIntakeSolids(s) == Of(s, "feed_today_solids_g")
FoodIntakeLiquid(s) == Of(s, "feed_today_liquid_g")

FoodIntake(s) ==
  LET solids == Of(s, "feed_today_solids_g")
      liquid == Of(s, "feed_today_liquid_g")
  IN  IF None \in {solids, liquid} THEN None ELSE solids + liquid

(* What the bowl holds: the live weighing before the stored one, less the  *)
(* tare stated with it or else the stored one.                             *)
BowlWeight(s) ==
  LET live == Of(s, "scale_live_g")
      gross == IF live # None THEN live ELSE Of(s, "bowl_weight_g")
      liveTare == Of(s, "scale_live_tare_g")
      tare == IF live # None /\ liveTare # None THEN liveTare ELSE Of(s, "bowl_tare_g")
  IN  IF None \in {gross, tare} THEN gross
      ELSE IF gross > tare THEN gross - tare ELSE 0

FeederSensors(s) ==
  [label |-> Label(s), food_level |-> FoodLevel(s), water_level |-> WaterLevel(s),
   battery |-> Battery(s), battery_state |-> BatteryState(s), wifi_rssi |-> WifiRssi(s),
   device_status |-> DeviceStatus(s), bowl_weight |-> BowlWeight(s),
   deep_clean_state |-> DeepCleanState(s), desiccant_days_left |-> DesiccantDaysLeft(s),
   firmware_version |-> FirmwareVersion(s), food_intake_today |-> FoodIntake(s),
   food_intake_today_solids |-> FoodIntakeSolids(s),
   food_intake_today_liquid |-> FoodIntakeLiquid(s),
   water_bin_clean |-> WaterBinClean(s), food_bin_clean |-> FoodBinClean(s)]

(* Sensors of a litter box.                                                *)

SandPercent(s) == Of(s, "sand_level_percent")
StayTime(s) == Of(s, "stay_time")
SandState(s) == Of(s, "sand_level_state")
BinState(s) == Of(s, "room_of_bin")

LastUsage(s) ==
  LET raw == Of(s, "last_use") IN IF raw \in {0, Junk} THEN None ELSE raw

(* Two of the numbered states have one name.                               *)
BucketStatus(s) ==
  LET raw == Of(s, "bucket_status") IN IF raw = 2 THEN 1 ELSE raw

(* The latest weight of a cat, from the first of its records.              *)
CatWeight(s, c) ==
  LET its == SelectSeq(IF s = NoSnapshot THEN <<>> ELSE s.record_list,
                       LAMBDA r : r.cat = c)
  IN  IF its = <<>> THEN None ELSE its[1].weight

LitterSensors(s) ==
  [label |-> Label(s), sand_percent |-> SandPercent(s), wifi_rssi |-> WifiRssi(s),
   stay_time |-> StayTime(s), last_usage |-> LastUsage(s),
   current_status |-> BucketStatus(s), sand_state |-> SandState(s),
   bin_state |-> BinState(s), cat_weight |-> [c \in Cats |-> CatWeight(s, c)]]

-----------------------------------------------------------------------------
(* Binary sensors.                                                         *)

BinFull(s) == OnOff(Of(s, "bin_full"))
CoverAbsent(s) == OnOff(Of(s, "cover_absent"))
BowlInPlace(s) == OnOff(Of(s, "bowl_present"))
ServingFood(s) == IF Of(s, "device_state") \in {1, 2} THEN "on" ELSE "off"

FeederBinarySensors(s) ==
  [cover_absent |-> CoverAbsent(s), bowl_in_place |-> BowlInPlace(s),
   serving_food |-> ServingFood(s)]

LitterBinarySensors(s) == [bin_full |-> BinFull(s)]

-----------------------------------------------------------------------------
(* Controls: what is shown, the wire key and the attribute it is noted in, *)
(* the field that is its own, what can be chosen, and whether it writes to *)
(* a device that was left out.                                             *)

Scalar(shows, key, attr, values) ==
  [shows |-> shows, key |-> key, attr |-> attr, field |-> "value", values |-> values,
   leftOut |-> TRUE]

Nested(shows, key, attr, field, values) ==
  [shows |-> shows, key |-> key, attr |-> attr, field |-> field, values |-> values,
   leftOut |-> FALSE]

Positions == {0, 1}

YoungCatMode(s) ==
  Scalar(OnOff(Of(s, "young_cat_mode")), "youngCatMode", "young_cat_mode", Positions)
ChildLock(s) ==
  Scalar(OnOff(Of(s, "child_lock")), "childLockOnOff", "child_lock", Positions)
AutoBury(s) ==
  Scalar(OnOff(Of(s, "auto_bury")), "autoBury", "auto_bury", Positions)
AutoLevel(s) ==
  Scalar(OnOff(Of(s, "auto_level")), "autoLevel", "auto_level", Positions)
SilentMode(s) ==
  Scalar(OnOff(Of(s, "silent_mode")), "silentMode", "silent_mode", Positions)
AutoRecovery(s) ==
  Scalar(OnOff(Of(s, "auto_force_init")), "autoForceInit", "auto_force_init", Positions)
UnstoppableCycle(s) ==
  Scalar(OnOff(Of(s, "b_intrpt_range_det")), "bIntrptRangeDet", "b_intrpt_range_det",
         Positions)

(* Shown from the object itself.                                           *)
AutoClean(s) ==
  Nested(IF s = NoSnapshot THEN "off" ELSE OnOff(s.clean_cfg.active),
         "cleanCfg", "clean_cfg", "active", Positions)

LitterControls(s) ==
  [auto_clean |-> AutoClean(s), young_cat_mode |-> YoungCatMode(s),
   child_lock |-> ChildLock(s), auto_bury |-> AutoBury(s), auto_level |-> AutoLevel(s),
   silent_mode |-> SilentMode(s), auto_recovery |-> AutoRecovery(s),
   unstoppable_cycle |-> UnstoppableCycle(s)]

FreshMealManager(s) ==
  Nested(OnOff(Of(s, "fresh_mgr_on")), "freshMgrCfg", "fresh_mgr_cfg", "bOnOff", Positions)
DisplayStandby(s) ==
  Nested(OnOff(Of(s, "display_when_idle")), "displayCfg", "display_cfg",
         "bDisplayIfIdle", Positions)
DoNotDisturb(s) ==
  Nested(OnOff(Of(s, "dnd_active")), "DND_Mode", "dnd_cfg", "active", Positions)

FeederSwitches(s) ==
  [fresh_meal_manager |-> FreshMealManager(s), display_standby |-> DisplayStandby(s),
   do_not_disturb |-> DoNotDisturb(s)]

DesiccantDays(s) ==
  Scalar(Of(s, "desiccant_days_effective"), "drierEffeDays", "desiccant_days_effective",
         Days)
RehydrationMinutes(s) ==
  [Nested(Of(s, "mix_min_minutes"), "defFdCfg", "feed_cfg", "mixMin", Minutes)
   EXCEPT !.leftOut = TRUE]
FeedSoundVolume(s) ==
  [Nested(Of(s, "sound_volume"), "feedAudCfg", "feed_aud_cfg", "volume", Volumes)
   EXCEPT !.leftOut = TRUE]

FeederNumbers(s) ==
  [rehydration_minutes |-> RehydrationMinutes(s), desiccant_days |-> DesiccantDays(s),
   feed_sound_volume |-> FeedSoundVolume(s)]

(* The kinds of display by their codes; one without a name is not shown.   *)
DisplayKinds == 0 .. 2

DisplayStandbyKind(s) ==
  LET kind == Of(s, "display_type")
  IN  Nested(IF kind \in DisplayKinds THEN kind ELSE None,
             "displayCfg", "display_cfg", "displayType", DisplayKinds)

(* What is typed is sent in capitals.                                      *)
Capitals == [teste |-> "TESTE", TESTE |-> "TESTE", none |-> ""]

DisplayCustomMessage(s) ==
  LET param == Of(s, "display_param")
  IN  Nested(IF s = NoSnapshot THEN None
             ELSE IF param = None THEN "" ELSE param,
             "displayCfg", "display_cfg", "displayParam",
             {Capitals[typed] : typed \in DOMAIN Capitals})

FeederControls(s) ==
  Beside(Beside(FeederSwitches(s), FeederNumbers(s)),
         [display_standby_kind |-> DisplayStandbyKind(s),
          display_custom_message |-> DisplayCustomMessage(s)])
=============================================================================
