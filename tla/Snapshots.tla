-------------------------------- MODULE Snapshots -------------------------------
(***************************************************************************)
(* From what a machine states to the model: the snapshot the coordinator   *)
(* builds of one device.                                                   *)
(*                                                                         *)
(* The properties of a machine are a function from keys to objects, and a  *)
(* key that has no object of its own is one with the field "value".  What  *)
(* is not stated is Missing; Junk is a text where a number belongs.  A     *)
(* truth value is 0 or 1.                                                  *)
(***************************************************************************)
EXTENDS ServedDay, Sequences

CONSTANTS
  Missing,  \* no such field
  Junk      \* a text in place of a number

ASSUME WireAssumption == Missing \notin Int /\ Junk \notin Int

LitterKeys ==
  [cleanCfg |-> {"active", "delay"}, youngCatMode |-> {"value"},
   childLockOnOff |-> {"value"}, autoBury |-> {"value"}, autoLevel |-> {"value"},
   silentMode |-> {"value"}, autoForceInit |-> {"value"}, bIntrptRangeDet |-> {"value"},
   binFullWaitReset |-> {"value"}, Sand |-> {"percent", "level"},
   NetWorkStatus |-> {"WiFi_RSSI"}, bucketStatus |-> {"value"}, room_of_bin |-> {"value"},
   catLeft |-> {"stayTime", "time"}]

FeederKeys ==
  [foodLvl |-> {"value"}, waterLvl |-> {"value"}, pwrStatus |-> {"batPercentage", "batStatus"},
   bowlStatus |-> {"bBowlIn", "curWeight", "bowlGram"}, bCoverAbsent |-> {"value"},
   leftDrierDays |-> {"value"}, drierEffeDays |-> {"value"}, NetWorkStatus |-> {"WiFi_RSSI"},
   freshMgrCfg |-> {"bOnOff", "monitorTime"}, deepCleanCfg |-> {"cleanState"},
   defFdCfg |-> {"food", "water", "mixMin"}, deviceState |-> {"state"},
   displayCfg |-> {"displayType", "displayParam", "bDisplayIfIdle"},
   feedAudCfg |-> {"audIdx", "volume"}, DND_Mode |-> {"active", "startTime"},
   lastWaterBinCleanTime |-> {"value"}, lastFoodBinCleanTime |-> {"value"},
   DeviceVer |-> {"FW_Version"}]

KeysOf(category) == IF category = "petFeeder" THEN FeederKeys ELSE LitterKeys

-----------------------------------------------------------------------------
(* Wire values.                                                            *)

ToInt(stated) == IF stated \in {Missing, Junk} THEN 0 ELSE stated
OptionalInt(stated) == IF stated \in {Missing, Junk} THEN None ELSE stated
AsStated(stated) == IF stated = Missing THEN None ELSE stated
IsOne(stated) == IF stated = 1 THEN 1 ELSE 0

(* _live_scale: a weighing and its tare, or nothing.                       *)
LiveScale(live) ==
  IF live.gram = Missing
  THEN [gram |-> None, tare |-> None]
  ELSE [gram |-> live.gram, tare |-> OptionalInt(live.bowlGram)]

(* _build_device_snapshot.                                                 *)
LitterSnapshot(wire, records, label) ==
  [label |-> label,
   bin_full |-> IsOne(wire.binFullWaitReset.value),
   clean_cfg |-> wire.cleanCfg,
   young_cat_mode |-> IsOne(wire.youngCatMode.value),
   child_lock |-> IsOne(wire.childLockOnOff.value),
   auto_bury |-> IsOne(wire.autoBury.value),
   auto_level |-> IsOne(wire.autoLevel.value),
   silent_mode |-> IsOne(wire.silentMode.value),
   auto_force_init |-> IsOne(wire.autoForceInit.value),
   b_intrpt_range_det |-> IsOne(wire.bIntrptRangeDet.value),
   sand_level_percent |-> ToInt(wire.Sand.percent),
   sand_level_state |-> ToInt(wire.Sand.level),
   wifi_rssi |-> ToInt(wire.NetWorkStatus.WiFi_RSSI),
   bucket_status |-> ToInt(wire.bucketStatus.value),
   room_of_bin |-> ToInt(wire.room_of_bin.value),
   stay_time |-> ToInt(wire.catLeft.stayTime),
   last_use |-> IF wire.catLeft.time = Missing THEN 0 ELSE wire.catLeft.time,
   record_list |-> records]

(* _build_pet_feeder_snapshot.                                             *)
FeederSnapshot(wire, records, label, live, now) ==
  LET scale == LiveScale(live)
      served == ServedToday(records, now)
  IN  [label |-> label,
       food_level_state |-> ToInt(wire.foodLvl.value),
       water_level_state |-> ToInt(wire.waterLvl.value),
       battery_percent |-> IF wire.pwrStatus.batPercentage = Missing THEN None
                           ELSE ToInt(wire.pwrStatus.batPercentage),
       battery_state |-> OptionalInt(wire.pwrStatus.batStatus),
       wifi_rssi |-> ToInt(wire.NetWorkStatus.WiFi_RSSI),
       bowl_present |-> IsOne(wire.bowlStatus.bBowlIn),
       bowl_weight_g |-> OptionalInt(wire.bowlStatus.curWeight),
       bowl_tare_g |-> OptionalInt(wire.bowlStatus.bowlGram),
       scale_live_g |-> scale.gram,
       scale_live_tare_g |-> scale.tare,
       cover_absent |-> IF wire.bCoverAbsent.value = 0 THEN 1 ELSE 0,
       desiccant_days_left |-> IF wire.leftDrierDays.value = Missing THEN None
                               ELSE ToInt(wire.leftDrierDays.value),
       desiccant_days_effective |-> OptionalInt(wire.drierEffeDays.value),
       fresh_mgr_cfg |-> wire.freshMgrCfg,
       fresh_mgr_on |-> IsOne(wire.freshMgrCfg.bOnOff),
       deep_clean_state |-> OptionalInt(wire.deepCleanCfg.cleanState),
       feed_cfg |-> wire.defFdCfg,
       mix_min_minutes |-> OptionalInt(wire.defFdCfg.mixMin),
       device_state |-> ToInt(wire.deviceState.state),
       display_cfg |-> wire.displayCfg,
       display_type |-> OptionalInt(wire.displayCfg.displayType),
       display_param |-> AsStated(wire.displayCfg.displayParam),
       display_when_idle |-> IsOne(wire.displayCfg.bDisplayIfIdle),
       feed_aud_cfg |-> wire.feedAudCfg,
       sound_volume |-> OptionalInt(wire.feedAudCfg.volume),
       dnd_cfg |-> wire.DND_Mode,
       dnd_active |-> IsOne(wire.DND_Mode.active),
       last_water_bin_clean |-> AsStated(wire.lastWaterBinCleanTime.value),
       last_food_bin_clean |-> AsStated(wire.lastFoodBinCleanTime.value),
       firmware_version |-> AsStated(wire.DeviceVer.FW_Version),
       feed_today_solids_g |-> served.solids,
       feed_today_liquid_g |-> served.liquid]
=============================================================================
