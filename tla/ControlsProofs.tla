---------------------------- MODULE ControlsProofs -----------------------------
(***************************************************************************)
(* Proofs of the properties of Controls: what entities report is what the  *)
(* model says, the day figures are those of the local day, a press moves   *)
(* one field of the machine, and its control shows what a new read would.  *)
(*                                                                         *)
(* Snapshots and entities are first described attribute by attribute; then *)
(* every step is shown to be one of six (lemma Steps), from which each     *)
(* invariant is preserved.                                                 *)
(***************************************************************************)
EXTENDS Controls, FiniteSetTheorems, WellFoundedInduction, TLAPS

-----------------------------------------------------------------------------
(* Snapshots.                                                              *)

FeederAttributes ==
  {"label", "food_level_state", "water_level_state", "battery_percent", "battery_state",
   "wifi_rssi", "bowl_present", "bowl_weight_g", "bowl_tare_g", "scale_live_g",
   "scale_live_tare_g", "cover_absent", "desiccant_days_left", "desiccant_days_effective",
   "fresh_mgr_cfg", "fresh_mgr_on", "deep_clean_state", "feed_cfg", "mix_min_minutes",
   "device_state", "display_cfg", "display_type", "display_param", "display_when_idle",
   "feed_aud_cfg", "sound_volume", "dnd_cfg", "dnd_active", "last_water_bin_clean",
   "last_food_bin_clean", "firmware_version", "feed_today_solids_g", "feed_today_liquid_g"}

LitterAttributes ==
  {"label", "bin_full", "clean_cfg", "young_cat_mode", "child_lock", "auto_bury",
   "auto_level", "silent_mode", "auto_force_init", "b_intrpt_range_det",
   "sand_level_percent", "sand_level_state", "wifi_rssi", "bucket_status", "room_of_bin",
   "stay_time", "last_use", "record_list"}

AttributesOf(cat) == IF cat = "petFeeder" THEN FeederAttributes ELSE LitterAttributes

DayFigures == {"feed_today_solids_g", "feed_today_liquid_g"}

LEMMA FeederDomain ==
  \A w, r, l, v, h : DOMAIN FeederSnapshot(w, r, l, v, h) = FeederAttributes
BY DEF FeederSnapshot, FeederAttributes

LEMMA LitterDomain ==
  \A w, r, l : DOMAIN LitterSnapshot(w, r, l) = LitterAttributes
BY DEF LitterSnapshot, LitterAttributes

LEMMA SnapshotDomain ==
  \A cat, w, r, l, v, h : DOMAIN Snapshot(cat, w, r, l, v, h) = AttributesOf(cat)
BY FeederDomain, LitterDomain DEF Snapshot, AttributesOf

LEMMA NoneThere == DOMAIN NoSnapshot = {} /\ \A cat : AttributesOf(cat) # {}
<1>1. DOMAIN <<>> = {}
  OBVIOUS
<1> QED
  BY <1>1 DEF NoSnapshot, AttributesOf, FeederAttributes, LitterAttributes

LEMMA SnapshotThere == \A cat, w, r, l, v, h : Snapshot(cat, w, r, l, v, h) # NoSnapshot
BY SnapshotDomain, NoneThere

LEMMA AttributesAre == \A cat : Attributes(cat) = AttributesOf(cat)
BY SnapshotDomain DEF Attributes

(* Two reads of the same feeder differ in the label and the day figures.   *)
LEMMA FeederAlike ==
  ASSUME NEW w, NEW r, NEW l1, NEW l2, NEW v, NEW h1, NEW h2
  PROVE  \A a \in FeederAttributes \ ({"label"} \cup DayFigures) :
            FeederSnapshot(w, r, l1, v, h1)[a] = FeederSnapshot(w, r, l2, v, h2)[a]
BY DEF FeederSnapshot, FeederAttributes, DayFigures

LEMMA FeederFigures ==
  ASSUME NEW w, NEW r, NEW l, NEW v, NEW h
  PROVE  /\ FeederSnapshot(w, r, l, v, h).feed_today_solids_g = ServedToday(r, h).solids
         /\ FeederSnapshot(w, r, l, v, h).feed_today_liquid_g = ServedToday(r, h).liquid
BY DEF FeederSnapshot

LEMMA LitterAlike ==
  ASSUME NEW w, NEW r, NEW l1, NEW l2
  PROVE  \A a \in LitterAttributes \ {"label"} :
            LitterSnapshot(w, r, l1)[a] = LitterSnapshot(w, r, l2)[a]
BY DEF LitterSnapshot, LitterAttributes

-----------------------------------------------------------------------------
(* What the entities show.                                                 *)

FeederNames ==
  {"label", "food_level", "water_level", "battery", "battery_state", "wifi_rssi",
   "device_status", "bowl_weight", "deep_clean_state", "desiccant_days_left",
   "firmware_version", "food_intake_today", "food_intake_today_solids",
   "food_intake_today_liquid", "water_bin_clean", "food_bin_clean", "cover_absent",
   "bowl_in_place", "serving_food"}

LitterNames ==
  {"label", "sand_percent", "wifi_rssi", "stay_time", "last_usage", "current_status",
   "sand_state", "bin_state", "cat_weight", "bin_full"}

FeederControlNames ==
  {"fresh_meal_manager", "display_standby", "do_not_disturb", "rehydration_minutes",
   "desiccant_days", "feed_sound_volume", "display_standby_kind", "display_custom_message"}

LitterControlNames ==
  {"auto_clean", "young_cat_mode", "child_lock", "auto_bury", "auto_level", "silent_mode",
   "auto_recovery", "unstoppable_cycle"}

Names(cat) == IF cat = "petFeeder" THEN FeederNames ELSE LitterNames
ControlNames(cat) == IF cat = "petFeeder" THEN FeederControlNames ELSE LitterControlNames

LEMMA FeederControlsAre ==
  ASSUME NEW s
  PROVE  /\ DOMAIN FeederControls(s) = FeederControlNames
         /\ FeederControls(s).fresh_meal_manager = FreshMealManager(s)
         /\ FeederControls(s).display_standby = DisplayStandby(s)
         /\ FeederControls(s).do_not_disturb = DoNotDisturb(s)
         /\ FeederControls(s).rehydration_minutes = RehydrationMinutes(s)
         /\ FeederControls(s).desiccant_days = DesiccantDays(s)
         /\ FeederControls(s).feed_sound_volume = FeedSoundVolume(s)
         /\ FeederControls(s).display_standby_kind = DisplayStandbyKind(s)
         /\ FeederControls(s).display_custom_message = DisplayCustomMessage(s)
BY DEF FeederControls, FeederSwitches, FeederNumbers, FeederControlNames, Beside

LEMMA LitterControlsAre ==
  ASSUME NEW s
  PROVE  DOMAIN LitterControls(s) = LitterControlNames
BY DEF LitterControls, LitterControlNames

LEMMA ControlsDomain ==
  \A cat, s : DOMAIN ControlsOf(cat, s) = ControlNames(cat)
BY FeederControlsAre, LitterControlsAre DEF ControlsOf, ControlNames

LEMMA SensorsDomain ==
  \A cat, s : DOMAIN SensorsOf(cat, s) = Names(cat)
BY DEF SensorsOf, FeederSensors, FeederBinarySensors, LitterSensors, LitterBinarySensors,
       Names, FeederNames, LitterNames, Beside

(* Every control is shown, and nothing else has its name.                  *)
LEMMA StatesAre ==
  ASSUME NEW cat, NEW s
  PROVE  /\ DOMAIN StatesOf(cat, s) = Names(cat) \cup ControlNames(cat)
         /\ \A e \in Names(cat) : StatesOf(cat, s)[e] = SensorsOf(cat, s)[e]
         /\ \A c \in ControlNames(cat) : StatesOf(cat, s)[c] = ControlsOf(cat, s)[c].shows
<1>1. Names(cat) \cap ControlNames(cat) = {}
  BY DEF Names, ControlNames, FeederNames, LitterNames, FeederControlNames,
         LitterControlNames
<1>2. StatesOf(cat, s)
        = Beside(SensorsOf(cat, s),
                 [c \in ControlNames(cat) |-> ControlsOf(cat, s)[c].shows])
  BY ControlsDomain DEF StatesOf
<1> QED
  BY <1>1, <1>2, SensorsDomain DEF Beside

(* Two platforms agree where both of them do.                              *)
LEMMA PartsAgree ==
  ASSUME NEW f, NEW g, NEW f2, DOMAIN f2 = DOMAIN f
  PROVE  \A e \in DOMAIN Beside(f, g) :
           (e \in DOMAIN f => f[e] = f2[e]) => Beside(f, g)[e] = Beside(f2, g)[e]
BY DEF Beside

(* Entities show the same of two snapshots that agree on what they read.   *)
LEMMA FeederSensorsAgree ==
  ASSUME NEW s, NEW t, s # NoSnapshot, t # NoSnapshot,
         \A a \in FeederAttributes \ ({"label"} \cup DayFigures) : s[a] = t[a]
  PROVE  \A e \in FeederNames \ ({"label"} \cup Intakes) :
           SensorsOf("petFeeder", s)[e] = SensorsOf("petFeeder", t)[e]
<1>1. /\ FoodLevel(s) = FoodLevel(t) /\ WaterLevel(s) = WaterLevel(t)
      /\ Battery(s) = Battery(t) /\ BatteryState(s) = BatteryState(t)
      /\ WifiRssi(s) = WifiRssi(t) /\ DeviceStatus(s) = DeviceStatus(t)
      /\ DeepCleanState(s) = DeepCleanState(t)
      /\ DesiccantDaysLeft(s) = DesiccantDaysLeft(t)
      /\ FirmwareVersion(s) = FirmwareVersion(t)
      /\ WaterBinClean(s) = WaterBinClean(t) /\ FoodBinClean(s) = FoodBinClean(t)
  BY DEF FoodLevel, WaterLevel, Battery, BatteryState, WifiRssi, DeviceStatus,
         DeepCleanState, DesiccantDaysLeft, FirmwareVersion, WaterBinClean, FoodBinClean,
         Of, FeederAttributes, DayFigures
<1>2. BowlWeight(s) = BowlWeight(t)
  <2>1. /\ Of(s, "scale_live_g") = Of(t, "scale_live_g")
        /\ Of(s, "scale_live_tare_g") = Of(t, "scale_live_tare_g")
        /\ Of(s, "bowl_weight_g") = Of(t, "bowl_weight_g")
        /\ Of(s, "bowl_tare_g") = Of(t, "bowl_tare_g")
    BY DEF Of, FeederAttributes, DayFigures
  <2> QED
    BY <2>1 DEF BowlWeight
<1>3. FeederBinarySensors(s) = FeederBinarySensors(t)
  <2>1. /\ Of(s, "cover_absent") = Of(t, "cover_absent")
        /\ Of(s, "bowl_present") = Of(t, "bowl_present")
        /\ Of(s, "device_state") = Of(t, "device_state")
    BY DEF Of, FeederAttributes, DayFigures
  <2> QED
    BY <2>1 DEF FeederBinarySensors, CoverAbsent, BowlInPlace, ServingFood
<1>4. \A e \in DOMAIN FeederSensors(s) \ ({"label"} \cup Intakes) :
        FeederSensors(s)[e] = FeederSensors(t)[e]
  BY <1>1, <1>2 DEF FeederSensors, Intakes
<1>5. \A u : /\ SensorsOf("petFeeder", u) = Beside(FeederSensors(u), FeederBinarySensors(u))
             /\ DOMAIN FeederSensors(u) = DOMAIN FeederSensors(s)
  BY DEF SensorsOf, FeederSensors
<1>6. FeederNames = DOMAIN Beside(FeederSensors(s), FeederBinarySensors(s))
  BY <1>5, SensorsDomain DEF Names
<1>7. \A e \in DOMAIN Beside(FeederSensors(s), FeederBinarySensors(s)) \ ({"label"} \cup Intakes) :
        Beside(FeederSensors(s), FeederBinarySensors(s))[e]
          = Beside(FeederSensors(t), FeederBinarySensors(s))[e]
  <2> HIDE DEF Intakes
  <2>1. DOMAIN FeederSensors(t) = DOMAIN FeederSensors(s)
    BY <1>5
  <2> QED
    BY <1>4, <2>1, PartsAgree
<1> QED
  BY <1>3, <1>5, <1>6, <1>7

LEMMA FeederIntakesAgree ==
  ASSUME NEW s, NEW t, s # NoSnapshot, t # NoSnapshot,
         \A a \in DayFigures : s[a] = t[a]
  PROVE  \A e \in Intakes : SensorsOf("petFeeder", s)[e] = SensorsOf("petFeeder", t)[e]
<1>1. /\ Of(s, "feed_today_solids_g") = Of(t, "feed_today_solids_g")
      /\ Of(s, "feed_today_liquid_g") = Of(t, "feed_today_liquid_g")
  BY DEF Of, DayFigures
<1>2. /\ FoodIntake(s) = FoodIntake(t)
      /\ FoodIntakeSolids(s) = FoodIntakeSolids(t)
      /\ FoodIntakeLiquid(s) = FoodIntakeLiquid(t)
  BY <1>1 DEF FoodIntake, FoodIntakeSolids, FoodIntakeLiquid
<1>3. ASSUME NEW u
      PROVE  /\ SensorsOf("petFeeder", u).food_intake_today = FoodIntake(u)
             /\ SensorsOf("petFeeder", u).food_intake_today_solids = FoodIntakeSolids(u)
             /\ SensorsOf("petFeeder", u).food_intake_today_liquid = FoodIntakeLiquid(u)
  BY DEF SensorsOf, FeederSensors, FeederBinarySensors, Beside
<1> QED
  BY <1>2, <1>3 DEF Intakes

LEMMA FeederControlsAgree ==
  ASSUME NEW s, NEW t, s # NoSnapshot, t # NoSnapshot,
         \A a \in FeederAttributes \ ({"label"} \cup DayFigures) : s[a] = t[a]
  PROVE  FeederControls(s) = FeederControls(t)
<1>1. /\ Of(s, "fresh_mgr_on") = Of(t, "fresh_mgr_on")
      /\ Of(s, "display_when_idle") = Of(t, "display_when_idle")
      /\ Of(s, "dnd_active") = Of(t, "dnd_active")
      /\ Of(s, "desiccant_days_effective") = Of(t, "desiccant_days_effective")
      /\ Of(s, "mix_min_minutes") = Of(t, "mix_min_minutes")
      /\ Of(s, "sound_volume") = Of(t, "sound_volume")
      /\ Of(s, "display_type") = Of(t, "display_type")
      /\ Of(s, "display_param") = Of(t, "display_param")
  BY DEF Of, FeederAttributes, DayFigures
<1>2. FeederSwitches(s) = FeederSwitches(t)
  BY <1>1 DEF FeederSwitches, FreshMealManager, DisplayStandby, DoNotDisturb
<1>3. FeederNumbers(s) = FeederNumbers(t)
  BY <1>1 DEF FeederNumbers, RehydrationMinutes, DesiccantDays, FeedSoundVolume
<1>4. DisplayStandbyKind(s) = DisplayStandbyKind(t)
  BY <1>1 DEF DisplayStandbyKind
<1>5. DisplayCustomMessage(s) = DisplayCustomMessage(t)
  BY <1>1 DEF DisplayCustomMessage
<1> QED
  BY <1>2, <1>3, <1>4, <1>5 DEF FeederControls

LEMMA LitterAgree ==
  ASSUME NEW s, NEW t, s # NoSnapshot, t # NoSnapshot,
         \A a \in LitterAttributes \ {"label"} : s[a] = t[a],
         NEW cat, cat # "petFeeder"
  PROVE  /\ \A e \in LitterNames \ {"label"} : SensorsOf(cat, s)[e] = SensorsOf(cat, t)[e]
         /\ LitterControls(s) = LitterControls(t)
<1>1. \A a \in LitterAttributes \ {"label"} : Of(s, a) = Of(t, a)
  BY DEF Of
<1>2. /\ SandPercent(s) = SandPercent(t) /\ StayTime(s) = StayTime(t)
      /\ SandState(s) = SandState(t) /\ BinState(s) = BinState(t)
      /\ WifiRssi(s) = WifiRssi(t)
  BY <1>1 DEF SandPercent, StayTime, SandState, BinState, WifiRssi, LitterAttributes
<1>3. LastUsage(s) = LastUsage(t)
  BY <1>1 DEF LastUsage, LitterAttributes
<1>4. BucketStatus(s) = BucketStatus(t)
  BY <1>1 DEF BucketStatus, LitterAttributes
<1>5. [c \in Cats |-> CatWeight(s, c)] = [c \in Cats |-> CatWeight(t, c)]
  <2>1. s.record_list = t.record_list
    BY DEF LitterAttributes
  <2> QED
    BY <2>1 DEF CatWeight
<1>6. \A e \in DOMAIN LitterSensors(s) \ {"label"} : LitterSensors(s)[e] = LitterSensors(t)[e]
  BY <1>2, <1>3, <1>4, <1>5 DEF LitterSensors
<1>7. LitterBinarySensors(s) = LitterBinarySensors(t)
  BY <1>1 DEF LitterBinarySensors, BinFull, LitterAttributes
<1>8. \A u : /\ SensorsOf(cat, u) = Beside(LitterSensors(u), LitterBinarySensors(u))
             /\ DOMAIN LitterSensors(u) = DOMAIN LitterSensors(s)
  BY DEF SensorsOf, LitterSensors
<1>9. LitterNames = DOMAIN Beside(LitterSensors(s), LitterBinarySensors(s))
  BY <1>8, SensorsDomain DEF Names
<1>10. \A e \in LitterNames \ {"label"} : SensorsOf(cat, s)[e] = SensorsOf(cat, t)[e]
  <2>1. \A e \in DOMAIN Beside(LitterSensors(s), LitterBinarySensors(s)) \ {"label"} :
          Beside(LitterSensors(s), LitterBinarySensors(s))[e]
            = Beside(LitterSensors(t), LitterBinarySensors(s))[e]
    <3>1. DOMAIN LitterSensors(t) = DOMAIN LitterSensors(s)
      BY <1>8
    <3> QED
      BY <1>6, <3>1, PartsAgree
  <2> QED
    BY <1>7, <1>8, <1>9, <2>1
<1>11. AutoClean(s) = AutoClean(t)
  <2>1. s.clean_cfg = t.clean_cfg
    BY DEF LitterAttributes
  <2> QED
    BY <2>1 DEF AutoClean
<1>12. /\ YoungCatMode(s) = YoungCatMode(t) /\ ChildLock(s) = ChildLock(t)
       /\ AutoBury(s) = AutoBury(t) /\ AutoLevel(s) = AutoLevel(t)
       /\ SilentMode(s) = SilentMode(t) /\ AutoRecovery(s) = AutoRecovery(t)
       /\ UnstoppableCycle(s) = UnstoppableCycle(t)
  BY <1>1 DEF YoungCatMode, ChildLock, AutoBury, AutoLevel, SilentMode, AutoRecovery,
              UnstoppableCycle, LitterAttributes
<1> QED
  BY <1>10, <1>11, <1>12 DEF LitterControls

LEMMA ServedOfDay ==
  \A r, h1, h2 : DayStart(h1) = DayStart(h2) => ServedToday(r, h1) = ServedToday(r, h2)
BY DEF ServedToday, ServedRows, DayBounds

(* Two reads of the same differ in what is shown of the label, and of the  *)
(* day figures when they are of two days.                                  *)
LEMMA ReadsAgree ==
  ASSUME NEW cat, NEW w, NEW r, NEW l1, NEW l2, NEW v, NEW h1, NEW h2,
         Snapshot(cat, w, r, l1, v, h1) # NoSnapshot,
         Snapshot(cat, w, r, l2, v, h2) # NoSnapshot
  PROVE  \A e \in (Names(cat) \cup ControlNames(cat)) \ {"label"} :
           \/ StatesOf(cat, Snapshot(cat, w, r, l1, v, h1))[e]
                = StatesOf(cat, Snapshot(cat, w, r, l2, v, h2))[e]
           \/ e \in Intakes /\ DayStart(h1) # DayStart(h2)
<1> DEFINE s == Snapshot(cat, w, r, l1, v, h1)
           t == Snapshot(cat, w, r, l2, v, h2)
<1>0. s # NoSnapshot /\ t # NoSnapshot
  OBVIOUS
<1>1. CASE cat = "petFeeder"
  <2>1. s = FeederSnapshot(w, r, l1, v, h1) /\ t = FeederSnapshot(w, r, l2, v, h2)
    BY <1>1 DEF Snapshot
  <2>2. \A a \in FeederAttributes \ ({"label"} \cup DayFigures) : s[a] = t[a]
    BY <2>1, FeederAlike
  <2>3. DayStart(h1) = DayStart(h2) => \A a \in DayFigures : s[a] = t[a]
    BY <2>1, FeederFigures, ServedOfDay DEF DayFigures
  <2> HIDE DEF s, t
  <2>4. \A e \in FeederNames \ ({"label"} \cup Intakes) :
          SensorsOf("petFeeder", s)[e] = SensorsOf("petFeeder", t)[e]
    BY <1>0, <2>2, FeederSensorsAgree
  <2>5. DayStart(h1) = DayStart(h2) =>
          \A e \in Intakes : SensorsOf("petFeeder", s)[e] = SensorsOf("petFeeder", t)[e]
    BY <1>0, <2>3, FeederIntakesAgree
  <2>6. ControlsOf(cat, s) = ControlsOf(cat, t)
    BY <1>0, <1>1, <2>2, FeederControlsAgree DEF ControlsOf
  <2>7. Names(cat) = FeederNames
    BY <1>1 DEF Names
  <2>8. ASSUME NEW e \in (Names(cat) \cup ControlNames(cat)) \ {"label"}
        PROVE  \/ StatesOf(cat, s)[e] = StatesOf(cat, t)[e]
               \/ e \in Intakes /\ DayStart(h1) # DayStart(h2)
    <3>1. CASE e \in ControlNames(cat)
      <4>1. /\ StatesOf(cat, s)[e] = ControlsOf(cat, s)[e].shows
            /\ StatesOf(cat, t)[e] = ControlsOf(cat, t)[e].shows
        BY <3>1, StatesAre
      <4> QED
        BY <2>6, <4>1
    <3>2. CASE e \in Names(cat)
      <4>1. \A x : StatesOf(cat, x)[e] = SensorsOf(cat, x)[e]
        BY <3>2, StatesAre
      <4> QED
        BY <1>1, <2>4, <2>5, <2>7, <3>2, <4>1
    <3> QED
      BY <3>1, <3>2
  <2> QED
    BY <2>8 DEF s, t
<1>2. CASE cat # "petFeeder"
  <2>1. s = LitterSnapshot(w, r, l1) /\ t = LitterSnapshot(w, r, l2)
    BY <1>2 DEF Snapshot
  <2>2. \A a \in LitterAttributes \ {"label"} : s[a] = t[a]
    BY <2>1, LitterAlike
  <2> HIDE DEF s, t
  <2>3. \A e \in LitterNames \ {"label"} : SensorsOf(cat, s)[e] = SensorsOf(cat, t)[e]
    BY <1>0, <1>2, <2>2, LitterAgree
  <2>4. ControlsOf(cat, s) = ControlsOf(cat, t)
    BY <1>0, <1>2, <2>2, LitterAgree DEF ControlsOf
  <2>5. Names(cat) = LitterNames
    BY <1>2 DEF Names
  <2>6. ASSUME NEW e \in (Names(cat) \cup ControlNames(cat)) \ {"label"}
        PROVE  StatesOf(cat, s)[e] = StatesOf(cat, t)[e]
    <3>1. CASE e \in ControlNames(cat)
      <4>1. /\ StatesOf(cat, s)[e] = ControlsOf(cat, s)[e].shows
            /\ StatesOf(cat, t)[e] = ControlsOf(cat, t)[e].shows
        BY <3>1, StatesAre
      <4> QED
        BY <2>4, <4>1
    <3>2. CASE e \in Names(cat)
      <4>1. \A x : StatesOf(cat, x)[e] = SensorsOf(cat, x)[e]
        BY <3>2, StatesAre
      <4> QED
        BY <2>3, <2>5, <3>2, <4>1
    <3> QED
      BY <3>1, <3>2
  <2> QED
    BY <2>6 DEF s, t
<1> QED
  BY <1>1, <1>2

-----------------------------------------------------------------------------
(* Controls, and what a press writes.                                      *)

(* The objects of the model that a press rewrites, by their wire keys.     *)
ObjectsOf(cat) ==
  IF cat = "petFeeder"
  THEN [fresh_mgr_cfg |-> "freshMgrCfg", display_cfg |-> "displayCfg",
        dnd_cfg |-> "DND_Mode", feed_cfg |-> "defFdCfg", feed_aud_cfg |-> "feedAudCfg"]
  ELSE [clean_cfg |-> "cleanCfg"]

(* And the attributes that a press rewrites which are values.              *)
ValuesOf(cat) ==
  IF cat = "petFeeder"
  THEN [desiccant_days_effective |-> "drierEffeDays",
        last_water_bin_clean |-> "lastWaterBinCleanTime",
        last_food_bin_clean |-> "lastFoodBinCleanTime"]
  ELSE [young_cat_mode |-> "youngCatMode", child_lock |-> "childLockOnOff",
        auto_bury |-> "autoBury", auto_level |-> "autoLevel", silent_mode |-> "silentMode",
        auto_force_init |-> "autoForceInit", b_intrpt_range_det |-> "bIntrptRangeDet"]

(* A value that a read gives as it was written.                            *)
Plain(v, cat) == v \notin {Missing, Junk} /\ (cat # "petFeeder" => v \in Positions)

Chosen(control, cat) == control.field = "value" => \A v \in control.values : Plain(v, cat)

(* A control writes a field that its category has, and notes it in an      *)
(* attribute that its snapshot has.                                        *)
Fits(control, cat) ==
  /\ control.key \in DOMAIN KeysOf(cat)
  /\ control.field \in KeysOf(cat)[control.key]
  /\ control.attr \in AttributesOf(cat) \ ({"label"} \cup DayFigures)
  /\ IF control.field = "value"
     THEN /\ KeysOf(cat)[control.key] = {"value"}
          /\ control.attr \in DOMAIN ValuesOf(cat)
          /\ ValuesOf(cat)[control.attr] = control.key
     ELSE /\ control.attr \in DOMAIN ObjectsOf(cat)
          /\ ObjectsOf(cat)[control.attr] = control.key

LEMMA FeederControlsFit ==
  ASSUME NEW s, NEW c \in FeederControlNames
  PROVE  Fits(FeederControls(s)[c], "petFeeder") /\ Chosen(FeederControls(s)[c], "petFeeder")
<1>k. /\ KeysOf("petFeeder") = FeederKeys
      /\ {"freshMgrCfg", "displayCfg", "DND_Mode", "defFdCfg", "drierEffeDays",
          "feedAudCfg"} \subseteq DOMAIN FeederKeys
      /\ "bOnOff" \in FeederKeys["freshMgrCfg"]
      /\ {"displayType", "displayParam", "bDisplayIfIdle"} \subseteq FeederKeys["displayCfg"]
      /\ "active" \in FeederKeys["DND_Mode"]
      /\ "mixMin" \in FeederKeys["defFdCfg"]
      /\ "volume" \in FeederKeys["feedAudCfg"]
      /\ FeederKeys["drierEffeDays"] = {"value"}
  BY DEF KeysOf, FeederKeys
<1>a. /\ AttributesOf("petFeeder") = FeederAttributes
      /\ {"fresh_mgr_cfg", "display_cfg", "dnd_cfg", "feed_cfg", "feed_aud_cfg",
          "desiccant_days_effective"} \subseteq FeederAttributes \ ({"label"} \cup DayFigures)
  BY DEF AttributesOf, FeederAttributes, DayFigures
<1>o. /\ {"fresh_mgr_cfg", "display_cfg", "dnd_cfg", "feed_cfg", "feed_aud_cfg"}
            \subseteq DOMAIN ObjectsOf("petFeeder")
      /\ ObjectsOf("petFeeder")["fresh_mgr_cfg"] = "freshMgrCfg"
      /\ ObjectsOf("petFeeder")["display_cfg"] = "displayCfg"
      /\ ObjectsOf("petFeeder")["dnd_cfg"] = "DND_Mode"
      /\ ObjectsOf("petFeeder")["feed_cfg"] = "defFdCfg"
      /\ ObjectsOf("petFeeder")["feed_aud_cfg"] = "feedAudCfg"
      /\ "desiccant_days_effective" \in DOMAIN ValuesOf("petFeeder")
      /\ ValuesOf("petFeeder")["desiccant_days_effective"] = "drierEffeDays"
  BY DEF ObjectsOf, ValuesOf
<1> DEFINE control == FeederControls(s)[c]
<1>1. CASE c = "fresh_meal_manager"
  <2>1. control = FreshMealManager(s)
    BY <1>1, FeederControlsAre
  <2>2. control.key = "freshMgrCfg" /\ control.attr = "fresh_mgr_cfg" /\ control.field = "bOnOff"
    BY <2>1 DEF FreshMealManager, Nested
  <2> QED
    BY <1>k, <1>a, <1>o, <2>2 DEF Fits, Chosen
<1>2. CASE c = "display_standby"
  <2>1. control = DisplayStandby(s)
    BY <1>2, FeederControlsAre
  <2>2. control.key = "displayCfg" /\ control.attr = "display_cfg" /\ control.field = "bDisplayIfIdle"
    BY <2>1 DEF DisplayStandby, Nested
  <2> QED
    BY <1>k, <1>a, <1>o, <2>2 DEF Fits, Chosen
<1>3. CASE c = "do_not_disturb"
  <2>1. control = DoNotDisturb(s)
    BY <1>3, FeederControlsAre
  <2>2. control.key = "DND_Mode" /\ control.attr = "dnd_cfg" /\ control.field = "active"
    BY <2>1 DEF DoNotDisturb, Nested
  <2> QED
    BY <1>k, <1>a, <1>o, <2>2 DEF Fits, Chosen
<1>4. CASE c = "rehydration_minutes"
  <2>1. control = RehydrationMinutes(s)
    BY <1>4, FeederControlsAre
  <2>2. control.key = "defFdCfg" /\ control.attr = "feed_cfg" /\ control.field = "mixMin"
    BY <2>1 DEF RehydrationMinutes, Nested
  <2> QED
    BY <1>k, <1>a, <1>o, <2>2 DEF Fits, Chosen
<1>5. CASE c = "desiccant_days"
  <2>1. control = DesiccantDays(s)
    BY <1>5, FeederControlsAre
  <2>2. /\ control.key = "drierEffeDays" /\ control.attr = "desiccant_days_effective"
        /\ control.field = "value" /\ control.values = Days
    BY <2>1 DEF DesiccantDays, Scalar
  <2>3. \A v \in Days : Plain(v, "petFeeder")
    BY NumbersAssumption, WireAssumption DEF Plain
  <2> QED
    BY <1>k, <1>a, <1>o, <2>2, <2>3 DEF Fits, Chosen
<1>6. CASE c = "feed_sound_volume"
  <2>1. control = FeedSoundVolume(s)
    BY <1>6, FeederControlsAre
  <2>2. control.key = "feedAudCfg" /\ control.attr = "feed_aud_cfg" /\ control.field = "volume"
    BY <2>1 DEF FeedSoundVolume, Nested
  <2> QED
    BY <1>k, <1>a, <1>o, <2>2 DEF Fits, Chosen
<1>7. CASE c = "display_standby_kind"
  <2>1. control = DisplayStandbyKind(s)
    BY <1>7, FeederControlsAre
  <2>2. control.key = "displayCfg" /\ control.attr = "display_cfg" /\ control.field = "displayType"
    BY <2>1 DEF DisplayStandbyKind, Nested
  <2> QED
    BY <1>k, <1>a, <1>o, <2>2 DEF Fits, Chosen
<1>8. CASE c = "display_custom_message"
  <2>1. control = DisplayCustomMessage(s)
    BY <1>8, FeederControlsAre
  <2>2. control.key = "displayCfg" /\ control.attr = "display_cfg" /\ control.field = "displayParam"
    <3>1. \E shows, values :
            DisplayCustomMessage(s)
              = Nested(shows, "displayCfg", "display_cfg", "displayParam", values)
      BY DEF DisplayCustomMessage
    <3> QED
      BY <2>1, <3>1 DEF Nested
  <2> QED
    BY <1>k, <1>a, <1>o, <2>2 DEF Fits, Chosen
<1> QED
  BY <1>1, <1>2, <1>3, <1>4, <1>5, <1>6, <1>7, <1>8 DEF FeederControlNames

LEMMA LitterControlsFit ==
  ASSUME NEW s, NEW c \in LitterControlNames, NEW cat, cat # "petFeeder"
  PROVE  Fits(LitterControls(s)[c], cat) /\ Chosen(LitterControls(s)[c], cat)
<1>0. \A v \in Positions : Plain(v, cat)
  BY WireAssumption DEF Plain, Positions
<1> USE <1>0 DEF Fits, Chosen, KeysOf, AttributesOf, ObjectsOf, ValuesOf, LitterKeys,
                 LitterAttributes, DayFigures, Nested, Scalar, LitterControls
<1>1. CASE c = "auto_clean"
  BY <1>1 DEF AutoClean
<1>2. CASE c = "young_cat_mode"
  BY <1>2 DEF YoungCatMode
<1>3. CASE c = "child_lock"
  BY <1>3 DEF ChildLock
<1>4. CASE c = "auto_bury"
  BY <1>4 DEF AutoBury
<1>5. CASE c = "auto_level"
  BY <1>5 DEF AutoLevel
<1>6. CASE c = "silent_mode"
  BY <1>6 DEF SilentMode
<1>7. CASE c = "auto_recovery"
  BY <1>7 DEF AutoRecovery
<1>8. CASE c = "unstoppable_cycle"
  BY <1>8 DEF UnstoppableCycle
<1> QED
  BY <1>1, <1>2, <1>3, <1>4, <1>5, <1>6, <1>7, <1>8 DEF LitterControlNames

LEMMA ControlsFit ==
  \A cat, s : \A c \in ControlNames(cat) :
    Fits(ControlsOf(cat, s)[c], cat) /\ Chosen(ControlsOf(cat, s)[c], cat)
BY FeederControlsFit, LitterControlsFit DEF ControlNames, ControlsOf

-----------------------------------------------------------------------------
(* The steps.                                                              *)

(* An object states the fields of its key.                                 *)
Object(o, fields) == o = [f \in fields |-> o[f]]

(* The objects of the model that a press rewrites are objects.             *)
ObjectsHeld ==
  data # NoSnapshot =>
    \A attr \in DOMAIN ObjectsOf(category) :
      Object(data[attr], KeysOf(category)[ObjectsOf(category)[attr]])

Typed == TypeOK /\ ObjectsHeld

LEMMA ShapedIs ==
  ASSUME NEW m, NEW keys, Shaped(m, keys)
  PROVE  /\ DOMAIN m = DOMAIN keys
         /\ \A k \in DOMAIN keys : Object(m[k], keys[k]) /\ DOMAIN m[k] = keys[k]
BY DEF Shaped, Object

LEMMA ShapedWrite ==
  ASSUME NEW m, NEW keys, Shaped(m, keys), NEW k \in DOMAIN keys, NEW o, Object(o, keys[k])
  PROVE  Shaped([m EXCEPT ![k] = o], keys)
<1> DEFINE n == [m EXCEPT ![k] = o]
<1>1. DOMAIN n = DOMAIN keys /\ n[k] = o /\ \A j \in DOMAIN keys : j # k => n[j] = m[j]
  BY ShapedIs
<1>2. n = [j \in DOMAIN keys |-> n[j]]
  BY ShapedIs
<1>3. \A j \in DOMAIN keys : n[j] = [f \in keys[j] |-> n[j][f]]
  BY <1>1, ShapedIs DEF Object
<1> HIDE DEF n
<1>4. Shaped(n, keys)
  BY <1>2, <1>3 DEF Shaped
<1> QED
  BY <1>4 DEF n

LEMMA ShapedField ==
  ASSUME NEW m, NEW keys, Shaped(m, keys), NEW k \in DOMAIN keys, NEW f, NEW v
  PROVE  Shaped([m EXCEPT ![k][f] = v], keys)
<1> DEFINE o == [m[k] EXCEPT ![f] = v]
<1>1. [m EXCEPT ![k][f] = v] = [m EXCEPT ![k] = o]
  BY ShapedIs
<1>2. Object(o, keys[k])
  <2>1. Object(m[k], keys[k]) /\ DOMAIN m[k] = keys[k]
    BY ShapedIs
  <2>2. DOMAIN o = keys[k] /\ o = [g \in DOMAIN o |-> o[g]]
    BY <2>1
  <2> QED
    BY <2>2 DEF Object
<1> HIDE DEF o
<1>3. Shaped([m EXCEPT ![k] = o], keys)
  BY <1>2, ShapedWrite
<1> QED
  BY <1>1, <1>3

(* A press that writes an object, or a value: it moves its own field, and  *)
(* carries what the machine states beside it unless that is nothing, and   *)
(* leaves no field unstated that is stated.                                *)
Writing(control, payload) ==
  /\ Press
  /\ Fits(control, category)
  /\ Object(payload, KeysOf(category)[control.key])
  /\ \/ \A f \in KeysOf(category)[control.key] : machine[control.key][f] = Missing
     \/ \A f \in KeysOf(category)[control.key] \ {control.field} :
          payload[f] = machine[control.key][f]
  /\ \A f \in KeysOf(category)[control.key] :
       payload[f] = Missing => machine[control.key][f] = Missing
  /\ control.field = "value" => Plain(payload.value, category)
  /\ Write(control, payload)

ServiceKeys == {"bucketStatus", "leftDrierDays", "bowlStatus"}

(* A press that asks for a service, which moves one field or nothing.      *)
Serving ==
  /\ Service
  /\ \/ machine' = machine
     \/ \E k \in ServiceKeys \cap DOMAIN KeysOf(category) :
          \E f \in KeysOf(category)[k] : \E v : machine' = [machine EXCEPT ![k][f] = v]

(* The configuration objects whose fields are noted beside them.           *)
NestedKeys == {"displayCfg", "freshMgrCfg", "feedAudCfg", "defFdCfg"}

(* A change that comes from elsewhere.                                     *)
Elsewhere ==
  /\ Change
  /\ Shaped(machine', KeysOf(category))
  /\ label' \in Labels \cup {None}
  /\ Feeder => \A k \in NestedKeys : \A f \in FeederKeys[k] :
                 machine'[k][f] = Missing => machine[k][f] = Missing
  /\ Feeder => \A row \in records' \ records : row.feed_time \in {now, now * MilliPerHour}

(* What a control asks for and what the merge makes of it.                 *)
LEMMA MergeMovesOne ==
  ASSUME Typed, NEW control, Fits(control, category), control.field # "value", NEW to
  PROVE  LET payload == Merge(control, Asked(control, to), machine[control.key])
             fields == KeysOf(category)[control.key]
         IN  /\ Object(payload, fields)
             /\ \/ \A f \in fields : machine[control.key][f] = Missing
                \/ \A f \in fields \ {control.field} : payload[f] = machine[control.key][f]
             /\ \A f \in fields : payload[f] = Missing => machine[control.key][f] = Missing
<1> DEFINE fields == KeysOf(category)[control.key]
           stated == machine[control.key]
           asked == Asked(control, to)
           payload == Merge(control, asked, stated)
<1>1. DOMAIN stated = fields /\ Object(stated, fields)
  BY ShapedIs DEF Typed, TypeOK, Fits
<1>2. /\ Object(asked, fields)
      /\ \A f \in fields \ {control.field} :
           IF data = NoSnapshot THEN asked[f] = Missing ELSE asked[f] = data[control.attr][f]
  <2>1. CASE data = NoSnapshot
    <3>1. asked = [[f \in fields |-> Missing] EXCEPT ![control.field] = to]
      BY <1>1, <2>1 DEF Asked
    <3> QED
      BY <2>1, <3>1 DEF Object
  <2>2. CASE data # NoSnapshot
    <3>1. asked = [data[control.attr] EXCEPT ![control.field] = to]
      BY <2>2 DEF Asked
    <3>2. Object(data[control.attr], fields)
      BY <2>2 DEF Typed, ObjectsHeld, Fits
    <3> HIDE DEF fields, asked
    <3> QED
      BY <2>2, <3>1, <3>2 DEF Object
  <2> QED
    BY <2>1, <2>2
<1> HIDE DEF fields, stated, asked
<1>3. CASE \A f \in fields : stated[f] = Missing
  <2>1. payload = asked
    BY <1>1, <1>3 DEF Merge
  <2> QED
    BY <1>2, <1>3, <2>1 DEF fields, stated, asked
<1>4. CASE ~\A f \in fields : stated[f] = Missing
  <2>1. payload = [f \in fields |->
                     IF asked[f] # Missing
                        /\ (data = NoSnapshot \/ asked[f] # data[control.attr][f])
                     THEN asked[f] ELSE stated[f]]
    BY <1>1, <1>4 DEF Merge
  <2>2. Object(payload, fields)
    BY <2>1 DEF Object
  <2>3. \A f \in fields \ {control.field} : payload[f] = stated[f]
    BY <1>2, <2>1
  <2>4. \A f \in fields : payload[f] = Missing => stated[f] = Missing
    BY <2>1
  <2> QED
    BY <2>2, <2>3, <2>4 DEF fields, stated, asked
<1> QED
  BY <1>3, <1>4

(* Every step is one of six.                                               *)
LEMMA Steps ==
  ASSUME Typed, Next
  PROVE  \/ \E control, payload : Writing(control, payload)
         \/ Serving
         \/ Elsewhere
         \/ HourPasses
         \/ Scan
         \/ LeftOut
<1> DEFINE keys == KeysOf(category)
<1>0. Shaped(machine, keys) /\ label \in Labels \cup {None} /\ category \in DOMAIN States
  BY DEF Typed, TypeOK
<1>1. ASSUME NEW c \in ControlNames(category), NEW to \in ControlsOf(category, data)[c].values,
             Set(ControlsOf(category, data)[c], to)
      PROVE  \E control, payload : Writing(control, payload)
  <2> DEFINE control == ControlsOf(category, data)[c]
             merged == Merge(control, Asked(control, to), machine[control.key])
             payload == IF control.field = "value" THEN [value |-> to] ELSE merged
  <2>1. Fits(control, category) /\ (control.field = "value" => Plain(to, category))
    BY ControlsFit DEF Chosen
  <2> HIDE DEF control
  <2>2. Press /\ Write(control, payload)
    BY <1>1 DEF Set, control
  <2>3. CASE control.field = "value"
    <3>1. payload = [value |-> to] /\ keys[control.key] = {"value"}
      BY <2>1, <2>3 DEF Fits
    <3>2. Object(payload, keys[control.key])
      BY <3>1 DEF Object
    <3>3. keys[control.key] \ {control.field} = {}
      BY <2>3, <3>1
    <3>p. Plain(payload.value, category)
      BY <2>1, <2>3, <3>1
    <3>m. \A f \in keys[control.key] : payload[f] # Missing
      BY <3>1, <3>p DEF Plain
    <3> HIDE DEF payload, keys
    <3>4. Writing(control, payload)
      BY <2>1, <2>2, <3>2, <3>3, <3>p, <3>m DEF Writing, keys
    <3> QED
      BY <3>4
  <2>4. CASE control.field # "value"
    <3>1. payload = merged
      BY <2>4
    <3>2. Writing(control, payload)
      BY <2>1, <2>2, <2>4, <3>1, MergeMovesOne DEF Writing
    <3> QED
      BY <3>2
  <2> QED
    BY <2>3, <2>4
<1>2. ASSUME MarkWaterBinClean \/ MarkFoodBinClean
      PROVE  \E control, payload : Writing(control, payload)
  <2> DEFINE water == [key |-> "lastWaterBinCleanTime", attr |-> "last_water_bin_clean",
                       field |-> "value"]
             food == [key |-> "lastFoodBinCleanTime", attr |-> "last_food_bin_clean",
                      field |-> "value"]
             payload == [value |-> now]
  <2>1. Feeder /\ Press /\ (Write(water, payload) \/ Write(food, payload))
    BY <1>2 DEF MarkWaterBinClean, MarkFoodBinClean, MarkBinClean
  <2>2. Fits(water, category) /\ Fits(food, category)
    <3>1. /\ {"lastWaterBinCleanTime", "lastFoodBinCleanTime"} \subseteq DOMAIN FeederKeys
          /\ FeederKeys["lastWaterBinCleanTime"] = {"value"}
          /\ FeederKeys["lastFoodBinCleanTime"] = {"value"}
      BY DEF FeederKeys
    <3>2. {"last_water_bin_clean", "last_food_bin_clean"}
            \subseteq FeederAttributes \ ({"label"} \cup DayFigures)
      BY DEF FeederAttributes, DayFigures
    <3>3. /\ {"last_water_bin_clean", "last_food_bin_clean"} \subseteq DOMAIN ValuesOf("petFeeder")
          /\ ValuesOf("petFeeder")["last_water_bin_clean"] = "lastWaterBinCleanTime"
          /\ ValuesOf("petFeeder")["last_food_bin_clean"] = "lastFoodBinCleanTime"
      BY DEF ValuesOf
    <3> QED
      BY <2>1, <3>1, <3>2, <3>3 DEF Feeder, Fits, KeysOf, AttributesOf
  <2>3. ASSUME NEW control \in {water, food}, Write(control, payload)
        PROVE  Writing(control, payload)
    <3>1. Fits(control, category) /\ control.field = "value"
      BY <2>2
    <3>2. keys[control.key] = {"value"}
      BY <3>1 DEF Fits
    <3>3. Object(payload, keys[control.key]) /\ keys[control.key] \ {control.field} = {}
      BY <3>1, <3>2 DEF Object
    <3>4. Plain(payload.value, category)
      <4>1. now \in Nat
        BY HoursAssumption DEF Typed, TypeOK
      <4> QED
        BY <2>1, <4>1, WireAssumption DEF Plain, Feeder
    <3>5. \A f \in keys[control.key] : payload[f] # Missing
      BY <3>2, <3>4 DEF Plain
    <3> HIDE DEF payload, keys, water, food
    <3> QED
      BY <2>1, <2>3, <3>1, <3>3, <3>4, <3>5 DEF Writing, keys
  <2> QED
    BY <2>1, <2>3
<1>3. ASSUME Clean \/ Level PROVE Serving
  <2>1. PICK status : Cycle(status)
    BY <1>3 DEF Clean, Level
  <2>2. /\ Service
        /\ machine' = [machine EXCEPT !["bucketStatus"]["value"] = status]
        /\ category # "petFeeder"
    BY <2>1 DEF Cycle, Feeder
  <2>3. "bucketStatus" \in DOMAIN keys /\ "value" \in keys["bucketStatus"]
    BY <2>2 DEF KeysOf, LitterKeys
  <2> QED
    BY <2>2, <2>3 DEF Serving, ServiceKeys
<1>4. ASSUME ResetDesiccant \/ ResetBowlScale \/ CalibrateFoodScale PROVE Serving
  <2>1. category = "petFeeder"
    BY <1>4 DEF ResetDesiccant, ResetBowlScale, CalibrateFoodScale, Feeder
  <2>2. /\ "leftDrierDays" \in DOMAIN keys /\ "value" \in keys["leftDrierDays"]
        /\ "bowlStatus" \in DOMAIN keys /\ "bowlGram" \in keys["bowlStatus"]
    BY <2>1 DEF KeysOf, FeederKeys
  <2>3. /\ Service
        /\ \/ machine' = machine
           \/ \E v : machine' = [machine EXCEPT !["leftDrierDays"]["value"] = v]
           \/ \E v : machine' = [machine EXCEPT !["bowlStatus"]["bowlGram"] = v]
    BY <1>4 DEF ResetDesiccant, ResetBowlScale, CalibrateFoodScale, RequestDesiccantReset,
                RequestBowlScaleReset, FeederService
  <2> QED
    BY <2>2, <2>3 DEF Serving, ServiceKeys
<1>5. ASSUME NEW s \in Settings[category], AppSets(s) PROVE Elsewhere
  <2>1. s.key \in DOMAIN keys
    BY <1>0, SettingsAssumption
  <2>2. Shaped(machine', keys)
    BY <1>0, <1>5, <2>1, ShapedField DEF AppSets
  <2>3. ASSUME Feeder, NEW k \in NestedKeys, NEW f \in FeederKeys[k], machine'[k][f] = Missing
        PROVE  machine[k][f] = Missing
    <3>1. machine' = [machine EXCEPT ![s.key][s.field] = s.to]
      BY <1>5 DEF AppSets
    <3>2. s.to = Missing => s.key # k
      BY <1>0, <2>3, SettingsAssumption DEF NestedKeys
    <3>3. k \in DOMAIN machine /\ DOMAIN machine[k] = FeederKeys[k]
      <4>1. k \in DOMAIN FeederKeys
        BY <2>3 DEF NestedKeys, FeederKeys
      <4>2. keys = FeederKeys
        BY <2>3 DEF Feeder, KeysOf
      <4> HIDE DEF keys
      <4> QED
        BY <1>0, <4>1, <4>2, ShapedIs
    <3> QED
      BY <2>3, <3>1, <3>2, <3>3
  <2> QED
    BY <1>0, <1>5, <2>2, <2>3 DEF AppSets, Elsewhere
<1>6. ASSUME NEW name \in Labels, AppRelabels(name) PROVE Elsewhere
  BY <1>0, <1>6 DEF AppRelabels, Elsewhere
<1>7. ASSUME NEW meal \in Meals, MealServed(meal) PROVE Elsewhere
  <2>1. PICK stated \in {now, now * MilliPerHour} :
          records' = records \cup {[id |-> changes', feed_time |-> stated,
                                    feed_weight |-> meal.feed_weight,
                                    water_weight |-> meal.water_weight]}
    BY <1>7 DEF MealServed
  <2>2. \A row \in records' \ records : row.feed_time = stated
    BY <2>1
  <2> QED
    BY <1>0, <1>7, <2>2 DEF MealServed, Elsewhere
<1>8. ASSUME NEW use \in Uses, CatUses(use) PROVE Elsewhere
  <2>1. ~Feeder /\ Change /\ label' = label
        /\ machine' = [machine EXCEPT !["catLeft"]["time"] = changes + 1]
    BY <1>8 DEF CatUses
  <2>2. "catLeft" \in DOMAIN keys
    BY <2>1 DEF KeysOf, LitterKeys, Feeder
  <2>3. Shaped(machine', keys)
    BY <1>0, <2>1, <2>2, ShapedField
  <2> QED
    BY <1>0, <2>1, <2>3 DEF Elsewhere
<1>9. ASSUME NEW answer \in Weighings, ScaleAnswers(answer) PROVE Elsewhere
  BY <1>0, <1>9 DEF ScaleAnswers, Elsewhere
<1>10. ASSUME NEW c \in DOMAIN ControlsOf(category, data),
              NEW to \in ControlsOf(category, data)[c].values,
              Set(ControlsOf(category, data)[c], to)
       PROVE  \E control, payload : Writing(control, payload)
  BY <1>1, <1>10, ControlsDomain
<1> QED
  BY <1>2, <1>3, <1>4, <1>5, <1>6, <1>7, <1>8, <1>9, <1>10 DEF Next

-----------------------------------------------------------------------------
(* What a step makes of the model and of what is shown.                    *)

MirrorAttributes ==
  {"display_type", "display_param", "display_when_idle", "fresh_mgr_on", "sound_volume",
   "mix_min_minutes"}

LEMMA MirrorsAre ==
  \A attr : \A f \in DOMAIN Mirrored(attr) : Mirrored(attr)[f] \in MirrorAttributes
<1> SUFFICES ASSUME NEW attr, NEW f \in DOMAIN Mirrored(attr)
             PROVE  Mirrored(attr)[f] \in MirrorAttributes
  OBVIOUS
<1>1. attr \in DOMAIN NestedModelFields
  <2>1. CASE attr \notin DOMAIN NestedModelFields
    <3>1. Mirrored(attr) = <<>>
      BY <2>1 DEF Mirrored
    <3>2. DOMAIN <<>> = {}
      OBVIOUS
    <3> QED
      BY <3>1, <3>2
  <2> QED
    BY <2>1
<1>2. attr \in {"display_cfg", "fresh_mgr_cfg", "feed_aud_cfg", "feed_cfg"}
  BY <1>1 DEF NestedModelFields
<1>3. Mirrored(attr) = NestedModelFields[attr]
  BY <1>1 DEF Mirrored
<1> QED
  BY <1>2, <1>3 DEF NestedModelFields, MirrorAttributes

(* A written object is noted, and nothing else but what mirrors it.        *)
LEMMA NoteIs ==
  ASSUME NEW s, NEW control, NEW payload
  PROVE  /\ DOMAIN NoteWritten(s, control, payload) = DOMAIN s
         /\ \A a \in DOMAIN s \ MirrorAttributes :
              NoteWritten(s, control, payload)[a] = IF a = control.attr THEN payload ELSE s[a]
<1> DEFINE mirror == Mirrored(control.attr)
           fields == {f \in DOMAIN mirror \cap DOMAIN payload : payload[f] # Missing}
<1>1. NoteWritten(s, control, payload)
        = [a \in DOMAIN s |->
             IF a = control.attr THEN payload
             ELSE IF \E f \in fields : mirror[f] = a
             THEN Converted(a, payload[CHOOSE f \in fields : mirror[f] = a])
             ELSE s[a]]
  BY DEF NoteWritten
<1>2. \A f \in fields : mirror[f] \in MirrorAttributes
  BY MirrorsAre
<1> HIDE DEF mirror, fields
<1> QED
  BY <1>1, <1>2

LEMMA NotMirrors ==
  /\ DayFigures \cap MirrorAttributes = {}
  /\ \A cat : DOMAIN ObjectsOf(cat) \cap MirrorAttributes = {}
  /\ \A cat : DOMAIN ObjectsOf(cat) \subseteq AttributesOf(cat)
  /\ \A cat : DOMAIN ObjectsOf(cat) \cap DayFigures = {}
BY DEF DayFigures, MirrorAttributes, ObjectsOf, AttributesOf, FeederAttributes,
       LitterAttributes

LEMMA ValuesApart ==
  \A cat : DOMAIN ValuesOf(cat) \cap (DOMAIN ObjectsOf(cat) \cup MirrorAttributes) = {}
BY DEF ValuesOf, ObjectsOf, MirrorAttributes

(* A press leaves the model with the objects it holds and its day figures. *)
LEMMA WriteIs ==
  ASSUME Typed, NEW control, NEW payload, Writing(control, payload), data # NoSnapshot
  PROVE  /\ DOMAIN data' = AttributesOf(category)
         /\ \A attr \in DOMAIN ObjectsOf(category) :
              Object(data'[attr], KeysOf(category)[ObjectsOf(category)[attr]])
         /\ \A a \in DayFigures \cap AttributesOf(category) : data'[a] = data[a]
<1>1. DOMAIN data = AttributesOf(category)
  BY AttributesAre DEF Typed, TypeOK
<1>2. \A attr \in DOMAIN ObjectsOf(category) :
        Object(data[attr], KeysOf(category)[ObjectsOf(category)[attr]])
  BY DEF Typed, ObjectsHeld
<1>3. /\ Fits(control, category)
      /\ Object(payload, KeysOf(category)[control.key])
      /\ data' = IF control.field = "value"
                 THEN [data EXCEPT ![control.attr] = payload.value]
                 ELSE NoteWritten(data, control, payload)
  BY DEF Writing, Write
<1>4. control.attr \in AttributesOf(category) /\ control.attr \notin DayFigures
  BY <1>3 DEF Fits
<1>5. CASE control.field = "value"
  <2>1. data' = [data EXCEPT ![control.attr] = payload.value]
    BY <1>3, <1>5
  <2>2. control.attr \notin DOMAIN ObjectsOf(category)
    BY <1>3, <1>5, ValuesApart DEF Fits
  <2>3. DOMAIN data' = DOMAIN data /\ \A a \in DOMAIN data : a # control.attr => data'[a] = data[a]
    BY <2>1
  <2> QED
    BY <1>1, <1>2, <1>4, <2>2, <2>3, NotMirrors
<1>6. CASE control.field # "value"
  <2>1. data' = NoteWritten(data, control, payload)
    BY <1>3, <1>6
  <2>2. /\ control.attr \in DOMAIN ObjectsOf(category)
        /\ ObjectsOf(category)[control.attr] = control.key
    BY <1>3, <1>6 DEF Fits
  <2>3. DOMAIN data' = DOMAIN data
        /\ \A a \in DOMAIN data \ MirrorAttributes :
             data'[a] = IF a = control.attr THEN payload ELSE data[a]
    BY <2>1, NoteIs
  <2> QED
    BY <1>1, <1>2, <1>3, <1>4, <2>2, <2>3, NotMirrors
<1> QED
  BY <1>5, <1>6

(* A read of the machine gives a model with the objects it should hold.    *)
LEMMA ReadHolds ==
  ASSUME NEW cat, NEW m, Shaped(m, KeysOf(cat)), NEW r, NEW l, NEW v, NEW h
  PROVE  \A attr \in DOMAIN ObjectsOf(cat) :
           Object(Snapshot(cat, m, r, l, v, h)[attr], KeysOf(cat)[ObjectsOf(cat)[attr]])
<1> DEFINE s == Snapshot(cat, m, r, l, v, h)
<1>1. \A attr \in DOMAIN ObjectsOf(cat) :
        s[attr] = m[ObjectsOf(cat)[attr]] /\ ObjectsOf(cat)[attr] \in DOMAIN KeysOf(cat)
  <2>1. CASE cat = "petFeeder"
    <3>1. s = FeederSnapshot(m, r, l, v, h)
      BY <2>1 DEF Snapshot
    <3>2. /\ s["fresh_mgr_cfg"] = m["freshMgrCfg"] /\ s["display_cfg"] = m["displayCfg"]
          /\ s["dnd_cfg"] = m["DND_Mode"] /\ s["feed_cfg"] = m["defFdCfg"]
          /\ s["feed_aud_cfg"] = m["feedAudCfg"]
      BY <3>1 DEF FeederSnapshot
    <3>3. {"freshMgrCfg", "displayCfg", "DND_Mode", "defFdCfg", "feedAudCfg"}
            \subseteq DOMAIN KeysOf(cat)
      BY <2>1 DEF KeysOf, FeederKeys
    <3> HIDE DEF s
    <3> QED
      BY <2>1, <3>2, <3>3 DEF ObjectsOf
  <2>2. CASE cat # "petFeeder"
    <3>1. s = LitterSnapshot(m, r, l)
      BY <2>2 DEF Snapshot
    <3>2. s["clean_cfg"] = m["cleanCfg"]
      BY <3>1 DEF LitterSnapshot
    <3>3. "cleanCfg" \in DOMAIN KeysOf(cat)
      BY <2>2 DEF KeysOf, LitterKeys
    <3> HIDE DEF s
    <3> QED
      BY <2>2, <3>2, <3>3 DEF ObjectsOf
  <2> QED
    BY <2>1, <2>2
<1> HIDE DEF s
<1>2. \A attr \in DOMAIN ObjectsOf(cat) : Object(s[attr], KeysOf(cat)[ObjectsOf(cat)[attr]])
  BY <1>1, ShapedIs
<1> QED
  BY <1>2 DEF s

LEMMA ReportIs ==
  ASSUME Report
  PROVE  \/ /\ UNCHANGED entities
            /\ Fingerprint = noted /\ Fingerprint # NoStamp
         \/ /\ shown' = StatesOf(category, data')
            /\ noted' = Fingerprint
            /\ reported' = now
BY DEF Report

(* What entities show has the names of the category.                       *)
LEMMA ReportNames ==
  ASSUME Typed, category' = category, UNCHANGED entities \/ Report
  PROVE  /\ DOMAIN shown' = DOMAIN StatesOf(category', data')
         /\ reported' \in Hours
<1>1. \A s : DOMAIN StatesOf(category, s) = Names(category) \cup ControlNames(category)
  BY StatesAre
<1>2. DOMAIN shown = DOMAIN StatesOf(category, data) /\ reported \in Hours /\ now \in Hours
  BY DEF Typed, TypeOK
<1>3. CASE UNCHANGED entities
  <2>1. shown' = shown /\ reported' = reported
    BY <1>3 DEF entities
  <2> QED
    BY <1>1, <1>2, <2>1
<1>4. CASE Report
  BY <1>1, <1>2, <1>3, <1>4, ReportIs
<1> QED
  BY <1>3, <1>4

-----------------------------------------------------------------------------
(* The types.                                                              *)

LEMMA InitTyped == Init => Typed
<1> SUFFICES ASSUME Init PROVE Typed
  OBVIOUS
<1>1. category \in DOMAIN States /\ now \in Hours /\ Shaped(machine, KeysOf(category))
  BY StatesAssumption DEF Init
<1>2. data = Snapshot(category, machine, records, label, live, now)
  BY DEF Init
<1>3. DOMAIN data = Attributes(category)
  BY <1>2, SnapshotDomain, AttributesAre
<1>4. ObjectsHeld
  BY <1>1, <1>2, ReadHolds DEF ObjectsHeld
<1>5. DOMAIN shown = DOMAIN StatesOf(category, data)
  BY DEF Init
<1>6. label = None /\ {built, reported} \subseteq Hours
  BY <1>1 DEF Init
<1>7. presses \in 0 .. MaxPresses /\ changes \in 0 .. MaxChanges
  BY CountsAssumption DEF Init
<1> QED
  BY <1>1, <1>3, <1>4, <1>5, <1>6, <1>7 DEF Typed, TypeOK

LEMMA WritingTyped ==
  ASSUME Typed, NEW control, NEW payload, Writing(control, payload)
  PROVE  Typed'
<1>0. /\ category \in DOMAIN States /\ now \in Hours /\ Shaped(machine, KeysOf(category))
      /\ label \in Labels \cup {None} /\ built \in Hours
      /\ data = NoSnapshot \/ DOMAIN data = Attributes(category)
      /\ presses \in 0 .. MaxPresses /\ changes \in 0 .. MaxChanges
  BY DEF Typed, TypeOK
<1>1. /\ Fits(control, category) /\ Object(payload, KeysOf(category)[control.key])
      /\ presses < MaxPresses /\ presses' = presses + 1
      /\ machine' = [machine EXCEPT ![control.key] = payload]
      /\ UNCHANGED <<category, label, now, built, changes>>
      /\ IF data = NoSnapshot THEN UNCHANGED <<data, stamp, entities>> ELSE Report
  BY DEF Writing, Write, Press
<1>2. Shaped(machine', KeysOf(category))
  BY <1>0, <1>1, ShapedWrite DEF Fits
<1>3. data' = NoSnapshot \/ DOMAIN data' = Attributes(category)
  BY <1>1, WriteIs, AttributesAre
<1>4. ObjectsHeld'
  <2>1. data' # NoSnapshot =>
          \A attr \in DOMAIN ObjectsOf(category) :
            Object(data'[attr], KeysOf(category)[ObjectsOf(category)[attr]])
    BY <1>1, WriteIs
  <2> QED
    BY <1>1, <2>1 DEF ObjectsHeld
<1>5. DOMAIN shown' = DOMAIN StatesOf(category', data') /\ reported' \in Hours
  BY <1>1, ReportNames
<1>6. presses' \in 0 .. MaxPresses
  BY <1>0, <1>1, CountsAssumption
<1> QED
  BY <1>0, <1>1, <1>2, <1>3, <1>4, <1>5, <1>6 DEF Typed, TypeOK

LEMMA ServingTyped ==
  ASSUME Typed, Serving
  PROVE  Typed'
<1>0. /\ category \in DOMAIN States /\ now \in Hours /\ Shaped(machine, KeysOf(category))
      /\ label \in Labels \cup {None} /\ built \in Hours
      /\ data = NoSnapshot \/ DOMAIN data = Attributes(category)
      /\ presses \in 0 .. MaxPresses /\ changes \in 0 .. MaxChanges
  BY DEF Typed, TypeOK
<1>1. /\ presses < MaxPresses /\ presses' = presses + 1
      /\ UNCHANGED <<category, label, now, built, changes, data>>
      /\ UNCHANGED entities \/ Report
  BY DEF Serving, Service, Press
<1>2. Shaped(machine', KeysOf(category))
  BY <1>0, ShapedField DEF Serving
<1>3. DOMAIN shown' = DOMAIN StatesOf(category', data') /\ reported' \in Hours
  BY <1>1, ReportNames
<1>4. presses' \in 0 .. MaxPresses
  BY <1>0, <1>1, CountsAssumption
<1>5. ObjectsHeld'
  BY <1>1 DEF Typed, ObjectsHeld
<1> QED
  BY <1>0, <1>1, <1>2, <1>3, <1>4, <1>5 DEF Typed, TypeOK

LEMMA ElsewhereTyped ==
  ASSUME Typed, Elsewhere
  PROVE  Typed'
<1>1. /\ changes < MaxChanges /\ changes' = changes + 1
      /\ UNCHANGED <<category, now, data, built, shown, reported, presses>>
      /\ Shaped(machine', KeysOf(category)) /\ label' \in Labels \cup {None}
  BY DEF Elsewhere, Change, model, entities
<1>2. changes' \in 0 .. MaxChanges
  BY <1>1, CountsAssumption DEF Typed, TypeOK
<1>3. ObjectsHeld'
  BY <1>1 DEF Typed, ObjectsHeld
<1> QED
  BY <1>1, <1>2, <1>3 DEF Typed, TypeOK

LEMMA HourPassesTyped ==
  ASSUME Typed, HourPasses
  PROVE  Typed'
<1>1. /\ now' \in Hours
      /\ UNCHANGED <<category, machine, label, data, built, shown, reported, presses, changes>>
  BY DEF HourPasses, wire, model, entities
<1>2. ObjectsHeld'
  BY <1>1 DEF Typed, ObjectsHeld
<1> QED
  BY <1>1, <1>2 DEF Typed, TypeOK

LEMMA ScanTyped ==
  ASSUME Typed, Scan
  PROVE  Typed'
<1>1. /\ data' = Snapshot(category, machine, held', label, live, now)
      /\ built' = now
      /\ Report
      /\ UNCHANGED <<category, machine, label, now, presses, changes>>
  BY DEF Scan, wire
<1>2. DOMAIN data' = Attributes(category)
  BY <1>1, SnapshotDomain, AttributesAre
<1>3. ObjectsHeld'
  <2>1. Shaped(machine, KeysOf(category))
    BY DEF Typed, TypeOK
  <2>2. \A attr \in DOMAIN ObjectsOf(category) :
          Object(data'[attr], KeysOf(category)[ObjectsOf(category)[attr]])
    BY <1>1, <2>1, ReadHolds
  <2> QED
    BY <1>1, <2>2 DEF ObjectsHeld
<1>4. DOMAIN shown' = DOMAIN StatesOf(category', data') /\ reported' \in Hours
  BY <1>1, ReportNames
<1> QED
  BY <1>1, <1>2, <1>3, <1>4 DEF Typed, TypeOK

LEMMA LeftOutTyped ==
  ASSUME Typed, LeftOut
  PROVE  Typed'
<1>1. /\ data' = NoSnapshot
      /\ Report
      /\ UNCHANGED <<category, machine, label, now, built, presses, changes>>
  BY DEF LeftOut, wire
<1>2. ObjectsHeld'
  BY <1>1 DEF ObjectsHeld
<1>3. DOMAIN shown' = DOMAIN StatesOf(category', data') /\ reported' \in Hours
  BY <1>1, ReportNames
<1> QED
  BY <1>1, <1>2, <1>3 DEF Typed, TypeOK

LEMMA StepTyped == Typed /\ [Next]_vars => Typed'
<1> SUFFICES ASSUME Typed, [Next]_vars PROVE Typed'
  OBVIOUS
<1>1. CASE Next
  BY <1>1, Steps, WritingTyped, ServingTyped, ElsewhereTyped, HourPassesTyped, ScanTyped,
     LeftOutTyped
<1>2. CASE UNCHANGED vars
  <2>1. UNCHANGED <<category, now, machine, label, data, built, shown, reported, presses,
                    changes>>
    BY <1>2 DEF vars, wire, model, entities
  <2>2. ObjectsHeld'
    BY <2>1 DEF Typed, ObjectsHeld
  <2> QED
    BY <2>1, <2>2 DEF Typed, TypeOK
<1> QED
  BY <1>1, <1>2

LEMMA SpecTyped == Spec => []Typed
BY InitTyped, StepTyped, PTL DEF Spec

(* The types: machine and model keep the shape of their category through   *)
(* every press, service, scan and change, and the entities their names.    *)
THEOREM TypeCorrect == Spec => []TypeOK
<1>1. Typed => TypeOK
  BY DEF Typed
<1> QED
  BY <1>1, SpecTyped, PTL

-----------------------------------------------------------------------------
(* A press moves one field.                                                *)

LEMMA WritingMovesOne ==
  ASSUME Typed, NEW control, NEW payload, Writing(control, payload),
         NEW k \in DOMAIN machine, machine'[k] # machine[k]
  PROVE  \/ \A f \in DOMAIN machine[k] : machine[k][f] = Missing
         \/ \E f \in DOMAIN machine[k] :
              machine' = [machine EXCEPT ![k][f] = machine'[k][f]]
<1>1. /\ Fits(control, category) /\ Object(payload, KeysOf(category)[control.key])
      /\ machine' = [machine EXCEPT ![control.key] = payload]
      /\ \/ \A f \in KeysOf(category)[control.key] : machine[control.key][f] = Missing
         \/ \A f \in KeysOf(category)[control.key] \ {control.field} :
              payload[f] = machine[control.key][f]
  BY DEF Writing, Write
<1>2. /\ DOMAIN machine = DOMAIN KeysOf(category)
      /\ \A j \in DOMAIN machine : /\ DOMAIN machine[j] = KeysOf(category)[j]
                                   /\ Object(machine[j], KeysOf(category)[j])
  BY ShapedIs DEF Typed, TypeOK
<1>3. control.key = k /\ machine'[k] = payload
  BY <1>1
<1>4. control.field \in DOMAIN machine[k] /\ DOMAIN machine[k] = KeysOf(category)[k]
  BY <1>1, <1>2, <1>3 DEF Fits
<1>5. CASE \A f \in DOMAIN machine[k] \ {control.field} : payload[f] = machine[k][f]
  <2>1. payload = [machine[k] EXCEPT ![control.field] = payload[control.field]]
    <3>1. payload = [f \in DOMAIN machine[k] |-> payload[f]]
      BY <1>1, <1>3, <1>4 DEF Object
    <3> QED
      BY <1>5, <3>1
  <2>2. machine' = [machine EXCEPT ![k] = [machine[k] EXCEPT ![control.field] = payload[control.field]]]
    BY <1>1, <1>3, <2>1
  <2>3. machine' = [machine EXCEPT ![k][control.field] = machine'[k][control.field]]
    BY <1>3, <2>2
  <2> QED
    BY <1>4, <2>3
<1> QED
  BY <1>1, <1>3, <1>4, <1>5

LEMMA ServingMovesOne ==
  ASSUME Typed, Serving, NEW k \in DOMAIN machine, machine'[k] # machine[k]
  PROVE  \E f \in DOMAIN machine[k] : machine' = [machine EXCEPT ![k][f] = machine'[k][f]]
<1>1. PICK j \in DOMAIN KeysOf(category) : \E f \in KeysOf(category)[j] : \E v :
        machine' = [machine EXCEPT ![j][f] = v]
  BY DEF Serving
<1>2. PICK f \in KeysOf(category)[j] : \E v : machine' = [machine EXCEPT ![j][f] = v]
  BY <1>1
<1>3. PICK v : machine' = [machine EXCEPT ![j][f] = v]
  BY <1>2
<1>4. j = k
  BY <1>3
<1>5. f \in DOMAIN machine[k]
  BY <1>4, ShapedIs DEF Typed, TypeOK
<1>6. machine'[k][f] = v
  BY <1>3, <1>4, <1>5
<1> QED
  BY <1>3, <1>4, <1>5, <1>6

(* A press of a control, a bin marked clean or a service moves at most one *)
(* field of the machine, and carries beside it what the machine states     *)
(* now, whatever the model that it starts from still says of the others    *)
(* (set_property); a machine that states nothing of the object is the      *)
(* exception.                                                              *)
THEOREM OneFieldMoves == Spec => PressMovesOne
<1> DEFINE Moves ==
             presses' # presses =>
               \A k \in {k \in DOMAIN machine : machine'[k] # machine[k]} :
                 \/ \A f \in DOMAIN machine[k] : machine[k][f] = Missing
                 \/ \E f \in DOMAIN machine[k] :
                      machine' = [machine EXCEPT ![k][f] = machine'[k][f]]
<1>1. Typed /\ [Next]_vars => [Moves]_vars
  <2> SUFFICES ASSUME Typed, Next PROVE Moves
    OBVIOUS
  <2>1. ASSUME Elsewhere \/ HourPasses \/ Scan \/ LeftOut PROVE presses' = presses
    BY <2>1 DEF Elsewhere, Change, HourPasses, Scan, LeftOut
  <2> QED
    BY <2>1, Steps, WritingMovesOne, ServingMovesOne
<1> QED
  BY <1>1, SpecTyped, PTL DEF Spec, PressMovesOne

-----------------------------------------------------------------------------
(* What is reported.                                                       *)

(* When the stamp noted is that of a read, what is shown is what that read *)
(* says, under some label, at the hour of the report.                      *)
NotedShows ==
  noted # NoStamp /\ DOMAIN noted = {"props", "records", "live"} =>
    \E l \in Labels \cup {None} :
      /\ Snapshot(category, noted.props, noted.records, l, noted.live, reported) # NoSnapshot
      /\ shown = StatesOf(category, Snapshot(category, noted.props, noted.records, l,
                                             noted.live, reported))

(* The stamp noted of a press is of one that was made.                     *)
PressNoted == \A n \in Nat : noted # NoStamp /\ noted = [manual |-> n] => n <= presses

ReportInv == Typed /\ NotedShows /\ PressNoted /\ ReportedIsTheModel

LEMMA InitReports == Init => ReportInv
<1> SUFFICES ASSUME Init PROVE ReportInv
  OBVIOUS
<1>1. /\ data = Snapshot(category, machine, records, label, live, now)
      /\ noted = Payload(machine, records, live) /\ reported = now
      /\ shown = StatesOf(category, data) /\ label = None
  BY DEF Init
<1>2. data # NoSnapshot
  BY <1>1, SnapshotThere
<1>3. noted.props = machine /\ noted.records = records /\ noted.live = live
  BY <1>1 DEF Payload
<1>4. NotedShows
  BY <1>1, <1>2, <1>3 DEF NotedShows
<1>5. PressNoted
  BY <1>1 DEF PressNoted, Payload
<1>6. ReportedIsTheModel
  BY <1>1 DEF ReportedIsTheModel
<1> QED
  BY <1>4, <1>5, <1>6, InitTyped DEF ReportInv

(* A press has a stamp that none before it had: it always reports.         *)
LEMMA PressReports ==
  ASSUME ReportInv, Press, stamp' = Bumped, Report, category' = category
  PROVE  NotedShows' /\ PressNoted' /\ ReportedIsTheModel'
<1>0. presses \in Nat /\ presses' = presses + 1
  BY CountsAssumption DEF ReportInv, Typed, TypeOK, Press
<1>1. Fingerprint = NoStamp \/ Fingerprint = [manual |-> presses + 1]
  BY <1>0 DEF Fingerprint, Bumped
<1>2. ~(Fingerprint = noted /\ Fingerprint # NoStamp)
  <2> SUFFICES ASSUME Fingerprint = noted, Fingerprint # NoStamp PROVE FALSE
    OBVIOUS
  <2>1. noted = [manual |-> presses + 1] /\ noted # NoStamp
    BY <1>1
  <2>2. presses + 1 <= presses
    BY <1>0, <2>1 DEF ReportInv, PressNoted
  <2> QED
    BY <1>0, <2>2
<1>3. shown' = StatesOf(category, data') /\ noted' = Fingerprint
  BY <1>2, ReportIs
<1>4. noted' = NoStamp \/ noted' = [manual |-> presses + 1]
  BY <1>1, <1>3
<1>5. NotedShows'
  BY <1>4 DEF NotedShows
<1>6. PressNoted'
  <2> SUFFICES ASSUME NEW n \in Nat, noted' # NoStamp, noted' = [manual |-> n]
               PROVE  n <= presses'
    BY DEF PressNoted
  <2>1. [manual |-> n].manual = [manual |-> presses + 1].manual
    BY <1>4
  <2> QED
    BY <1>0, <2>1
<1>7. ReportedIsTheModel'
  BY <1>3 DEF ReportedIsTheModel
<1> QED
  BY <1>5, <1>6, <1>7

LEMMA QuietReports ==
  ASSUME ReportInv, UNCHANGED <<category, data, built, entities>>,
         presses' = presses \/ presses' = presses + 1
  PROVE  NotedShows' /\ PressNoted' /\ ReportedIsTheModel'
<1>1. UNCHANGED <<category, data, built, shown, noted, reported>>
  BY DEF entities
<1>2. presses \in Nat
  BY CountsAssumption DEF ReportInv, Typed, TypeOK
<1>3. NotedShows'
  BY <1>1 DEF ReportInv, NotedShows
<1>4. PressNoted'
  BY <1>1, <1>2 DEF ReportInv, PressNoted
<1>5. ReportedIsTheModel'
  BY <1>1 DEF ReportInv, ReportedIsTheModel
<1> QED
  BY <1>3, <1>4, <1>5

(* A scan that finds the stamp noted reads what is shown; any other shows  *)
(* what it reads.                                                          *)
LEMMA ScanReports ==
  ASSUME ReportInv, Scan
  PROVE  NotedShows' /\ PressNoted' /\ ReportedIsTheModel'
<1>0. /\ data' = Snapshot(category, machine, held', label, live, now)
      /\ built' = now
      /\ stamp' = Payload(machine, held', live)
      /\ Report
      /\ UNCHANGED <<category, machine, live, label, presses>>
  BY DEF Scan, wire
<1>1. Fingerprint = NoStamp \/ (data' # NoSnapshot /\ Fingerprint = Payload(machine, held', live))
  BY <1>0 DEF Fingerprint
<1>p. LET p == Payload(machine, held', live)
      IN  p.props = machine /\ p.records = held' /\ p.live = live
          /\ DOMAIN p = {"props", "records", "live"}
  BY DEF Payload
<1>l. label \in Labels \cup {None}
  BY DEF ReportInv, Typed, TypeOK
<1>2. CASE shown' = StatesOf(category, data') /\ noted' = Fingerprint /\ reported' = now
  <2>1. NotedShows'
    <3> SUFFICES ASSUME noted' # NoStamp
                 PROVE  \E l \in Labels \cup {None} :
                          /\ Snapshot(category, noted'.props, noted'.records, l, noted'.live,
                                      reported') # NoSnapshot
                          /\ shown' = StatesOf(category, Snapshot(category, noted'.props,
                                        noted'.records, l, noted'.live, reported'))
      BY <1>0 DEF NotedShows
    <3>1. /\ noted'.props = machine /\ noted'.records = held' /\ noted'.live = live
          /\ data' # NoSnapshot
      BY <1>1, <1>2, <1>p
    <3>2. data' = Snapshot(category, noted'.props, noted'.records, label, noted'.live, reported')
      BY <1>0, <1>2, <3>1
    <3>3. shown' = StatesOf(category, Snapshot(category, noted'.props, noted'.records, label,
                                               noted'.live, reported'))
      BY <1>2, <3>2
    <3> QED
      BY <1>l, <3>1, <3>2, <3>3
  <2>2. PressNoted'
    <3>1. \A n \in Nat : DOMAIN [manual |-> n] = {"manual"}
      OBVIOUS
    <3> QED
      BY <1>1, <1>2, <1>p, <3>1 DEF PressNoted
  <2>3. ReportedIsTheModel'
    BY <1>0, <1>2 DEF ReportedIsTheModel
  <2> QED
    BY <2>1, <2>2, <2>3
<1>3. CASE UNCHANGED entities /\ Fingerprint = noted /\ Fingerprint # NoStamp
  <2>1. UNCHANGED <<shown, noted, reported>>
    BY <1>3 DEF entities
  <2>2. NotedShows' /\ PressNoted'
    BY <1>0, <2>1 DEF ReportInv, NotedShows, PressNoted
  <2>3. /\ data' # NoSnapshot /\ noted = Payload(machine, held', live) /\ noted # NoStamp
    BY <1>1, <1>3
  <2>4. /\ noted.props = machine /\ noted.records = held' /\ noted.live = live
        /\ DOMAIN noted = {"props", "records", "live"}
    BY <1>p, <2>3
  <2>5. PICK l \in Labels \cup {None} :
          /\ Snapshot(category, machine, held', l, live, reported) # NoSnapshot
          /\ shown = StatesOf(category, Snapshot(category, machine, held', l, live, reported))
    BY <2>3, <2>4 DEF ReportInv, NotedShows
  <2>6. \A e \in (Names(category) \cup ControlNames(category)) \ {"label"} :
          \/ shown[e] = StatesOf(category, data')[e]
          \/ e \in Intakes /\ DayStart(reported) # DayStart(now)
    BY <1>0, <2>3, <2>5, ReadsAgree
  <2>7. DOMAIN shown = Names(category) \cup ControlNames(category)
    BY <2>5, StatesAre
  <2>8. ReportedIsTheModel'
    BY <1>0, <2>1, <2>6, <2>7 DEF ReportedIsTheModel
  <2> QED
    BY <2>2, <2>8
<1> QED
  BY <1>0, <1>2, <1>3, ReportIs

LEMMA LeftOutReports ==
  ASSUME ReportInv, LeftOut
  PROVE  NotedShows' /\ PressNoted' /\ ReportedIsTheModel'
<1>1. data' = NoSnapshot /\ Report /\ category' = category
  BY DEF LeftOut, wire
<1>2. shown' = StatesOf(category, data') /\ noted' = NoStamp
  BY <1>1, ReportIs DEF Fingerprint
<1> QED
  BY <1>1, <1>2 DEF NotedShows, PressNoted, ReportedIsTheModel

LEMMA StepReports == ReportInv /\ [Next]_vars => ReportInv'
<1> SUFFICES ASSUME ReportInv, [Next]_vars PROVE ReportInv'
  OBVIOUS
<1>t. Typed /\ Typed'
  BY StepTyped DEF ReportInv
<1>1. ASSUME NEW control, NEW payload, Writing(control, payload)
      PROVE  NotedShows' /\ PressNoted' /\ ReportedIsTheModel'
  <2>1. /\ Press /\ category' = category /\ built' = built /\ presses' = presses + 1
        /\ \/ UNCHANGED <<data, entities>>
           \/ stamp' = Bumped /\ Report
    BY <1>1 DEF Writing, Write, Press
  <2> QED
    BY <2>1, PressReports, QuietReports
<1>2. ASSUME Serving PROVE NotedShows' /\ PressNoted' /\ ReportedIsTheModel'
  <2>1. /\ Press /\ category' = category /\ built' = built /\ presses' = presses + 1
        /\ \/ UNCHANGED <<data, entities>>
           \/ stamp' = Bumped /\ Report
    BY <1>2 DEF Serving, Service, Press
  <2> QED
    BY <2>1, PressReports, QuietReports
<1>3. ASSUME Elsewhere \/ HourPasses \/ UNCHANGED vars
      PROVE  NotedShows' /\ PressNoted' /\ ReportedIsTheModel'
  <2>1. UNCHANGED <<category, data, built, entities, presses>>
    BY <1>3 DEF Elsewhere, Change, HourPasses, vars, model, wire
  <2> QED
    BY <2>1, QuietReports
<1>4. NotedShows' /\ PressNoted' /\ ReportedIsTheModel'
  BY <1>t, <1>1, <1>2, <1>3, Steps, ScanReports, LeftOutReports
<1> QED
  BY <1>t, <1>4 DEF ReportInv

(* What entities report is what the model says, but for the label, which   *)
(* no stamp holds, and the day figures of a report of another day: an      *)
(* entity that skips a report has nothing else to show, whether the model  *)
(* was read again, was written, went away or came back                     *)
(* (state_fingerprint, write_state_if_changed).                            *)
THEOREM ReportedAgrees == Spec => []ReportedIsTheModel
<1>1. ReportInv => ReportedIsTheModel
  BY DEF ReportInv
<1> QED
  BY <1>1, InitReports, StepReports, PTL DEF Spec

-----------------------------------------------------------------------------
(* The day figures.                                                        *)

LEMMA NaturalMin ==
  ASSUME NEW S, S \subseteq Nat, S # {}
  PROVE  Min(S) \in S /\ \A y \in S : Min(S) <= y
<1>1. PICK x \in S : \A y \in S : <<y, x>> \notin OpToRel(<, Nat)
  BY NatLessThanWellFounded, WFMin
<1>2. ASSUME NEW y \in S PROVE x <= y
  <2>1. x \in Nat /\ y \in Nat /\ <<y, x>> \in Nat \X Nat
    OBVIOUS
  <2>2. ~(y < x)
    BY <1>1, <2>1 DEF OpToRel
  <2> QED
    BY <2>1, <2>2
<1> QED
  BY <1>2 DEF Min

(* There is a last midnight before an hour.                                *)
LEMMA DayStarts ==
  ASSUME NEW h \in Hours
  PROVE  DayStart(h) \in Midnights /\ DayStart(h) <= h
<1> DEFINE past == {m \in Midnights : m <= h}
           back == {h - m : m \in past}
<1>1. h \in Nat /\ Midnights \subseteq Nat /\ past # {}
  BY HoursAssumption, MidnightsAssumption
<1>2. back \subseteq Nat /\ back # {}
  <2>1. \A m \in past : m \in Nat /\ m <= h /\ h - m \in Nat
    BY <1>1
  <2>2. \A e \in back : e \in Nat
    BY <2>1
  <2>3. PICK m \in past : TRUE
    BY <1>1
  <2>4. h - m \in back
    OBVIOUS
  <2> QED
    BY <2>2, <2>4
<1>3. PICK d \in back : \A e \in back : d <= e
  BY <1>2, NaturalMin
<1>4. PICK m \in past : d = h - m
  BY <1>3
<1>5. \A n \in Midnights : n <= h => n <= m
  BY <1>1, <1>3, <1>4
<1>6. m \in Midnights /\ m <= h
  BY <1>4
<1> HIDE DEF past, back
<1> QED
  BY <1>5, <1>6 DEF DayStart

(* On a day of at most 24 hours, a past moment is in the day of an hour as *)
(* _served_day_bounds has it if and only if it is in its local day.        *)
LEMMA InDayIsToday ==
  ASSUME NEW h \in Hours, Cardinality(Today(h)) <= 24, NEW hour \in Nat, hour <= h
  PROVE  (DayStart(h) <= hour /\ hour < DayStart(h) + 24) <=> hour \in Today(h)
<1> DEFINE later == {m \in Midnights : m > h}
           start == DayStart(h)
<1>1. start \in Nat /\ h \in Nat /\ later \subseteq Nat
  BY DayStarts, HoursAssumption, MidnightsAssumption
<1>2. CASE later = {}
  <2>1. Today(h) = start .. start + 23
    BY <1>2 DEF Today
  <2> HIDE DEF start, later
  <2> QED
    BY <1>1, <2>1 DEF start
<1>3. CASE later # {}
  <2>1. Today(h) = start .. Min(later) - 1
    BY <1>3 DEF Today
  <2>2. Min(later) \in Nat /\ Min(later) > h
    BY <1>1, <1>3, NaturalMin
  <2> DEFINE next == Min(later)
  <2> HIDE DEF start, later, next
  <2>3. Today(h) = start .. next - 1 /\ next \in Nat /\ next > h
    BY <2>1, <2>2 DEF next
  <2>4. next - 1 \in Int
    BY <2>3
  <2>5. Cardinality(Today(h)) = IF start > next - 1 THEN 0 ELSE next - 1 - start + 1
    BY <1>1, <2>3, <2>4, FS_Interval
  <2>6. next <= start + 24
    BY <1>1, <2>3, <2>5
  <2> QED
    BY <1>1, <2>3, <2>6 DEF start
<1> QED
  BY <1>2, <1>3

(* The meals of the account are past, and so were those of the model when  *)
(* it was built.                                                           *)
MealsArePast ==
  /\ built <= now
  /\ Feeder =>
       /\ \A row \in records : row.feed_time \in Nat /\ MealHour(row) <= now
       /\ \A row \in held : row.feed_time \in Nat /\ MealHour(row) <= built

(* The day figures of the model are those of the read it was built from.   *)
ServedAsBuilt ==
  Feeder /\ data # NoSnapshot =>
    /\ data.feed_today_solids_g = ServedToday(held, built).solids
    /\ data.feed_today_liquid_g = ServedToday(held, built).liquid

ServedInv == Typed /\ MealsArePast /\ ServedAsBuilt

LEMMA ServedOfSpan ==
  ServedInv => ServedIsTheDays
<1> SUFFICES ASSUME ServedInv, Feeder, data # NoSnapshot, Cardinality(Today(built)) <= 24
             PROVE  LET meals == {row \in held : MealHour(row) \in Today(built)}
                    IN  /\ data.feed_today_solids_g =
                              IF meals = {} THEN None ELSE Solids(meals)
                        /\ data.feed_today_liquid_g =
                              IF meals = {} THEN None ELSE Liquids(meals)
  BY DEF ServedIsTheDays
<1> DEFINE meals == {row \in held : MealHour(row) \in Today(built)}
<1>1. built \in Hours
  BY DEF ServedInv, Typed, TypeOK
<1>2. ASSUME NEW row \in held
      PROVE  row \in ServedRows(held, built) <=> row \in meals
  <2>1. row.feed_time \in Nat /\ MealHour(row) <= built
    BY DEF ServedInv, MealsArePast
  <2>2. MealHour(row) \in Nat
    BY <2>1 DEF MealHour, MilliPerHour
  <2>3. InDay(row.feed_time, DayBounds(built))
          <=> DayStart(built) <= MealHour(row) /\ MealHour(row) < DayStart(built) + 24
    BY DEF InDay, DayBounds, MealHour
  <2>4. row.feed_time # None
    BY <2>1, NoneAssumption
  <2>5. InDay(row.feed_time, DayBounds(built)) <=> MealHour(row) \in Today(built)
    BY <1>1, <2>1, <2>2, <2>3, InDayIsToday
  <2> QED
    BY <2>4, <2>5 DEF ServedRows
<1>3. ServedRows(held, built) = meals
  BY <1>2 DEF ServedRows
<1> HIDE DEF meals
<1>4. /\ ServedToday(held, built).solids = IF meals = {} THEN None ELSE Solids(meals)
      /\ ServedToday(held, built).liquid = IF meals = {} THEN None ELSE Liquids(meals)
  BY <1>3 DEF ServedToday
<1> QED
  BY <1>4 DEF ServedInv, ServedAsBuilt, meals

LEMMA InitServed == Init => ServedInv
<1> SUFFICES ASSUME Init PROVE ServedInv
  OBVIOUS
<1>1. MealsArePast
  <2>1. built = now /\ now \in Nat /\ held = records
    BY HoursAssumption DEF Init
  <2>2. Feeder => records = {}
    BY DEF Init, NoRecords, Feeder
  <2> QED
    BY <2>1, <2>2 DEF MealsArePast
<1>2. ServedAsBuilt
  <2>1. Feeder => data = FeederSnapshot(machine, held, label, live, built)
    BY DEF Init, Snapshot, Feeder
  <2> QED
    BY <2>1, FeederFigures DEF ServedAsBuilt
<1> QED
  BY <1>1, <1>2, InitTyped DEF ServedInv

(* A press and a service leave the day figures and what they are made of.  *)
LEMMA PressServed ==
  ASSUME ServedInv, (\E control, payload : Writing(control, payload)) \/ Serving
  PROVE  MealsArePast' /\ ServedAsBuilt'
<1>1. UNCHANGED <<category, records, now, held, built>>
  BY DEF Writing, Write, Serving, Service
<1>2. MealsArePast'
  BY <1>1 DEF ServedInv, MealsArePast, Feeder, MealHour
<1>3. data' # NoSnapshot => data # NoSnapshot
  BY DEF Writing, Write, Serving, Service
<1>4. ASSUME data # NoSnapshot, Feeder
      PROVE  /\ data'["feed_today_solids_g"] = data["feed_today_solids_g"]
             /\ data'["feed_today_liquid_g"] = data["feed_today_liquid_g"]
  <2>1. CASE Serving
    BY <2>1 DEF Serving, Service
  <2>2. ASSUME NEW control, NEW payload, Writing(control, payload)
        PROVE  \A a \in DayFigures \cap AttributesOf(category) : data'[a] = data[a]
    BY <1>4, <2>2, WriteIs DEF ServedInv
  <2>3. {"feed_today_solids_g", "feed_today_liquid_g"} \subseteq DayFigures \cap AttributesOf(category)
    BY <1>4 DEF DayFigures, AttributesOf, FeederAttributes, Feeder
  <2> QED
    BY <2>1, <2>2, <2>3
<1>5. ServedAsBuilt'
  BY <1>1, <1>3, <1>4 DEF ServedInv, ServedAsBuilt, Feeder
<1> QED
  BY <1>2, <1>5

LEMMA QuietServed ==
  ASSUME ServedInv, UNCHANGED <<category, data, held, built>>,
         now' \in Hours, now' >= now,
         Feeder => \A row \in records' \ records : row.feed_time \in {now, now * MilliPerHour}
  PROVE  MealsArePast' /\ ServedAsBuilt'
<1>1. now \in Nat /\ now' \in Nat /\ built \in Nat
  BY HoursAssumption DEF ServedInv, Typed, TypeOK
<1>2. ASSUME Feeder, NEW row \in records'
      PROVE  row.feed_time \in Nat /\ MealHour(row) <= now'
  <2>1. CASE row \in records
    <3>1. row.feed_time \in Nat /\ MealHour(row) <= now
      BY <1>2, <2>1 DEF ServedInv, MealsArePast
    <3>2. MealHour(row) \in Nat
      BY <3>1 DEF MealHour, MilliPerHour
    <3> QED
      BY <1>1, <3>1, <3>2
  <2>2. CASE row.feed_time \in {now, now * 1000}
    <3>1. row.feed_time \in Nat
      BY <1>1, <2>2
    <3>2. MealHour(row) = IF row.feed_time > 500 THEN row.feed_time \div 1000 ELSE row.feed_time
      BY DEF MealHour, IsMilli, MilliPerHour
    <3>3. CASE row.feed_time = now
      BY <1>1, <3>2, <3>3
    <3>4. CASE row.feed_time = now * 1000
      BY <1>1, <3>2, <3>4
    <3> QED
      BY <2>2, <3>1, <3>3, <3>4
  <2> QED
    BY <1>2, <2>1, <2>2 DEF MilliPerHour
<1>3. MealsArePast'
  BY <1>1, <1>2 DEF ServedInv, MealsArePast, Feeder, MealHour
<1>4. ServedAsBuilt'
  BY DEF ServedInv, ServedAsBuilt, Feeder
<1> QED
  BY <1>3, <1>4

LEMMA ScanServed ==
  ASSUME ServedInv, Scan
  PROVE  MealsArePast' /\ ServedAsBuilt'
<1>0. /\ held' = held \/ held' = records
      /\ data' = Snapshot(category, machine, held', label, live, now)
      /\ built' = now
      /\ UNCHANGED <<category, records, now>>
  BY DEF Scan, wire
<1>1. now \in Nat /\ built \in Nat
  BY HoursAssumption DEF ServedInv, Typed, TypeOK
<1>2. ASSUME Feeder, NEW row \in held'
      PROVE  row.feed_time \in Nat /\ MealHour(row) <= now
  <2>1. CASE row \in records
    BY <1>2, <2>1 DEF ServedInv, MealsArePast
  <2>2. CASE row \in held
    <3>1. row.feed_time \in Nat /\ MealHour(row) <= built /\ built <= now
      BY <1>2, <2>2 DEF ServedInv, MealsArePast
    <3>2. MealHour(row) \in Nat
      BY <3>1 DEF MealHour, MilliPerHour
    <3> QED
      BY <1>1, <3>1, <3>2
  <2> QED
    BY <1>0, <1>2, <2>1, <2>2
<1>3. MealsArePast'
  BY <1>0, <1>1, <1>2 DEF ServedInv, MealsArePast, Feeder, MealHour
<1>4. ServedAsBuilt'
  <2>1. Feeder => data' = FeederSnapshot(machine, held', label, live, now)
    BY <1>0 DEF Snapshot, Feeder
  <2>2. Feeder => /\ data'.feed_today_solids_g = ServedToday(held', now).solids
                  /\ data'.feed_today_liquid_g = ServedToday(held', now).liquid
    BY <2>1, FeederFigures
  <2> QED
    BY <1>0, <2>2 DEF ServedAsBuilt, Feeder
<1> QED
  BY <1>3, <1>4

LEMMA StepServed == ServedInv /\ [Next]_vars => ServedInv'
<1> SUFFICES ASSUME ServedInv, [Next]_vars PROVE ServedInv'
  OBVIOUS
<1>t. Typed /\ Typed' /\ now \in Hours /\ now' \in Hours /\ Hours \subseteq Nat
  BY StepTyped, HoursAssumption DEF ServedInv, Typed, TypeOK
<1>1. ASSUME Elsewhere PROVE MealsArePast' /\ ServedAsBuilt'
  <2>1. /\ UNCHANGED <<category, data, held, built, now>>
        /\ Feeder => \A row \in records' \ records :
                       row.feed_time \in {now, now * MilliPerHour}
    BY <1>1 DEF Elsewhere, Change, model
  <2>2. now' >= now
    BY <1>t, <2>1
  <2> QED
    BY <1>t, <2>1, <2>2, QuietServed
<1>2. ASSUME HourPasses \/ UNCHANGED vars PROVE MealsArePast' /\ ServedAsBuilt'
  <2>1. UNCHANGED <<category, data, held, built, records>>
    BY <1>2 DEF HourPasses, wire, model, vars
  <2>2. now' > now \/ now' = now
    BY <1>2 DEF HourPasses, vars
  <2>3. now' >= now /\ records' \ records = {}
    BY <1>t, <2>1, <2>2
  <2> QED
    BY <1>t, <2>1, <2>3, QuietServed
<1>3. ASSUME LeftOut PROVE MealsArePast' /\ ServedAsBuilt'
  <2>1. data' = NoSnapshot /\ UNCHANGED <<category, held, built, now, records>>
    BY <1>3 DEF LeftOut, wire
  <2> QED
    BY <2>1 DEF ServedInv, MealsArePast, ServedAsBuilt, Feeder, MealHour
<1>4. MealsArePast' /\ ServedAsBuilt'
  BY <1>t, <1>1, <1>2, <1>3, Steps, PressServed, ScanServed
<1> QED
  BY <1>t, <1>4 DEF ServedInv

(* The day figures are what the meals of the local day weigh, and of no    *)
(* other, whichever unit a row states its moment in and whatever was       *)
(* pressed since, on days of at most 24 hours (_served_day_bounds,         *)
(* _served_today).                                                         *)
THEOREM ServedAgrees == Spec => []ServedIsTheDays
BY InitServed, StepServed, ServedOfSpan, PTL DEF Spec

-----------------------------------------------------------------------------
(* What is shown after a press.                                            *)

(* What a snapshot says in an attribute of a field of its object.          *)
Stated(a, v) ==
  IF a \in {"fresh_mgr_on", "display_when_idle"} THEN IsOne(v)
  ELSE IF a = "display_param" THEN AsStated(v) ELSE OptionalInt(v)

LEMMA NestedIs ==
  ASSUME NEW attr \in DOMAIN NestedModelFields, NEW f \in DOMAIN NestedModelFields[attr]
  PROVE  /\ attr \in DOMAIN ObjectsOf("petFeeder") /\ attr # "dnd_cfg"
         /\ ObjectsOf("petFeeder")[attr] \in NestedKeys
         /\ f \in FeederKeys[ObjectsOf("petFeeder")[attr]] /\ f # "value"
         /\ "value" \notin FeederKeys[ObjectsOf("petFeeder")[attr]]
         /\ NestedModelFields[attr][f] \in FeederAttributes \cap MirrorAttributes
         /\ Mirrored(attr) = NestedModelFields[attr]
<1>1. attr \in {"display_cfg", "fresh_mgr_cfg", "feed_aud_cfg", "feed_cfg"}
  BY DEF NestedModelFields
<1>2. Mirrored(attr) = NestedModelFields[attr]
  BY DEF Mirrored
<1>3. NestedModelFields[attr][f] \in MirrorAttributes
  BY <1>2, MirrorsAre
<1>4. MirrorAttributes \subseteq FeederAttributes
  BY DEF MirrorAttributes, FeederAttributes
<1>5. /\ attr \in DOMAIN ObjectsOf("petFeeder") /\ attr # "dnd_cfg"
      /\ ObjectsOf("petFeeder")[attr] \in NestedKeys
  BY <1>1 DEF ObjectsOf, NestedKeys
<1>6. /\ f \in FeederKeys[ObjectsOf("petFeeder")[attr]] /\ f # "value"
      /\ "value" \notin FeederKeys[ObjectsOf("petFeeder")[attr]]
  <2>1. CASE attr = "display_cfg"
    BY <2>1 DEF NestedModelFields, ObjectsOf, FeederKeys
  <2>2. CASE attr = "fresh_mgr_cfg"
    BY <2>2 DEF NestedModelFields, ObjectsOf, FeederKeys
  <2>3. CASE attr = "feed_aud_cfg"
    BY <2>3 DEF NestedModelFields, ObjectsOf, FeederKeys
  <2>4. CASE attr = "feed_cfg"
    BY <2>4 DEF NestedModelFields, ObjectsOf, FeederKeys
  <2> QED
    BY <1>1, <2>1, <2>2, <2>3, <2>4
<1> QED
  BY <1>2, <1>3, <1>4, <1>5, <1>6

(* No two fields are noted in one attribute.                               *)
LEMMA MirrorsApart ==
  ASSUME NEW attr1 \in DOMAIN NestedModelFields, NEW f1 \in DOMAIN NestedModelFields[attr1],
         NEW attr2 \in DOMAIN NestedModelFields, NEW f2 \in DOMAIN NestedModelFields[attr2],
         NestedModelFields[attr1][f1] = NestedModelFields[attr2][f2]
  PROVE  attr1 = attr2 /\ f1 = f2
<1>1. \A attr \in DOMAIN NestedModelFields : \A f \in DOMAIN NestedModelFields[attr] :
        \/ attr = "display_cfg" /\ f = "displayType" /\ NestedModelFields[attr][f] = "display_type"
        \/ attr = "display_cfg" /\ f = "displayParam" /\ NestedModelFields[attr][f] = "display_param"
        \/ attr = "display_cfg" /\ f = "bDisplayIfIdle" /\ NestedModelFields[attr][f] = "display_when_idle"
        \/ attr = "fresh_mgr_cfg" /\ f = "bOnOff" /\ NestedModelFields[attr][f] = "fresh_mgr_on"
        \/ attr = "feed_aud_cfg" /\ f = "volume" /\ NestedModelFields[attr][f] = "sound_volume"
        \/ attr = "feed_cfg" /\ f = "mixMin" /\ NestedModelFields[attr][f] = "mix_min_minutes"
  <2> SUFFICES ASSUME NEW attr \in DOMAIN NestedModelFields,
                      NEW f \in DOMAIN NestedModelFields[attr]
               PROVE  \/ attr = "display_cfg" /\ f = "displayType" /\ NestedModelFields[attr][f] = "display_type"
                      \/ attr = "display_cfg" /\ f = "displayParam" /\ NestedModelFields[attr][f] = "display_param"
                      \/ attr = "display_cfg" /\ f = "bDisplayIfIdle" /\ NestedModelFields[attr][f] = "display_when_idle"
                      \/ attr = "fresh_mgr_cfg" /\ f = "bOnOff" /\ NestedModelFields[attr][f] = "fresh_mgr_on"
                      \/ attr = "feed_aud_cfg" /\ f = "volume" /\ NestedModelFields[attr][f] = "sound_volume"
                      \/ attr = "feed_cfg" /\ f = "mixMin" /\ NestedModelFields[attr][f] = "mix_min_minutes"
    OBVIOUS
  <2>1. attr \in {"display_cfg", "fresh_mgr_cfg", "feed_aud_cfg", "feed_cfg"}
    BY DEF NestedModelFields
  <2> QED
    BY <2>1 DEF NestedModelFields
<1> QED
  BY <1>1

LEMMA ObjectsApart ==
  /\ \A cat : \A a, b \in DOMAIN ObjectsOf(cat) : ObjectsOf(cat)[a] = ObjectsOf(cat)[b] => a = b
  /\ \A cat : \A a, b \in DOMAIN ValuesOf(cat) : ValuesOf(cat)[a] = ValuesOf(cat)[b] => a = b
BY DEF ObjectsOf, ValuesOf

(* What a read says of the objects, and of the fields that are noted.      *)
LEMMA ReadObjects ==
  ASSUME NEW m, NEW r, NEW l, NEW v, NEW h, NEW attr \in DOMAIN NestedModelFields
  PROVE  FeederSnapshot(m, r, l, v, h)[attr] = m[ObjectsOf("petFeeder")[attr]]
<1> DEFINE s == FeederSnapshot(m, r, l, v, h)
<1>1. /\ s["display_cfg"] = m["displayCfg"] /\ s["fresh_mgr_cfg"] = m["freshMgrCfg"]
      /\ s["feed_aud_cfg"] = m["feedAudCfg"] /\ s["feed_cfg"] = m["defFdCfg"]
  BY DEF FeederSnapshot
<1>2. attr \in {"display_cfg", "fresh_mgr_cfg", "feed_aud_cfg", "feed_cfg"}
  BY DEF NestedModelFields
<1> HIDE DEF s
<1>3. s[attr] = m[ObjectsOf("petFeeder")[attr]]
  BY <1>1, <1>2 DEF ObjectsOf
<1> QED
  BY <1>3 DEF s

LEMMA ReadStates ==
  ASSUME NEW m, NEW r, NEW l, NEW v, NEW h,
         NEW attr \in DOMAIN NestedModelFields, NEW f \in DOMAIN NestedModelFields[attr]
  PROVE  FeederSnapshot(m, r, l, v, h)[NestedModelFields[attr][f]]
           = Stated(NestedModelFields[attr][f], m[ObjectsOf("petFeeder")[attr]][f])
<1> DEFINE s == FeederSnapshot(m, r, l, v, h)
<1>1. /\ s["display_type"] = OptionalInt(m["displayCfg"]["displayType"])
      /\ s["display_param"] = AsStated(m["displayCfg"]["displayParam"])
      /\ s["display_when_idle"] = IsOne(m["displayCfg"]["bDisplayIfIdle"])
      /\ s["fresh_mgr_on"] = IsOne(m["freshMgrCfg"]["bOnOff"])
      /\ s["sound_volume"] = OptionalInt(m["feedAudCfg"]["volume"])
      /\ s["mix_min_minutes"] = OptionalInt(m["defFdCfg"]["mixMin"])
  BY DEF FeederSnapshot
<1>2. ASSUME NEW x
      PROVE  /\ Stated("display_type", x) = OptionalInt(x)
             /\ Stated("display_param", x) = AsStated(x)
             /\ Stated("display_when_idle", x) = IsOne(x)
             /\ Stated("fresh_mgr_on", x) = IsOne(x)
             /\ Stated("sound_volume", x) = OptionalInt(x)
             /\ Stated("mix_min_minutes", x) = OptionalInt(x)
  BY DEF Stated
<1>3. attr \in {"display_cfg", "fresh_mgr_cfg", "feed_aud_cfg", "feed_cfg"}
  BY DEF NestedModelFields
<1> HIDE DEF s
<1>4. s[NestedModelFields[attr][f]]
        = Stated(NestedModelFields[attr][f], m[ObjectsOf("petFeeder")[attr]][f])
  <2>1. CASE attr = "display_cfg"
    BY <1>1, <1>2, <2>1 DEF ObjectsOf, NestedModelFields
  <2>2. CASE attr = "fresh_mgr_cfg"
    BY <1>1, <1>2, <2>2 DEF ObjectsOf, NestedModelFields
  <2>3. CASE attr = "feed_aud_cfg"
    BY <1>1, <1>2, <2>3 DEF ObjectsOf, NestedModelFields
  <2>4. CASE attr = "feed_cfg"
    BY <1>1, <1>2, <2>4 DEF ObjectsOf, NestedModelFields
  <2> QED
    BY <1>3, <2>1, <2>2, <2>3, <2>4
<1> QED
  BY <1>4 DEF s

(* What noting a written object makes of them.                             *)
LEMMA NoteStates ==
  ASSUME NEW s, NEW control, NEW payload, control.attr \in DOMAIN ObjectsOf("petFeeder"),
         NEW attr \in DOMAIN NestedModelFields, NEW f \in DOMAIN NestedModelFields[attr],
         NestedModelFields[attr][f] \in DOMAIN s
  PROVE  NoteWritten(s, control, payload)[NestedModelFields[attr][f]]
           = IF attr = control.attr /\ f \in DOMAIN payload /\ payload[f] # Missing
             THEN Stated(NestedModelFields[attr][f], payload[f])
             ELSE s[NestedModelFields[attr][f]]
<1> DEFINE a == NestedModelFields[attr][f]
           mirror == Mirrored(control.attr)
           fields == {g \in DOMAIN mirror \cap DOMAIN payload : payload[g] # Missing}
<1>1. a # control.attr
  BY NestedIs, NotMirrors
<1>2. NoteWritten(s, control, payload)[a]
        = IF \E g \in fields : mirror[g] = a
          THEN Converted(a, payload[CHOOSE g \in fields : mirror[g] = a])
          ELSE s[a]
  BY <1>1 DEF NoteWritten
<1>3. ASSUME NEW g \in fields, mirror[g] = a
      PROVE  attr = control.attr /\ g = f /\ g \in DOMAIN payload /\ payload[g] # Missing
  <2>1. control.attr \in DOMAIN NestedModelFields
    <3>1. CASE control.attr \notin DOMAIN NestedModelFields
      <4>1. mirror = <<>>
        BY <3>1 DEF Mirrored
      <4>2. DOMAIN <<>> = {}
        OBVIOUS
      <4> QED
        BY <1>3, <4>1, <4>2
    <3> QED
      BY <3>1
  <2>2. mirror = NestedModelFields[control.attr]
    BY <2>1 DEF Mirrored
  <2> QED
    BY <1>3, <2>1, <2>2, MirrorsApart
<1>4. CASE attr = control.attr /\ f \in DOMAIN payload /\ payload[f] # Missing
  <2>1. mirror = NestedModelFields[attr]
    BY <1>4 DEF Mirrored
  <2>2. f \in fields /\ mirror[f] = a
    BY <1>4, <2>1
  <2> HIDE DEF a, mirror, fields
  <2>3. (CHOOSE g \in fields : mirror[g] = a) = f
    BY <1>3, <2>2
  <2>4. NoteWritten(s, control, payload)[a] = Converted(a, payload[f])
    BY <1>2, <2>2, <2>3
  <2>5. Converted(a, payload[f]) = Stated(a, payload[f])
    BY <1>4 DEF Converted, Stated, AsStated
  <2> QED
    BY <1>4, <2>4, <2>5 DEF a
<1>5. CASE ~(attr = control.attr /\ f \in DOMAIN payload /\ payload[f] # Missing)
  <2> HIDE DEF a, mirror, fields
  <2>1. ~\E g \in fields : mirror[g] = a
    BY <1>3, <1>5
  <2> QED
    BY <1>2, <1>5, <2>1 DEF a
<1> QED
  BY <1>4, <1>5

(* A plain value is read as it was written.                                *)
LEMMA ReadPlain ==
  ASSUME NEW cat, NEW m, NEW r, NEW l, NEW v, NEW h, NEW a \in DOMAIN ValuesOf(cat),
         Plain(m[ValuesOf(cat)[a]]["value"], cat)
  PROVE  Snapshot(cat, m, r, l, v, h)[a] = m[ValuesOf(cat)[a]]["value"]
<1>1. ASSUME NEW x, Plain(x, cat)
      PROVE  /\ OptionalInt(x) = x /\ AsStated(x) = x
             /\ cat # "petFeeder" => IsOne(x) = x
  BY <1>1 DEF Plain, OptionalInt, AsStated, IsOne, Positions
<1>2. CASE cat = "petFeeder"
  <2> DEFINE s == FeederSnapshot(m, r, l, v, h)
  <2>1. /\ s["desiccant_days_effective"] = OptionalInt(m["drierEffeDays"]["value"])
        /\ s["last_water_bin_clean"] = AsStated(m["lastWaterBinCleanTime"]["value"])
        /\ s["last_food_bin_clean"] = AsStated(m["lastFoodBinCleanTime"]["value"])
    BY DEF FeederSnapshot
  <2>2. Snapshot(cat, m, r, l, v, h) = s
    BY <1>2 DEF Snapshot
  <2>3. /\ a \in {"desiccant_days_effective", "last_water_bin_clean", "last_food_bin_clean"}
        /\ a = "desiccant_days_effective" => ValuesOf(cat)[a] = "drierEffeDays"
        /\ a = "last_water_bin_clean" => ValuesOf(cat)[a] = "lastWaterBinCleanTime"
        /\ a = "last_food_bin_clean" => ValuesOf(cat)[a] = "lastFoodBinCleanTime"
    BY <1>2 DEF ValuesOf
  <2> HIDE DEF s
  <2> QED
    BY <1>1, <2>1, <2>2, <2>3
<1>3. CASE cat # "petFeeder"
  <2> DEFINE s == LitterSnapshot(m, r, l)
  <2>1. /\ s["young_cat_mode"] = IsOne(m["youngCatMode"]["value"])
        /\ s["child_lock"] = IsOne(m["childLockOnOff"]["value"])
        /\ s["auto_bury"] = IsOne(m["autoBury"]["value"])
        /\ s["auto_level"] = IsOne(m["autoLevel"]["value"])
        /\ s["silent_mode"] = IsOne(m["silentMode"]["value"])
        /\ s["auto_force_init"] = IsOne(m["autoForceInit"]["value"])
        /\ s["b_intrpt_range_det"] = IsOne(m["bIntrptRangeDet"]["value"])
    BY DEF LitterSnapshot
  <2>2. Snapshot(cat, m, r, l, v, h) = s
    BY <1>3 DEF Snapshot
  <2>3. /\ a \in {"young_cat_mode", "child_lock", "auto_bury", "auto_level", "silent_mode",
                  "auto_force_init", "b_intrpt_range_det"}
        /\ a = "young_cat_mode" => ValuesOf(cat)[a] = "youngCatMode"
        /\ a = "child_lock" => ValuesOf(cat)[a] = "childLockOnOff"
        /\ a = "auto_bury" => ValuesOf(cat)[a] = "autoBury"
        /\ a = "auto_level" => ValuesOf(cat)[a] = "autoLevel"
        /\ a = "silent_mode" => ValuesOf(cat)[a] = "silentMode"
        /\ a = "auto_force_init" => ValuesOf(cat)[a] = "autoForceInit"
        /\ a = "b_intrpt_range_det" => ValuesOf(cat)[a] = "bIntrptRangeDet"
    BY <1>3 DEF ValuesOf
  <2> HIDE DEF s
  <2> QED
    BY <1>1, <1>3, <2>1, <2>2, <2>3
<1> QED
  BY <1>2, <1>3

(* A control shows one attribute: its value, or what its field is noted    *)
(* in.                                                                     *)
LEMMA FeederShows ==
  ASSUME NEW s, NEW t, s # NoSnapshot, t # NoSnapshot,
         NEW c \in FeederControlNames \ {"do_not_disturb"}
  PROVE  LET x == FeederControls(s)[c]
             y == FeederControls(t)[c]
         IN  IF x.field = "value"
             THEN s[x.attr] = t[x.attr] => x.shows = y.shows
             ELSE /\ x.attr \in DOMAIN NestedModelFields
                  /\ x.field \in DOMAIN NestedModelFields[x.attr]
                  /\ LET a == NestedModelFields[x.attr][x.field]
                     IN  s[a] = t[a] => x.shows = y.shows
<1>m. /\ {"display_cfg", "fresh_mgr_cfg", "feed_aud_cfg", "feed_cfg"}
            \subseteq DOMAIN NestedModelFields
      /\ {"displayType", "displayParam", "bDisplayIfIdle"}
            \subseteq DOMAIN NestedModelFields["display_cfg"]
      /\ "bOnOff" \in DOMAIN NestedModelFields["fresh_mgr_cfg"]
      /\ "volume" \in DOMAIN NestedModelFields["feed_aud_cfg"]
      /\ "mixMin" \in DOMAIN NestedModelFields["feed_cfg"]
      /\ NestedModelFields["display_cfg"]["displayType"] = "display_type"
      /\ NestedModelFields["display_cfg"]["displayParam"] = "display_param"
      /\ NestedModelFields["display_cfg"]["bDisplayIfIdle"] = "display_when_idle"
      /\ NestedModelFields["fresh_mgr_cfg"]["bOnOff"] = "fresh_mgr_on"
      /\ NestedModelFields["feed_aud_cfg"]["volume"] = "sound_volume"
      /\ NestedModelFields["feed_cfg"]["mixMin"] = "mix_min_minutes"
  BY DEF NestedModelFields
<1>o. \A a : Of(s, a) = s[a] /\ Of(t, a) = t[a]
  BY DEF Of
<1> DEFINE x == FeederControls(s)[c]
           y == FeederControls(t)[c]
<1>1. CASE c = "fresh_meal_manager"
  <2>1. x = FreshMealManager(s) /\ y = FreshMealManager(t)
    BY <1>1, FeederControlsAre
  <2>2. /\ x.attr = "fresh_mgr_cfg" /\ x.field = "bOnOff"
        /\ x.shows = OnOff(Of(s, "fresh_mgr_on")) /\ y.shows = OnOff(Of(t, "fresh_mgr_on"))
    BY <2>1 DEF FreshMealManager, Nested
  <2> QED
    BY <1>m, <1>o, <2>2
<1>2. CASE c = "display_standby"
  <2>1. x = DisplayStandby(s) /\ y = DisplayStandby(t)
    BY <1>2, FeederControlsAre
  <2>2. /\ x.attr = "display_cfg" /\ x.field = "bDisplayIfIdle"
        /\ x.shows = OnOff(Of(s, "display_when_idle"))
        /\ y.shows = OnOff(Of(t, "display_when_idle"))
    BY <2>1 DEF DisplayStandby, Nested
  <2> QED
    BY <1>m, <1>o, <2>2
<1>3. CASE c = "rehydration_minutes"
  <2>1. x = RehydrationMinutes(s) /\ y = RehydrationMinutes(t)
    BY <1>3, FeederControlsAre
  <2>2. /\ x.attr = "feed_cfg" /\ x.field = "mixMin"
        /\ x.shows = Of(s, "mix_min_minutes") /\ y.shows = Of(t, "mix_min_minutes")
    BY <2>1 DEF RehydrationMinutes, Nested
  <2> QED
    BY <1>m, <1>o, <2>2
<1>4. CASE c = "desiccant_days"
  <2>1. x = DesiccantDays(s) /\ y = DesiccantDays(t)
    BY <1>4, FeederControlsAre
  <2>2. /\ x.attr = "desiccant_days_effective" /\ x.field = "value"
        /\ x.shows = Of(s, "desiccant_days_effective")
        /\ y.shows = Of(t, "desiccant_days_effective")
    BY <2>1 DEF DesiccantDays, Scalar
  <2> QED
    BY <1>o, <2>2
<1>5. CASE c = "feed_sound_volume"
  <2>1. x = FeedSoundVolume(s) /\ y = FeedSoundVolume(t)
    BY <1>5, FeederControlsAre
  <2>2. /\ x.attr = "feed_aud_cfg" /\ x.field = "volume"
        /\ x.shows = Of(s, "sound_volume") /\ y.shows = Of(t, "sound_volume")
    BY <2>1 DEF FeedSoundVolume, Nested
  <2> QED
    BY <1>m, <1>o, <2>2
<1>6. CASE c = "display_standby_kind"
  <2>1. x = DisplayStandbyKind(s) /\ y = DisplayStandbyKind(t)
    BY <1>6, FeederControlsAre
  <2>2. /\ x.attr = "display_cfg" /\ x.field = "displayType"
        /\ x.shows = IF Of(s, "display_type") \in DisplayKinds THEN Of(s, "display_type")
                     ELSE None
        /\ y.shows = IF Of(t, "display_type") \in DisplayKinds THEN Of(t, "display_type")
                     ELSE None
    BY <2>1 DEF DisplayStandbyKind, Nested
  <2> QED
    BY <1>m, <1>o, <2>2
<1>7. CASE c = "display_custom_message"
  <2>1. x = DisplayCustomMessage(s) /\ y = DisplayCustomMessage(t)
    BY <1>7, FeederControlsAre
  <2> DEFINE Message(u) == IF u = NoSnapshot THEN None
                           ELSE IF Of(u, "display_param") = None THEN ""
                           ELSE Of(u, "display_param")
  <2>2. \A u : \E values : DisplayCustomMessage(u)
                             = Nested(Message(u), "displayCfg", "display_cfg",
                                      "displayParam", values)
    BY DEF DisplayCustomMessage
  <2>3. /\ x.attr = "display_cfg" /\ x.field = "displayParam"
        /\ x.shows = Message(s) /\ y.shows = Message(t)
    <3> HIDE DEF Message
    <3> QED
      BY <2>1, <2>2 DEF Nested
  <2>4. s["display_param"] = t["display_param"] => Message(s) = Message(t)
    BY <1>o
  <2> HIDE DEF Message, x, y
  <2>5. /\ x.field # "value" /\ x.attr \in DOMAIN NestedModelFields
        /\ x.field \in DOMAIN NestedModelFields[x.attr]
        /\ NestedModelFields[x.attr][x.field] = "display_param"
    BY <1>m, <2>3
  <2> QED
    BY <2>3, <2>4, <2>5 DEF x, y
<1> QED
  BY <1>1, <1>2, <1>3, <1>4, <1>5, <1>6, <1>7 DEF FeederControlNames

LEMMA LitterShows ==
  ASSUME NEW s, NEW t, s # NoSnapshot, t # NoSnapshot, NEW c \in LitterControlNames
  PROVE  LET x == LitterControls(s)[c]
             y == LitterControls(t)[c]
         IN  s[x.attr] = t[x.attr] => x.shows = y.shows
<1>o. \A a : Of(s, a) = s[a] /\ Of(t, a) = t[a]
  BY DEF Of
<1> USE DEF Scalar, LitterControls
<1>1. CASE c = "auto_clean"
  BY <1>1 DEF AutoClean, Nested
<1>2. CASE c = "young_cat_mode"
  BY <1>o, <1>2 DEF YoungCatMode
<1>3. CASE c = "child_lock"
  BY <1>o, <1>3 DEF ChildLock
<1>4. CASE c = "auto_bury"
  BY <1>o, <1>4 DEF AutoBury
<1>5. CASE c = "auto_level"
  BY <1>o, <1>5 DEF AutoLevel
<1>6. CASE c = "silent_mode"
  BY <1>o, <1>6 DEF SilentMode
<1>7. CASE c = "auto_recovery"
  BY <1>o, <1>7 DEF AutoRecovery
<1>8. CASE c = "unstoppable_cycle"
  BY <1>o, <1>8 DEF UnstoppableCycle
<1> QED
  BY <1>1, <1>2, <1>3, <1>4, <1>5, <1>6, <1>7, <1>8 DEF LitterControlNames

(* A field that the machine does not state is not stated in the model, and *)
(* what is not stated there is noted as a read would have it.              *)
Mirrors ==
  Feeder /\ data # NoSnapshot =>
    \A attr \in DOMAIN NestedModelFields : \A f \in DOMAIN NestedModelFields[attr] :
      /\ machine[ObjectsOf("petFeeder")[attr]][f] = Missing => data[attr][f] = Missing
      /\ data[attr][f] = Missing =>
           data[NestedModelFields[attr][f]] = Stated(NestedModelFields[attr][f], Missing)

LEMMA WriteMirrors ==
  ASSUME Typed, Mirrors, Feeder, data # NoSnapshot,
         NEW control, NEW payload, Writing(control, payload),
         NEW attr \in DOMAIN NestedModelFields, NEW f \in DOMAIN NestedModelFields[attr]
  PROVE  LET key == ObjectsOf("petFeeder")[attr]
             a == NestedModelFields[attr][f]
         IN  /\ machine'[key][f] = Missing => data'[attr][f] = Missing
             /\ data'[attr][f] = Missing => data'[a] = Stated(a, Missing)
             /\ key = control.key => data'[a] = Stated(a, machine'[key][f])
<1> DEFINE key == ObjectsOf("petFeeder")[attr]
           a == NestedModelFields[attr][f]
<1>0. category = "petFeeder" /\ KeysOf(category) = FeederKeys
  BY DEF Feeder, KeysOf
<1>1. /\ Fits(control, category) /\ Object(payload, KeysOf(category)[control.key])
      /\ machine' = [machine EXCEPT ![control.key] = payload]
      /\ data' = IF control.field = "value"
                 THEN [data EXCEPT ![control.attr] = payload.value]
                 ELSE NoteWritten(data, control, payload)
      /\ \A g \in KeysOf(category)[control.key] :
           payload[g] = Missing => machine[control.key][g] = Missing
  BY DEF Writing, Write
<1>2. /\ attr \in DOMAIN ObjectsOf("petFeeder") /\ key \in NestedKeys
      /\ f \in FeederKeys[key] /\ "value" \notin FeederKeys[key]
      /\ a \in FeederAttributes /\ a \in MirrorAttributes
  BY NestedIs
<1>3. /\ key \in DOMAIN machine
      /\ DOMAIN data = FeederAttributes
      /\ attr \in DOMAIN data /\ attr \notin MirrorAttributes
  <2>1. key \in DOMAIN FeederKeys
    BY <1>2 DEF NestedKeys, FeederKeys
  <2>2. DOMAIN machine = DOMAIN FeederKeys
    BY <1>0, ShapedIs DEF Typed, TypeOK
  <2>3. DOMAIN data = AttributesOf(category)
    BY AttributesAre DEF Typed, TypeOK
  <2>4. AttributesOf(category) = FeederAttributes
    BY <1>0 DEF AttributesOf
  <2>5. attr \in AttributesOf("petFeeder") /\ attr \notin MirrorAttributes
    BY <1>2, NotMirrors
  <2> HIDE DEF key
  <2> QED
    BY <1>0, <2>1, <2>2, <2>3, <2>4, <2>5
<1>4. /\ machine[key][f] = Missing => data[attr][f] = Missing
      /\ data[attr][f] = Missing => data[a] = Stated(a, Missing)
  BY DEF Mirrors
<1> HIDE DEF key, a
<1>5. CASE control.field = "value"
  <2>1. data' = [data EXCEPT ![control.attr] = payload.value]
    BY <1>1, <1>5
  <2>2. control.attr \notin DOMAIN ObjectsOf("petFeeder") /\ control.attr \notin MirrorAttributes
    BY <1>0, <1>1, <1>5, ValuesApart DEF Fits
  <2>3. control.key # key
    BY <1>0, <1>1, <1>2, <1>5 DEF Fits
  <2>4. data'[attr] = data[attr] /\ data'[a] = data[a]
    BY <1>2, <1>3, <2>1, <2>2
  <2>5. machine'[key] = machine[key]
    BY <1>1, <1>3, <2>3
  <2> QED
    BY <1>4, <2>3, <2>4, <2>5 DEF key, a
<1>6. CASE control.field # "value"
  <2>1. data' = NoteWritten(data, control, payload)
    BY <1>1, <1>6
  <2>2. /\ control.attr \in DOMAIN ObjectsOf("petFeeder")
        /\ ObjectsOf("petFeeder")[control.attr] = control.key
    BY <1>0, <1>1, <1>6 DEF Fits
  <2>3. data'[attr] = IF attr = control.attr THEN payload ELSE data[attr]
    BY <1>3, <2>1, NoteIs
  <2>4. data'[a] = IF attr = control.attr /\ f \in DOMAIN payload /\ payload[f] # Missing
                   THEN Stated(a, payload[f]) ELSE data[a]
    BY <1>2, <1>3, <2>1, <2>2, NoteStates DEF a
  <2>5. CASE attr = control.attr
    <3>1. control.key = key
      BY <2>2, <2>5 DEF key
    <3>2. machine'[key] = payload /\ data'[attr] = payload
      BY <1>1, <1>3, <2>3, <2>5, <3>1
    <3>3. f \in DOMAIN payload
      BY <1>0, <1>1, <1>2, <3>1 DEF Object
    <3>4. payload[f] = Missing => data[a] = Stated(a, Missing)
      BY <1>0, <1>1, <1>2, <1>4, <3>1
    <3>5. data'[a] = Stated(a, payload[f])
      BY <2>4, <2>5, <3>3, <3>4
    <3> QED
      BY <3>2, <3>5 DEF key, a
  <2>6. CASE attr # control.attr
    <3>1. control.key # key
      BY <1>2, <2>2, <2>6, ObjectsApart DEF key
    <3>2. machine'[key] = machine[key]
      BY <1>1, <1>3, <3>1
    <3> QED
      BY <1>4, <2>3, <2>4, <2>6, <3>1, <3>2 DEF key, a
  <2> QED
    BY <2>5, <2>6
<1> QED
  BY <1>5, <1>6

MirrorInv == ReportInv /\ Mirrors

(* A service moves nothing that a control writes.                          *)
LEMMA ServingKeeps ==
  ASSUME Typed, Serving, NEW k \in DOMAIN KeysOf(category) \ ServiceKeys
  PROVE  machine'[k] = machine[k]
<1>1. k \in DOMAIN machine
  BY ShapedIs DEF Typed, TypeOK
<1>2. CASE machine' = machine
  BY <1>2
<1>3. ASSUME NEW j \in ServiceKeys, NEW f, NEW v, machine' = [machine EXCEPT ![j][f] = v]
      PROVE  machine'[k] = machine[k]
  BY <1>1, <1>3
<1> QED
  BY <1>2, <1>3 DEF Serving

LEMMA ReadMirrors ==
  ASSUME NEW r, NEW h, Feeder, data' = Snapshot(category, machine, r, label, live, h),
         NEW attr \in DOMAIN NestedModelFields, NEW f \in DOMAIN NestedModelFields[attr]
  PROVE  /\ data'[attr][f] = machine[ObjectsOf("petFeeder")[attr]][f]
         /\ data'[NestedModelFields[attr][f]]
              = Stated(NestedModelFields[attr][f], machine[ObjectsOf("petFeeder")[attr]][f])
<1>1. data' = FeederSnapshot(machine, r, label, live, h)
  BY DEF Feeder, Snapshot
<1> QED
  BY <1>1, ReadStates, ReadObjects

LEMMA InitMirrors == Init => MirrorInv
<1> SUFFICES ASSUME Init PROVE MirrorInv
  OBVIOUS
<1>1. Mirrors
  <2> SUFFICES ASSUME Feeder, NEW attr \in DOMAIN NestedModelFields,
                      NEW f \in DOMAIN NestedModelFields[attr]
               PROVE  /\ machine[ObjectsOf("petFeeder")[attr]][f] = data[attr][f]
                      /\ data[NestedModelFields[attr][f]]
                           = Stated(NestedModelFields[attr][f],
                                    machine[ObjectsOf("petFeeder")[attr]][f])
    BY DEF Mirrors
  <2>1. data = FeederSnapshot(machine, records, label, live, now)
    BY DEF Init, Feeder, Snapshot
  <2> QED
    BY <2>1, ReadStates, ReadObjects
<1> QED
  BY <1>1, InitReports DEF MirrorInv

LEMMA StepMirrors == MirrorInv /\ [Next]_vars => MirrorInv'
<1> SUFFICES ASSUME MirrorInv, [Next]_vars PROVE MirrorInv'
  OBVIOUS
<1>0. Typed /\ Mirrors
  BY DEF MirrorInv, ReportInv
<1>1. ASSUME NEW control, NEW payload, Writing(control, payload) PROVE Mirrors'
  <2>1. category' = category /\ (data = NoSnapshot => data' = NoSnapshot)
    BY <1>1 DEF Writing, Write
  <2>2. ASSUME Feeder, data # NoSnapshot, NEW attr \in DOMAIN NestedModelFields,
               NEW f \in DOMAIN NestedModelFields[attr]
        PROVE  /\ machine'[ObjectsOf("petFeeder")[attr]][f] = Missing => data'[attr][f] = Missing
               /\ data'[attr][f] = Missing =>
                    data'[NestedModelFields[attr][f]]
                      = Stated(NestedModelFields[attr][f], Missing)
    BY <1>0, <1>1, <2>2, WriteMirrors
  <2> QED
    BY <2>1, <2>2 DEF Mirrors, Feeder
<1>2. ASSUME UNCHANGED <<category, data>>,
             Feeder => \A k \in NestedKeys : \A f \in FeederKeys[k] :
                         machine'[k][f] = Missing => machine[k][f] = Missing
      PROVE  Mirrors'
  <2>1. ASSUME Feeder, NEW attr \in DOMAIN NestedModelFields,
               NEW f \in DOMAIN NestedModelFields[attr]
        PROVE  machine'[ObjectsOf("petFeeder")[attr]][f] = Missing
                 => machine[ObjectsOf("petFeeder")[attr]][f] = Missing
    BY <1>2, <2>1, NestedIs
  <2> QED
    BY <1>0, <1>2, <2>1 DEF Mirrors, Feeder
<1>3. ASSUME Serving PROVE Mirrors'
  <2>1. UNCHANGED <<category, data>>
    BY <1>3 DEF Serving, Service
  <2>2. Feeder => \A k \in NestedKeys : machine'[k] = machine[k]
    <3>1. Feeder => NestedKeys \subseteq DOMAIN KeysOf(category) \ ServiceKeys
      BY DEF NestedKeys, ServiceKeys, Feeder, KeysOf, FeederKeys
    <3> QED
      BY <1>0, <1>3, <3>1, ServingKeeps
  <2> QED
    BY <1>2, <2>1, <2>2
<1>4. ASSUME Elsewhere \/ HourPasses \/ UNCHANGED vars PROVE Mirrors'
  <2>1. UNCHANGED <<category, data>>
    BY <1>4 DEF Elsewhere, Change, HourPasses, vars, model, wire
  <2>2. Feeder => \A k \in NestedKeys : \A f \in FeederKeys[k] :
                    machine'[k][f] = Missing => machine[k][f] = Missing
    BY <1>4 DEF Elsewhere, HourPasses, vars, wire
  <2> QED
    BY <1>2, <2>1, <2>2
<1>5. ASSUME Scan PROVE Mirrors'
  <2>1. /\ data' = Snapshot(category, machine, held', label, live, now)
        /\ UNCHANGED <<category, machine>>
    BY <1>5 DEF Scan, wire
  <2>2. ASSUME Feeder, NEW attr \in DOMAIN NestedModelFields,
               NEW f \in DOMAIN NestedModelFields[attr]
        PROVE  /\ data'[attr][f] = machine[ObjectsOf("petFeeder")[attr]][f]
               /\ data'[NestedModelFields[attr][f]]
                    = Stated(NestedModelFields[attr][f],
                             machine[ObjectsOf("petFeeder")[attr]][f])
    BY <2>1, <2>2, ReadMirrors
  <2> QED
    BY <2>1, <2>2 DEF Mirrors, Feeder
<1>6. ASSUME LeftOut PROVE Mirrors'
  BY <1>6 DEF LeftOut, Mirrors
<1>7. Mirrors'
  BY <1>0, <1>1, <1>3, <1>4, <1>5, <1>6, Steps
<1> QED
  BY <1>7, StepReports DEF MirrorInv

LEMMA ControlsShown ==
  \A cat, u : \A c \in ControlNames(cat) : StatesOf(cat, u)[c] = ControlsOf(cat, u)[c].shows
BY StatesAre

(* A press shows what a new read of the machine would.                     *)
LEMMA WritingShows ==
  ASSUME MirrorInv, NEW control, NEW payload, Writing(control, payload), data # NoSnapshot,
         NEW s, s = Snapshot(category, machine', held, label, live, now),
         NEW c \in ControlNames(category) \ {"do_not_disturb"},
         machine'[ControlsOf(category, s)[c].key] # machine[ControlsOf(category, s)[c].key]
  PROVE  shown'[c] = ControlsOf(category, s)[c].shows
<1> DEFINE x == ControlsOf(category, s)[c]
           y == ControlsOf(category, data')[c]
<1>t. Typed /\ Mirrors
  BY DEF MirrorInv, ReportInv
<1>1. /\ Fits(control, category)
      /\ machine' = [machine EXCEPT ![control.key] = payload]
      /\ data' = IF control.field = "value"
                 THEN [data EXCEPT ![control.attr] = payload.value]
                 ELSE NoteWritten(data, control, payload)
      /\ control.field = "value" => Plain(payload.value, category)
      /\ Press /\ stamp' = Bumped /\ Report /\ category' = category
  BY DEF Writing, Write
<1>2. Fits(x, category)
  BY ControlsFit
<1>3. DOMAIN data' = AttributesOf(category) /\ data' # NoSnapshot /\ s # NoSnapshot
  BY <1>t, WriteIs, NoneThere, SnapshotThere
<1>4. shown'[c] = y.shows
  <2>1. shown' = StatesOf(category, data')
    <3>1. ~(Fingerprint = noted /\ Fingerprint # NoStamp)
      <4> SUFFICES ASSUME Fingerprint = noted, Fingerprint # NoStamp PROVE FALSE
        OBVIOUS
      <4>1. presses \in Nat /\ presses' = presses + 1
        BY <1>t, <1>1, CountsAssumption DEF Typed, TypeOK, Press
      <4>2. noted = [manual |-> presses + 1] /\ noted # NoStamp
        BY <1>1, <4>1 DEF Fingerprint, Bumped
      <4>3. presses + 1 <= presses
        BY <4>1, <4>2 DEF MirrorInv, ReportInv, PressNoted
      <4> QED
        BY <4>1, <4>3
    <3> QED
      BY <1>1, <3>1, ReportIs
  <2>2. c \in ControlNames(category)
    OBVIOUS
  <2> QED
    BY <2>1, <2>2, ControlsShown
<1> HIDE DEF x, y
<1>5. x.key = control.key
  BY <1>1 DEF x
<1>6. control.key \in DOMAIN machine /\ machine'[control.key] = payload
  <2>1. DOMAIN machine = DOMAIN KeysOf(category)
    BY <1>t, ShapedIs DEF Typed, TypeOK
  <2> QED
    BY <1>1, <2>1 DEF Fits
<1>7. CASE x.field = "value"
  <2>1. control.field = "value"
    BY <1>1, <1>2, <1>5, <1>7 DEF Fits
  <2>2. control.attr = x.attr /\ x.attr \in DOMAIN ValuesOf(category)
        /\ ValuesOf(category)[x.attr] = control.key
    BY <1>1, <1>2, <1>5, <1>7, <2>1, ObjectsApart DEF Fits
  <2>3. s[x.attr] = payload["value"]
    <3>1. machine'[ValuesOf(category)[x.attr]]["value"] = payload["value"]
      BY <1>6, <2>2
    <3>2. Plain(machine'[ValuesOf(category)[x.attr]]["value"], category)
      BY <1>1, <2>1, <3>1
    <3>3. \A a \in DOMAIN ValuesOf(category) :
            Plain(machine'[ValuesOf(category)[a]]["value"], category)
              => s[a] = machine'[ValuesOf(category)[a]]["value"]
      BY ReadPlain
    <3> QED
      BY <2>2, <3>1, <3>2, <3>3
  <2>4. data'[x.attr] = payload["value"]
    <3>1. data' = [data EXCEPT ![control.attr] = payload["value"]]
      BY <1>1, <2>1
    <3>2. DOMAIN data = AttributesOf(category)
      BY <1>t, AttributesAre DEF Typed, TypeOK
    <3>3. control.attr \in DOMAIN data
      BY <1>1, <3>2 DEF Fits
    <3> QED
      BY <2>2, <3>1, <3>3
  <2>5. x.shows = y.shows
    <3>1. CASE category = "petFeeder"
      BY <1>3, <1>7, <2>3, <2>4, <3>1, FeederShows DEF x, y, ControlsOf, ControlNames
    <3>2. CASE category # "petFeeder"
      BY <1>3, <2>3, <2>4, <3>2, LitterShows DEF x, y, ControlsOf, ControlNames
    <3> QED
      BY <3>1, <3>2
  <2> QED
    BY <1>4, <2>5 DEF x
<1>8. CASE x.field # "value"
  <2>1. control.field # "value"
    BY <1>1, <1>2, <1>5, <1>8 DEF Fits
  <2>2. control.attr = x.attr /\ x.attr \in DOMAIN ObjectsOf(category)
        /\ ObjectsOf(category)[x.attr] = control.key
    BY <1>1, <1>2, <1>5, <1>8, <2>1, ObjectsApart DEF Fits
  <2>3. CASE category = "petFeeder"
    <3> DEFINE a == NestedModelFields[x.attr][x.field]
    <3>1. /\ x.attr \in DOMAIN NestedModelFields
          /\ x.field \in DOMAIN NestedModelFields[x.attr]
          /\ s[a] = data'[a] => x.shows = y.shows
      BY <1>3, <1>8, <2>3, FeederShows DEF x, y, ControlsOf, ControlNames
    <3>2. s = FeederSnapshot(machine', held, label, live, now)
      BY <2>3 DEF Snapshot
    <3>3. s[a] = Stated(a, machine'[ObjectsOf("petFeeder")[x.attr]][x.field])
      <4>1. ASSUME NEW attr \in DOMAIN NestedModelFields,
                   NEW f \in DOMAIN NestedModelFields[attr]
            PROVE  s[NestedModelFields[attr][f]]
                     = Stated(NestedModelFields[attr][f],
                              machine'[ObjectsOf("petFeeder")[attr]][f])
        BY <3>2, ReadStates
      <4> QED
        BY <3>1, <4>1
    <3>4. data'[a] = Stated(a, machine'[ObjectsOf("petFeeder")[x.attr]][x.field])
      BY <1>t, <2>2, <2>3, <3>1, WriteMirrors DEF Feeder
    <3> QED
      BY <1>4, <3>1, <3>3, <3>4 DEF x
  <2>4. CASE category # "petFeeder"
    <3>1. x.attr = "clean_cfg" /\ control.key = "cleanCfg"
      BY <2>2, <2>4 DEF ObjectsOf
    <3>2. s[x.attr] = payload
      <4>1. s = LitterSnapshot(machine', held, label)
        BY <2>4 DEF Snapshot
      <4>2. s["clean_cfg"] = machine'["cleanCfg"]
        BY <4>1 DEF LitterSnapshot
      <4> QED
        BY <1>6, <3>1, <4>2
    <3>3. data'[x.attr] = payload
      <4>1. data' = NoteWritten(data, control, payload)
        BY <1>1, <2>1
      <4>2. DOMAIN data = AttributesOf(category)
        BY <1>t, AttributesAre DEF Typed, TypeOK
      <4>3. x.attr \in DOMAIN data \ MirrorAttributes
        BY <2>2, <4>2, NotMirrors
      <4> QED
        BY <2>2, <4>1, <4>3, NoteIs
    <3> QED
      BY <1>3, <1>4, <2>4, <3>2, <3>3, LitterShows DEF x, y, ControlsOf, ControlNames
  <2> QED
    BY <2>3, <2>4
<1> QED
  BY <1>7, <1>8

LEMMA ServingLeaves ==
  ASSUME MirrorInv, Serving, NEW s, NEW c \in ControlNames(category)
  PROVE  machine'[ControlsOf(category, s)[c].key] = machine[ControlsOf(category, s)[c].key]
<1> DEFINE x == ControlsOf(category, s)[c]
<1>1. Fits(x, category)
  BY ControlsFit
<1>2. x.key \in DOMAIN KeysOf(category) \ ServiceKeys
  <2>1. ASSUME NEW a \in DOMAIN ObjectsOf(category)
        PROVE  ObjectsOf(category)[a] \notin ServiceKeys
    BY DEF ObjectsOf, ServiceKeys
  <2>2. ASSUME NEW a \in DOMAIN ValuesOf(category)
        PROVE  ValuesOf(category)[a] \notin ServiceKeys
    BY DEF ValuesOf, ServiceKeys
  <2> HIDE DEF x
  <2> QED
    BY <1>1, <2>1, <2>2 DEF Fits
<1> HIDE DEF x
<1>3. machine'[x.key] = machine[x.key]
  BY <1>2, ServingKeeps DEF MirrorInv, ReportInv
<1> QED
  BY <1>3 DEF x

(* After a press, a control shows what a new read of the machine would, as *)
(* do the others that show a field of the object it wrote, with what the   *)
(* machine had corrected in the fields that the press only carried         *)
(* (set_property, _note_written_config), as long as the machine goes on    *)
(* stating what it stated of the object.                                   *)
THEOREM PressShows == Spec => PressIsShown
<1> DEFINE Shows ==
             presses' # presses /\ machine' # machine /\ data # NoSnapshot =>
               \A read \in {ControlsOf(category,
                                       Snapshot(category, machine', held, label, live, now))} :
                 \A c \in DOMAIN read \ {"do_not_disturb"} :
                   machine'[read[c].key] # machine[read[c].key] => shown'[c] = read[c].shows
<1>1. MirrorInv /\ [Next]_vars => [Shows]_vars
  <2> SUFFICES ASSUME MirrorInv, Next PROVE Shows
    OBVIOUS
  <2>1. ASSUME Elsewhere \/ HourPasses \/ Scan \/ LeftOut PROVE presses' = presses
    BY <2>1 DEF Elsewhere, Change, HourPasses, Scan, LeftOut
  <2> DEFINE s == Snapshot(category, machine', held, label, live, now)
  <2>2. DOMAIN ControlsOf(category, s) = ControlNames(category)
    BY ControlsDomain
  <2> HIDE DEF s
  <2>3. ASSUME data # NoSnapshot, NEW control, NEW payload, Writing(control, payload),
               NEW c \in ControlNames(category) \ {"do_not_disturb"},
               machine'[ControlsOf(category, s)[c].key]
                 # machine[ControlsOf(category, s)[c].key]
        PROVE  shown'[c] = ControlsOf(category, s)[c].shows
    BY <2>3, WritingShows DEF s
  <2>4. Typed
    BY DEF MirrorInv, ReportInv
  <2>5. ASSUME presses' # presses, data # NoSnapshot,
               NEW c \in ControlNames(category) \ {"do_not_disturb"},
               machine'[ControlsOf(category, s)[c].key]
                 # machine[ControlsOf(category, s)[c].key]
        PROVE  shown'[c] = ControlsOf(category, s)[c].shows
    BY <2>1, <2>3, <2>4, <2>5, Steps, ServingLeaves
  <2> QED
    BY <2>2, <2>5 DEF s
<1>2. Spec => []MirrorInv
  BY InitMirrors, StepMirrors, PTL DEF Spec
<1> QED
  BY <1>1, <1>2, PTL DEF Spec, PressIsShown
=============================================================================
