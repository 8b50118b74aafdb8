-------------------------------- MODULE Controls -------------------------------
(***************************************************************************)
(* One device between its scans: presses write its controls and note them  *)
(* in the model, services act on it, the mobile app changes it, scans read *)
(* it again, and after each of these the entities report or not            *)
(* (coordinator.py, set_property to mark_bin_clean, and the entities).     *)
(*                                                                         *)
(* A press and a scan are one step each: what happens between their awaits *)
(* is in DeviceWrites and DeviceRead.  The property read of a press finds  *)
(* what the machine has.                                                   *)
(***************************************************************************)
EXTENDS EntityStates

CONSTANTS
  Hours,       \* the hours at which something may happen
  Labels,      \* the labels a device may be given
  States,      \* the properties each category may start with
  Uses,        \* the litter box's records, newest first, one set of them per use
  Meals,       \* what a meal may weigh: [feed_weight, water_weight]
  Weighings,   \* what the scale may answer: [gram, bowlGram]
  Settings,    \* what the app may set: sets of [key, field, to]
  NoStamp,     \* state_fingerprint of a device that is not in the model
  MaxPresses,  \* bound: presses
  MaxChanges   \* bound: changes that come from elsewhere

ASSUME HoursAssumption ==
  /\ Hours \subseteq Nat
  /\ \A h \in Hours : \E m \in Midnights : m <= h

(* Properties have the keys and fields of the category.                    *)
Shaped(properties, keys) ==
  /\ DOMAIN properties = DOMAIN keys
  /\ \A k \in DOMAIN keys : DOMAIN properties[k] = keys[k]
  /\ properties = [k \in DOMAIN keys |-> [f \in keys[k] |-> properties[k][f]]]

ASSUME StatesAssumption ==
  \A cat \in DOMAIN States : \A properties \in States[cat] : Shaped(properties, KeysOf(cat))
(* The app sets fields that there are, and leaves none of a configuration  *)
(* object that a press rewrites unstated.                                  *)
ASSUME SettingsAssumption ==
  \A cat \in DOMAIN States : \A s \in Settings[cat] :
    /\ s.key \in DOMAIN KeysOf(cat) /\ s.field \in KeysOf(cat)[s.key]
    /\ s.to = Missing =>
         s.key \notin {"displayCfg", "freshMgrCfg", "feedAudCfg", "defFdCfg"}
ASSUME CountsAssumption == MaxPresses \in Nat /\ MaxChanges \in Nat

VARIABLES
  category,  \* category_key
  now,       \* the hour
  machine,   \* the properties of the machine
  records,   \* the records of the account: meals, or uses of the litter box
  label,     \* its label in the account
  live,      \* what its scale answers
  data,      \* its snapshot, or NoSnapshot
  held,      \* the records it was built from
  built,     \* the hour it was built
  stamp,     \* what the fingerprint was taken from
  shown,     \* the states reported
  noted,     \* _last_state_stamp
  reported,  \* the hour at which they were
  presses,   \* presses so far
  changes    \* changes so far

wire == <<category, machine, records, label, live>>
model == <<data, held, built, stamp>>
entities == <<shown, noted, reported>>
vars == <<wire, now, model, entities, presses, changes>>

Feeder == category = "petFeeder"

-----------------------------------------------------------------------------
(* The entities of the category.                                           *)

ControlsOf(cat, s) == IF cat = "petFeeder" THEN FeederControls(s) ELSE LitterControls(s)

SensorsOf(cat, s) ==
  IF cat = "petFeeder"
  THEN Beside(FeederSensors(s), FeederBinarySensors(s))
  ELSE Beside(LitterSensors(s), LitterBinarySensors(s))

StatesOf(cat, s) ==
  LET controls == ControlsOf(cat, s)
  IN  Beside(SensorsOf(cat, s), [c \in DOMAIN controls |-> controls[c].shows])

Snapshot(cat, properties, rows, name, weighing, hour) ==
  IF cat = "petFeeder"
  THEN FeederSnapshot(properties, rows, name, weighing, hour)
  ELSE LitterSnapshot(properties, rows, name)

(* What a device starts with.                                              *)
NoRecords(cat) == IF cat = "petFeeder" THEN {} ELSE <<>>
Unweighed == [gram |-> Missing, bowlGram |-> Missing]

(* Mutated form of Payload: the weighing is left out of the stamp.         *)
PayloadStored(properties, rows, weighing) == [props |-> properties, records |-> rows]

(* What _mark_state_changed takes the stamp from at a read.                *)
Payload(properties, rows, weighing) ==
  [props |-> properties, records |-> rows, live |-> weighing]

(* And at a press: a counter.                                              *)
Bumped == [manual |-> presses']

-----------------------------------------------------------------------------
Init ==
  /\ category \in DOMAIN States
  /\ now \in Hours /\ \A h \in Hours : now <= h
  /\ machine \in States[category]
  /\ records = NoRecords(category)
  /\ label = None
  /\ live = Unweighed
  /\ data = Snapshot(category, machine, records, label, live, now)
  /\ held = records
  /\ built = now
  /\ stamp = Payload(machine, records, live)
  /\ shown = StatesOf(category, data)
  /\ noted = stamp
  /\ reported = now
  /\ presses = 0
  /\ changes = 0

(* The fingerprint an entity is given, and write_state_if_changed.         *)
Fingerprint == IF data' = NoSnapshot THEN NoStamp ELSE stamp'

Report ==
  IF Fingerprint # NoStamp /\ Fingerprint = noted
  THEN UNCHANGED entities
  ELSE /\ shown' = StatesOf(category, data')
       /\ noted' = Fingerprint
       /\ reported' = now

-----------------------------------------------------------------------------
(* Presses.                                                                *)

Press == presses < MaxPresses /\ presses' = presses + 1

(* The properties of the snapshot that are noted beside a written object:  *)
(* _NESTED_MODEL_FIELDS.                                                   *)
NestedModelFields ==
  [display_cfg |-> [displayType |-> "display_type", displayParam |-> "display_param",
                    bDisplayIfIdle |-> "display_when_idle"],
   fresh_mgr_cfg |-> [bOnOff |-> "fresh_mgr_on"],
   feed_aud_cfg |-> [volume |-> "sound_volume"],
   feed_cfg |-> [mixMin |-> "mix_min_minutes"]]

Mirrored(attr) == IF attr \in DOMAIN NestedModelFields THEN NestedModelFields[attr] ELSE <<>>

Converted(attr, stated) ==
  IF attr \in {"fresh_mgr_on", "display_when_idle"} THEN IsOne(stated)
  ELSE IF attr = "display_param" THEN stated ELSE OptionalInt(stated)

(* Mutated form of NoteWritten: the object is noted, its fields are not.   *)
NoteRaw(s, control, payload) == [s EXCEPT ![control.attr] = payload]

(* setattr and _note_written_config.                                       *)
NoteWritten(s, control, payload) ==
  LET mirror == Mirrored(control.attr)
      fields == {f \in DOMAIN mirror \cap DOMAIN payload : payload[f] # Missing}
  IN  [a \in DOMAIN s |->
         IF a = control.attr THEN payload
         ELSE IF \E f \in fields : mirror[f] = a
         THEN Converted(a, payload[CHOOSE f \in fields : mirror[f] = a])
         ELSE s[a]]

(* Mutated form of Merge: the model's object is written as it is.          *)
MergeNot(control, asked, stated) == asked

(* Mutated form of Merge: only the field pressed is sent.                  *)
MergeOwn(control, asked, stated) ==
  [f \in {control.field} |-> asked[f]]

(* What a press writes: a field that differs from the model's object as    *)
(* asked, the others as the machine states them now; all as asked when it  *)
(* states nothing.                                                         *)
Merge(control, asked, stated) ==
  IF \A f \in DOMAIN stated : stated[f] = Missing THEN asked
  ELSE [f \in DOMAIN stated |->
          IF asked[f] # Missing /\ (data = NoSnapshot \/ asked[f] # data[control.attr][f])
          THEN asked[f] ELSE stated[f]]

(* The object a control asks for: the model's with its own field set.      *)
Asked(control, to) ==
  LET copy == IF data = NoSnapshot
              THEN [f \in DOMAIN machine[control.key] |-> Missing]
              ELSE data[control.attr]
  IN  [copy EXCEPT ![control.field] = to]

(* set_property, and the push of a device that is in the model.            *)
Write(control, payload) ==
  /\ machine' = [machine EXCEPT ![control.key] = payload]
  /\ IF data = NoSnapshot
     THEN UNCHANGED <<data, stamp, entities>>
     ELSE /\ data' = IF control.field = "value"
                     THEN [data EXCEPT ![control.attr] = payload.value]
                     ELSE NoteWritten(data, control, payload)
          /\ stamp' = Bumped
          /\ Report
  /\ UNCHANGED <<category, records, label, live, now, held, built, changes>>

Set(control, to) ==
  /\ Press
  /\ data # NoSnapshot \/ control.leftOut
  /\ Write(control, IF control.field = "value" THEN [value |-> to]
                    ELSE Merge(control, Asked(control, to), machine[control.key]))

(* mark_bin_clean; the two stamps it takes may differ by a second.         *)
MarkBinClean(key, attr) ==
  /\ Feeder
  /\ Press
  /\ Write([key |-> key, attr |-> attr, field |-> "value"], [value |-> now])

MarkWaterBinClean == MarkBinClean("lastWaterBinCleanTime", "last_water_bin_clean")
MarkFoodBinClean == MarkBinClean("lastFoodBinCleanTime", "last_food_bin_clean")

(* A service answered: a push with a new stamp.                            *)
Service ==
  /\ Press
  /\ UNCHANGED data
  /\ IF data = NoSnapshot THEN UNCHANGED <<stamp, entities>> ELSE stamp' = Bumped /\ Report
  /\ UNCHANGED <<category, records, label, live, now, held, built, changes>>

(* invoke_service: the litter box starts a cycle.                          *)
Cycle(status) ==
  /\ ~Feeder
  /\ machine' = [machine EXCEPT !.bucketStatus.value = status]
  /\ Service

Clean == Cycle(1)
Level == Cycle(3)

(* invoke_device_service of the feeder.                                    *)
FeederService(outcome) ==
  /\ machine' = outcome
  /\ Service

(* request_desiccant_reset: the days stated, or the longest.               *)
RequestDesiccantReset ==
  LET stated == Of(data, "desiccant_days_effective")
  IN  FeederService([machine EXCEPT !.leftDrierDays.value =
                       IF stated \in {None, 0} THEN 60 ELSE stated])

(* request_bowl_scale_reset, refused when no tare is known.                *)
RequestBowlScaleReset ==
  LET tare == Of(data, "bowl_tare_g")
  IN  tare # None /\ FeederService([machine EXCEPT !.bowlStatus.bowlGram = tare])

ResetDesiccant == Feeder /\ RequestDesiccantReset
ResetBowlScale == Feeder /\ RequestBowlScaleReset
CalibrateFoodScale == Feeder /\ FeederService(machine)

-----------------------------------------------------------------------------
(* What happens elsewhere.                                                 *)

Change ==
  /\ changes < MaxChanges
  /\ changes' = changes + 1
  /\ UNCHANGED <<category, now, model, entities, presses>>

AppSets(s) ==
  /\ Change
  /\ machine' = [machine EXCEPT ![s.key][s.field] = s.to]
  /\ UNCHANGED <<records, label, live>>

AppRelabels(name) ==
  /\ Change
  /\ label' = name
  /\ UNCHANGED <<machine, records, live>>

(* A meal is recorded, at its hour or in the thousandths of it; a row is   *)
(* one of its own, however like another it is.                             *)
MealServed(meal) ==
  /\ Feeder
  /\ Change
  /\ \E stated \in {now, now * MilliPerHour} :
       records' = records \cup {[id |-> changes', feed_time |-> stated,
                                 feed_weight |-> meal.feed_weight,
                                 water_weight |-> meal.water_weight]}
  /\ UNCHANGED <<machine, label, live>>

CatUses(use) ==
  /\ ~Feeder
  /\ Change
  /\ records' = <<use>> \o records
  /\ machine' = [machine EXCEPT !.catLeft.time = changes + 1]
  /\ UNCHANGED <<label, live>>

ScaleAnswers(answer) ==
  /\ Feeder
  /\ Change
  /\ live' = answer
  /\ UNCHANGED <<machine, records, label>>

HourPasses ==
  /\ \E later \in Hours :
       later > now /\ now' = later /\ \A h \in Hours : h > now => later <= h
  /\ UNCHANGED <<wire, model, entities, presses, changes>>

-----------------------------------------------------------------------------
(* Scans: the records are read, or the ones held serve.                    *)

Scan ==
  /\ held' \in {held, records}
  /\ data' = Snapshot(category, machine, held', label, live, now)
  /\ built' = now
  /\ stamp' = Payload(machine, held', live)
  /\ Report
  /\ UNCHANGED <<wire, now, presses, changes>>

(* The device's read fails, and the scan goes on without it.               *)
LeftOut ==
  /\ data # NoSnapshot
  /\ data' = NoSnapshot
  /\ UNCHANGED <<held, built, stamp>>
  /\ Report
  /\ UNCHANGED <<wire, now, presses, changes>>

Next ==
  \/ LET controls == ControlsOf(category, data)
     IN  \E c \in DOMAIN controls : \E to \in controls[c].values : Set(controls[c], to)
  \/ MarkWaterBinClean
  \/ MarkFoodBinClean
  \/ Clean
  \/ Level
  \/ ResetDesiccant
  \/ ResetBowlScale
  \/ CalibrateFoodScale
  \/ \E s \in Settings[category] : AppSets(s)
  \/ \E name \in Labels : AppRelabels(name)
  \/ \E meal \in Meals : MealServed(meal)
  \/ \E use \in Uses : CatUses(use)
  \/ \E answer \in Weighings : ScaleAnswers(answer)
  \/ HourPasses
  \/ Scan
  \/ LeftOut

Spec == Init /\ [][Next]_vars

-----------------------------------------------------------------------------
Attributes(cat) ==
  DOMAIN Snapshot(cat, CHOOSE properties \in States[cat] : TRUE, NoRecords(cat), None,
                  Unweighed, CHOOSE h \in Hours : TRUE)

TypeOK ==
  /\ category \in DOMAIN States
  /\ now \in Hours
  /\ Shaped(machine, KeysOf(category))
  /\ label \in Labels \cup {None}
  /\ data = NoSnapshot \/ DOMAIN data = Attributes(category)
  /\ {built, reported} \subseteq Hours
  /\ DOMAIN shown = DOMAIN StatesOf(category, data)
  /\ presses \in 0 .. MaxPresses
  /\ changes \in 0 .. MaxChanges

-----------------------------------------------------------------------------
Intakes == {"food_intake_today", "food_intake_today_solids", "food_intake_today_liquid"}

(* What entities report is what the model says: an entity that skips a     *)
(* report has nothing else to show, whether the model was read again, was  *)
(* written by a press, went away or came back (state_fingerprint,          *)
(* write_state_if_changed).  The label is not in the stamp, and the day    *)
(* figures are of the day of the last report.                              *)
ReportedIsTheModel ==
  LET states == StatesOf(category, data)
  IN  \A e \in DOMAIN shown \ {"label"} :
        \/ shown[e] = states[e]
        \/ e \in Intakes /\ DayStart(reported) # DayStart(built)

(* After a press, the control and the others that show a field of the same *)
(* object show what a new read of the machine would, with what the machine *)
(* corrected in the fields the press only carried (_note_written_config).  *)
(* Do not disturb is left out: nothing notes its field.                    *)
PressIsShown ==
  [][presses' # presses /\ machine' # machine /\ data # NoSnapshot =>
       \A read \in {ControlsOf(category,
                               Snapshot(category, machine', held, label, live, now))} :
         \A c \in DOMAIN read \ {"do_not_disturb"} :
           machine'[read[c].key] # machine[read[c].key] => shown'[c] = read[c].shows]_vars

(* A press moves one field of the machine, whatever the model still says   *)
(* of the others: what it carries beside its own is what the machine       *)
(* states now, unless that is nothing (set_property).                      *)
PressMovesOne ==
  [][presses' # presses =>
       \A k \in {k \in DOMAIN machine : machine'[k] # machine[k]} :
         \/ \A f \in DOMAIN machine[k] : machine[k][f] = Missing
         \/ \E f \in DOMAIN machine[k] :
              machine' = [machine EXCEPT ![k][f] = machine'[k][f]]]_vars

(* The hours of the day of an hour, from its midnight to the next.         *)
Today(hour) ==
  LET later == {m \in Midnights : m > hour}
  IN  IF later = {} THEN DayStart(hour) .. DayStart(hour) + 23
      ELSE DayStart(hour) .. Min(later) - 1

MealHour(row) == IF IsMilli(row.feed_time) THEN row.feed_time \div MilliPerHour ELSE row.feed_time

(* The day figure sums the meals of the local day and no other, in         *)
(* whichever unit a row states its moment, on days of at most 24 hours     *)
(* (_served_day_bounds, _served_today).                                    *)
ServedIsTheDays ==
  Feeder /\ data # NoSnapshot /\ Cardinality(Today(built)) <= 24 =>
    LET meals == {row \in held : MealHour(row) \in Today(built)}
    IN  /\ data.feed_today_solids_g =
              IF meals = {} THEN None ELSE Solids(meals)
        /\ data.feed_today_liquid_g =
              IF meals = {} THEN None ELSE Liquids(meals)
=============================================================================
