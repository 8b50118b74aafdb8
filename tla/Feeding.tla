--------------------------------- MODULE Feeding --------------------------------
(***************************************************************************)
(* Feeding with a Riko (coordinator.py, feed_once and what it uses): the   *)
(* numbers stage amounts for the next meal, Feed now takes them, asks the  *)
(* machine for the meal and drops them, and, when the amounts are to be    *)
(* kept, stores them as the machine's defaults with a second call.  Scans  *)
(* replace the model meanwhile or leave the feeder out of it, and the      *)
(* mobile app sets the defaults too.                                       *)
(*                                                                         *)
(* The model of the feeder is its defFdCfg, in snapshots with identities   *)
(* as in DeviceWrites, which also has the updates that fail.  The object   *)
(* is stated whole or not at all.  A bump of the stamp is pushed in the    *)
(* step that makes it, so one value stands for all bumped stamps.          *)
(***************************************************************************)
EXTENDS Integers, FiniteSets

CONSTANTS
  Feeds,      \* the tasks that press Feed now
  Foods,      \* the portions on offer, in grams
  Ratios,     \* the ratios of water to food on offer
  Stated,     \* the defaults the machine may state at first, or NoConfig
  Settings,   \* the defaults the app may set
  Minutes,    \* the rehydration a machine that stated none may keep a meal with
  NoConfig,   \* an object that is not there
  MaxPresses  \* bound: presses of the numbers, the switch and the button, and
              \* settings made in the app

Configs == [food : Nat, water : Nat, mixMin : Nat]
Meals == [food : Nat, ratio : Nat, keep : BOOLEAN]

ASSUME FeedsAssumption == IsFiniteSet(Feeds)
ASSUME AmountsAssumption == Foods \subseteq 3 .. 15 /\ Ratios \subseteq 1 .. 5
ASSUME StatedAssumption ==
  Stated \subseteq Configs \cup {NoConfig} /\ Settings \subseteq Configs /\ NoConfig \notin Configs
ASSUME MinutesAssumption == Minutes \subseteq Nat
ASSUME BoundsAssumption == MaxPresses \in Nat

VARIABLES
  machine,  \* defFdCfg on the machine, or NoConfig
  cached,   \* the defFdCfg in the properties cache
  snaps,    \* the snapshots, by identity: their feed_cfg
  data,     \* the snapshot the coordinator shows, or NoSnap
  pending,  \* _pending_feed
  presses,  \* presses so far, the app's among them
  keep,     \* feed_keep_as_new_defaults
  last,     \* _last_feed, or NoMeal
  stamp,    \* what a scan read beside the staged, or Bumped
  entity,   \* what the numbers and the switch show, and the stamp they noted
  scan,     \* what the scan awaits
  read,     \* what it read
  pc,       \* what each feed awaits
  args,     \* the meal it asks for
  snap,     \* the snapshot its write is for
  value,    \* the object it asks to write, then the one it writes
  crossed,  \* history: the feeds an amount was staged beside
  quiet,    \* history: all that was read was the machine's when each meal was
            \* served, and no one else has touched the machine since
  blind,    \* history: the feeds that stored without a config in the model
  silent,   \* history: what Feed now would use changed without a push, after
            \* the last scan's mark and the last report
  sound     \* history: the stamp noted is that of what was reported

staged == <<pending, presses, keep, last, crossed>>
model == <<snaps, data>>
report == <<stamp, entity, silent, sound>>
scanning == <<scan, read>>
feed == <<pc, args, snap, value, quiet, blind>>
vars == <<machine, cached, model, staged, report, scanning, feed>>

None == 0
NoAmounts == [food |-> None, ratio |-> None]
NoMeal == [food |-> 0, ratio |-> 0, keep |-> FALSE]
NoSnap == 0
Stamp(by, r, p, k, l) == [by |-> by, read |-> r, pending |-> p, keep |-> k, last |-> l]
Bumped == Stamp("press", NoConfig, NoAmounts, FALSE, NoMeal)
NoStamp == Stamp("nobody", NoConfig, NoAmounts, FALSE, NoMeal)
SnapIds == 1 .. Cardinality(Feeds) + 1
Locations == {"idle", "asking", "storing", "reading", "writing", "written"}

-----------------------------------------------------------------------------
(* Amounts.                                                                *)

(* The defaults in the model: a feeder left out has none.                  *)
Shown(snapshots, id) == IF id = NoSnap THEN NoConfig ELSE snapshots[id]
Model == Shown(snaps, data)

DefaultFood == 5
DefaultRatio == 1

(* Python's round of a quotient: a half goes to the even neighbour.        *)
Round(n, d) ==
  LET q == n \div d
      r == n % d
  IN  IF 2 * r < d THEN q ELSE IF 2 * r > d THEN q + 1 ELSE q + (q % 2)

Clamp(n, low, high) == IF n < low THEN low ELSE IF n > high THEN high ELSE n

(* Mutated form of ConfiguredDefaults: any portion above none is taken.    *)
ConfiguredAny(cfg) ==
  IF cfg = NoConfig \/ cfg.food = 0 \/ cfg.water = 0
  THEN NoAmounts
  ELSE [food |-> cfg.food, ratio |-> Clamp(Round(cfg.water, cfg.food), 1, 5)]

(* _configured_feed_defaults: the portion and the ratio the machine keeps, *)
(* or None of both.                                                        *)
ConfiguredDefaults(cfg) ==
  IF cfg = NoConfig \/ cfg.food \notin 3 .. 15 \/ cfg.water = 0
  THEN NoAmounts
  ELSE [food |-> cfg.food, ratio |-> Clamp(Round(cfg.water, cfg.food), 1, 5)]

Or(n, default) == IF n # None THEN n ELSE default

(* feed_values: what the next feed would use.                              *)
FeedValues(now, cfg) ==
  LET stored == ConfiguredDefaults(cfg)
  IN  [food  |-> Or(now.food, Or(stored.food, DefaultFood)),
       ratio |-> Or(now.ratio, Or(stored.ratio, DefaultRatio))]

(* What the two numbers show of it, food_grams.py and water_ratio.py, and  *)
(* the switch beside them, feed_keep_defaults.py.                          *)
FoodGrams(now, cfg) == FeedValues(now, cfg).food
WaterRatio(now, cfg) == FeedValues(now, cfg).ratio
States(now, cfg, on) ==
  [food |-> FoodGrams(now, cfg), ratio |-> WaterRatio(now, cfg), keep |-> on]

-----------------------------------------------------------------------------
Init ==
  /\ machine \in Stated
  /\ cached = machine
  /\ snaps = [i \in SnapIds |-> IF i = 1 THEN machine ELSE NoConfig]
  /\ data = 1
  /\ pending = NoAmounts
  /\ presses = 0
  /\ keep \in BOOLEAN
  /\ last = NoMeal
  /\ stamp = Stamp("scan", machine, pending, keep, last)
  /\ entity = [shown |-> States(pending, machine, keep), stamp |-> stamp]
  /\ scan = "idle"
  /\ read = NoConfig
  /\ pc = [t \in Feeds |-> "idle"]
  /\ args = [t \in Feeds |-> NoMeal]
  /\ snap = [t \in Feeds |-> NoSnap]
  /\ value = [t \in Feeds |-> NoConfig]
  /\ crossed = {}
  /\ quiet = [t \in Feeds |-> FALSE]
  /\ blind = {}
  /\ silent = FALSE
  /\ sound = TRUE

At(t, from, to) ==
  /\ pc[t] = from
  /\ pc' = [pc EXCEPT ![t] = to]

-----------------------------------------------------------------------------
(* Reporting: write_state_if_changed of the numbers and the switch.        *)

(* What they report, with the fingerprint they note.                       *)
Reported ==
  [shown |-> States(pending', Shown(snaps', data'), keep'),
   stamp |-> IF data' = NoSnap THEN NoStamp ELSE stamp']

(* _mark_state_changed for a user's action, and the push that follows it:  *)
(* the stamp is a new one, or there is none, so all of them report.        *)
BumpAndPush ==
  /\ stamp' = Bumped
  /\ entity' = Reported
  /\ silent' = FALSE
  /\ sound' = (scan # "marked" \/ data = NoSnap)

(* A change that is pushed only when the feeder is in the data.            *)
PushIfShown ==
  IF data # NoSnap THEN BumpAndPush ELSE silent' = TRUE /\ UNCHANGED <<stamp, entity, sound>>

-----------------------------------------------------------------------------
(* What the numbers and the switch set.                                    *)

(* Someone presses, here or in the app.                                    *)
Press ==
  /\ presses < MaxPresses
  /\ presses' = presses + 1

(* Mutated form of Staged: the amount staged before is forgotten.          *)
StagedAlone(part, n) == [NoAmounts EXCEPT ![part] = n]

Staged(part, n) == [pending EXCEPT ![part] = n]

(* set_pending_feed.                                                       *)
Stage(part, n) ==
  /\ Press
  /\ pending' = Staged(part, n)
  /\ crossed' = {t \in Feeds : pc[t] = "asking"}
  /\ UNCHANGED <<machine, cached, model, keep, last, scanning, feed>>
  /\ PushIfShown

SetFoodGrams(n) == Stage("food", n)
SetWaterRatio(n) == Stage("ratio", n)

(* set_feed_keep_as_new_defaults, from its switch.                         *)
SetKeep(on) ==
  /\ Press
  /\ keep' = on
  /\ UNCHANGED <<machine, cached, model, pending, last, crossed, scanning, feed>>
  /\ PushIfShown

-----------------------------------------------------------------------------
(* Feed now: feed_once.                                                    *)

(* What the meal uses.                                                     *)
Meal == LET now == FeedValues(pending, Model)
        IN  [food |-> now.food, ratio |-> now.ratio, keep |-> keep]

(* The amounts are taken before the first await.                           *)
Take(t) ==
  /\ Press
  /\ At(t, "idle", "asking")
  /\ args' = [args EXCEPT ![t] = Meal]
  /\ UNCHANGED <<machine, cached, model, pending, keep, last, crossed, report,
                 scanning, snap, value, quiet, blind>>

(* Mutated form of Wanted: the ratio is stored where the water belongs.    *)
WantedRatio(meal, cfg) ==
  [food |-> meal.food, water |-> meal.ratio,
   mixMin |-> IF cfg = NoConfig THEN 1 ELSE cfg.mixMin]

(* What set_feed_config asks to write: the model's minutes, or one.        *)
Wanted(meal, cfg) ==
  [food |-> meal.food, water |-> meal.food * meal.ratio,
   mixMin |-> IF cfg = NoConfig THEN 1 ELSE cfg.mixMin]

(* What the machine has of a meal it may keep by itself.                   *)
Keeping(meal) ==
  {machine} \cup
    IF meal.keep
    THEN {[food |-> meal.food, water |-> meal.food * meal.ratio, mixMin |-> m] :
            m \in IF machine = NoConfig THEN Minutes ELSE {machine.mixMin}}
    ELSE {}

(* All that was read is what the machine has.                              *)
UpToDate == {Model, cached, read} \subseteq {machine, NoConfig}

(* The machine serves the meal; asked to keep it, it may or may not.  The  *)
(* amounts staged are dropped, whichever they are now.                     *)
MealServed(t) ==
  /\ At(t, "asking", IF args[t].keep THEN "storing" ELSE "idle")
  /\ machine' \in Keeping(args[t])
  /\ last' = args[t]
  /\ pending' = NoAmounts
  /\ crossed' = crossed \ {t}
  /\ UNCHANGED <<cached, model, presses, keep, scanning, snap>>
  /\ IF args[t].keep
     THEN /\ value' = [value EXCEPT ![t] = Wanted(args[t], Model)]
          /\ quiet' = [u \in Feeds |-> u = t /\ UpToDate]
          /\ blind' = IF Model = NoConfig THEN blind \cup {t} ELSE blind \ {t}
          /\ UNCHANGED <<args, report>>
     ELSE /\ args' = [args EXCEPT ![t] = NoMeal]
          /\ PushIfShown
          /\ UNCHANGED <<value, quiet, blind>>

(* The call raises, whether the machine served the meal or not.            *)
MealFails(t) ==
  /\ At(t, "asking", "idle")
  /\ machine' \in Keeping(args[t])
  /\ args' = [args EXCEPT ![t] = NoMeal]
  /\ crossed' = crossed \ {t}
  /\ quiet' = [u \in Feeds |-> quiet[u] /\ ~args[t].keep]
  /\ UNCHANGED <<cached, model, pending, presses, keep, last, report, scanning, snap, value,
                 blind>>

-----------------------------------------------------------------------------
(* Storing the defaults: set_property of feed_cfg.                         *)

(* The client is there; the snapshot is taken and the read begins.         *)
StoreTake(t) ==
  /\ At(t, "storing", "reading")
  /\ snap' = [snap EXCEPT ![t] = data]
  /\ UNCHANGED <<machine, cached, model, staged, report, scanning, args, value, quiet,
                 blind>>

(* A field that differs from the snapshot is sent as asked for, any other  *)
(* one as the machine states it; all as asked when it states nothing.      *)
Merge(asked, stale, stated) ==
  IF stated = NoConfig THEN asked
  ELSE [f \in DOMAIN asked |->
          IF stale = NoConfig \/ asked[f] # stale[f] THEN asked[f] ELSE stated[f]]

(* _get_properties: the machine answers, or the cloud fails and the cache  *)
(* does.                                                                   *)
Answers == {machine, cached}

StoreSend(t) ==
  /\ At(t, "reading", "writing")
  /\ \E answer \in Answers :
       /\ cached' = answer
       /\ value' = [value EXCEPT ![t] = Merge(@, Shown(snaps, snap[t]), answer)]
  /\ UNCHANGED <<machine, model, staged, report, scanning, args, snap, quiet, blind>>

(* The call returns: its variables are gone, and the snapshot if no one    *)
(* else holds it.                                                          *)
Return(t, held) ==
  /\ args' = [args EXCEPT ![t] = NoMeal]
  /\ value' = [value EXCEPT ![t] = NoConfig]
  /\ snap' = [snap EXCEPT ![t] = NoSnap]
  /\ quiet' = [u \in Feeds |-> FALSE]
  /\ blind' = blind \ {t}
  /\ snaps' = [i \in SnapIds |->
                 IF i = data \/ \E u \in Feeds : snap'[u] = i
                 THEN held[i] ELSE NoConfig]

(* The read or the write raises; feed_once logs it and returns, and no one *)
(* is told that the staged amounts are gone.                               *)
StoreFails(t) ==
  /\ \E from \in {"storing", "reading", "writing"} : At(t, from, "idle")
  /\ machine' \in {machine} \cup (IF pc[t] = "writing" THEN {value[t]} ELSE {})
  /\ silent' = TRUE
  /\ Return(t, snaps)
  /\ UNCHANGED <<cached, data, staged, stamp, entity, sound, scanning>>

StoreWritten(t) ==
  /\ At(t, "writing", "written")
  /\ machine' = value[t]
  /\ quiet' = [u \in Feeds |-> quiet[u] /\ u = t]
  /\ UNCHANGED <<cached, model, staged, report, scanning, args, snap, value,
                 blind>>

(* What was written is noted in the snapshot taken, if there was one, and  *)
(* pushed.                                                                 *)
StoreNoted(t) ==
  /\ At(t, "written", "idle")
  /\ Return(t, [i \in SnapIds |-> IF i = snap[t] THEN value[t] ELSE snaps[i]])
  /\ UNCHANGED <<machine, cached, data, staged, scanning>>
  /\ IF snap[t] # NoSnap
     THEN BumpAndPush
     ELSE silent' = TRUE /\ UNCHANGED <<stamp, entity, sound>>

-----------------------------------------------------------------------------
(* A scan.                                                                 *)

ScanReads ==
  /\ scan = "idle"
  /\ scan' = "read"
  /\ read' \in Answers
  /\ cached' = read'
  /\ UNCHANGED <<machine, model, staged, report, feed>>

(* _mark_state_changed with what was read, before the data is replaced.    *)
ScanMarks ==
  /\ scan = "read"
  /\ scan' = "marked"
  /\ stamp' = Stamp("scan", read, pending, keep, last)
  /\ silent' = FALSE
  /\ UNCHANGED <<machine, cached, model, staged, entity, sound, read, feed>>

Held == {snap[t] : t \in Feeds}
Free == CHOOSE i \in SnapIds : i \notin Held

(* Mutated form of Moved: a stamp counts as new when the machine's answer  *)
(* is new, whatever was staged.                                            *)
MovedByRead == stamp.read # entity.stamp.read

(* Whether write_state_if_changed reports.                                 *)
Moved == stamp # entity.stamp

(* The data is replaced, without what no press works on any more.          *)
Replace(id) ==
  /\ scan' = "idle"
  /\ data' = id
  /\ snaps' = [i \in SnapIds |->
                 IF i \in Held THEN snaps[i] ELSE IF i = id THEN read ELSE NoConfig]
  /\ read' = NoConfig

ScanEnds ==
  /\ scan = "marked"
  /\ Replace(Free)
  /\ UNCHANGED <<machine, cached, staged, stamp, silent, feed>>
  /\ IF Moved
     THEN /\ entity' = Reported
          /\ sound' = (stamp # Bumped => stamp.pending = pending /\ stamp.keep = keep)
     ELSE UNCHANGED <<entity, sound>>

(* A read of the feeder fails, and the scan goes on without it.            *)
ScanLeavesOut ==
  /\ scan \in {"idle", "read"}
  /\ Replace(NoSnap)
  /\ UNCHANGED <<machine, cached, staged, stamp, feed>>
  /\ entity' = Reported
  /\ silent' = FALSE
  /\ sound' = TRUE

(* The mobile app sets the defaults.                                       *)
AppSets(cfg) ==
  /\ Press
  /\ machine' = cfg
  /\ quiet' = [t \in Feeds |-> FALSE]
  /\ UNCHANGED <<cached, model, pending, keep, last, crossed, report, scanning, pc, args, snap,
                 value, blind>>

Next ==
  \/ \E n \in Foods : SetFoodGrams(n)
  \/ \E n \in Ratios : SetWaterRatio(n)
  \/ \E on \in BOOLEAN : SetKeep(on)
  \/ \E t \in Feeds :
       \/ Take(t)
       \/ MealServed(t)
       \/ MealFails(t)
       \/ StoreTake(t)
       \/ StoreSend(t)
       \/ StoreFails(t)
       \/ StoreWritten(t)
       \/ StoreNoted(t)
  \/ ScanReads
  \/ ScanMarks
  \/ ScanEnds
  \/ ScanLeavesOut
  \/ \E cfg \in Settings : AppSets(cfg)

Spec == Init /\ [][Next]_vars

-----------------------------------------------------------------------------
Amounts == [food : {None} \cup 3 .. 15, ratio : {None} \cup 1 .. 5]
Stamps == [by : {"scan", "press", "nobody"}, read : Configs \cup {NoConfig},
           pending : Amounts, keep : BOOLEAN, last : Meals]

TypeOK ==
  /\ machine \in Configs \cup {NoConfig}
  /\ cached \in Configs \cup {NoConfig}
  /\ snaps \in [SnapIds -> Configs \cup {NoConfig}]
  /\ data \in SnapIds \cup {NoSnap}
  /\ pending \in Amounts
  /\ presses \in 0 .. MaxPresses
  /\ keep \in BOOLEAN
  /\ last \in Meals
  /\ stamp \in Stamps
  /\ entity \in [shown : [food : 3 .. 15, ratio : 1 .. 5, keep : BOOLEAN], stamp : Stamps]
  /\ scan \in {"idle", "read", "marked"}
  /\ read \in Configs \cup {NoConfig}
  /\ pc \in [Feeds -> Locations]
  /\ args \in [Feeds -> Meals]
  /\ snap \in [Feeds -> SnapIds \cup {NoSnap}]
  /\ value \in [Feeds -> Configs \cup {NoConfig}]
  /\ crossed \subseteq Feeds
  /\ quiet \in [Feeds -> BOOLEAN]
  /\ blind \subseteq Feeds
  /\ silent \in BOOLEAN
  /\ sound \in BOOLEAN

-----------------------------------------------------------------------------
(* An amount staged for the next feed is dropped only by a meal that was   *)
(* served with it, or by one it was staged beside: a refused meal leaves   *)
(* it for the next press, and so does everything else (feed_once pops      *)
(* what is staged after the call it was taken for).                        *)
StagedAreFed ==
  [][\A part \in {"food", "ratio"} :
       pending[part] # None /\ pending'[part] = None =>
         \E t \in Feeds :
           /\ pc[t] = "asking"
           /\ last' = args[t]
           /\ t \in crossed \/ args[t][part] = pending[part]]_vars

(* The numbers and the switch say what Feed now would use: what they show  *)
(* is the meal a press would ask for, whether the feeder is in the data or *)
(* not.  They may lag only while a feed stores its amounts; after a change *)
(* that is not pushed, until a scan has marked and finished, or has left   *)
(* the feeder out (a feed that failed to store, anything staged, switched  *)
(* or fed while the feeder was left out, a feed that stored then); and     *)
(* after a report whose stamp was not that of what it showed, until the    *)
(* next report (a press while a scan had marked, or amounts staged or      *)
(* dropped without a push since it had) (feed_values, state_fingerprint).  *)
ShownIsUsed ==
  (/\ \A t \in Feeds : pc[t] \in {"idle", "asking"}
   /\ scan # "marked"
   /\ sound
   /\ ~silent) => entity.shown = Meal

(* A meal to be kept is stored as it was served, while the app and other   *)
(* feeds stay away and all that was read before was true: its food, its    *)
(* water in grams, and the rehydration minutes the machine has, whether    *)
(* the machine kept the meal by itself and whichever answer the merge saw, *)
(* scans that replace the model or leave the feeder out included.  Only    *)
(* when the model had no config as the meal was served are the minutes not *)
(* preserved, as set_feed_config says they are: it writes one minute.      *)
KeptIsStored ==
  \A t \in Feeds :
    pc[t] \in {"writing", "written"} /\ quiet[t] =>
      value[t] = [food |-> args[t].food, water |-> args[t].food * args[t].ratio,
                  mixMin |-> IF t \in blind THEN 1 ELSE machine.mixMin]
=============================================================================
