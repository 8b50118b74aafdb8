------------------------------ MODULE FeedingProofs ----------------------------
(***************************************************************************)
(* Proofs about Feeding, for any feeds, amounts, defaults and bounds.      *)
(***************************************************************************)
EXTENDS Feeding, FiniteSetTheorems, FunctionTheorems, TLAPS


-----------------------------------------------------------------------------
(* Amounts.                                                                *)

(* A ratio read from the stored defaults is one on offer.                  *)
LEMMA RoundIsInt ==
  ASSUME NEW n \in Nat, NEW d \in 3 .. 15
  PROVE  Round(n, d) \in Int
<1>1. n \div d \in Int /\ n % d \in Int
  OBVIOUS
<1> DEFINE q == n \div d
           r == n % d
<1>2. Round(n, d) = IF 2 * r < d THEN q ELSE IF 2 * r > d THEN q + 1 ELSE q + (q % 2)
  BY DEF Round
<1> HIDE DEF q, r
<1>3. q \in Int /\ r \in Int
  BY <1>1 DEF q, r
<1>4. q % 2 \in Int
  BY <1>3
<1> QED
  BY <1>2, <1>3, <1>4

LEMMA FeedValuesType ==
  ASSUME NEW now \in Amounts, NEW cfg \in Configs \cup {NoConfig}
  PROVE  /\ FeedValues(now, cfg) \in [food : 3 .. 15, ratio : 1 .. 5]
         /\ \A part \in {"food", "ratio"} :
              now[part] # None => FeedValues(now, cfg)[part] = now[part]
<1> DEFINE stored == ConfiguredDefaults(cfg)
<1>1. stored \in [food : {None} \cup 3 .. 15, ratio : {None} \cup 1 .. 5]
  <2>1. CASE cfg = NoConfig \/ cfg.food \notin 3 .. 15 \/ cfg.water = 0
    BY <2>1 DEF ConfiguredDefaults, NoAmounts
  <2>2. CASE ~(cfg = NoConfig \/ cfg.food \notin 3 .. 15 \/ cfg.water = 0)
    <3>1. cfg.food \in 3 .. 15 /\ cfg.water \in Nat
      BY <2>2 DEF Configs
    <3>2. Round(cfg.water, cfg.food) \in Int
      BY <3>1, RoundIsInt
    <3>3. Clamp(Round(cfg.water, cfg.food), 1, 5) \in 1 .. 5
      BY <3>2 DEF Clamp
    <3>4. stored = [food |-> cfg.food, ratio |-> Clamp(Round(cfg.water, cfg.food), 1, 5)]
      BY <2>2 DEF ConfiguredDefaults
    <3> QED
      BY <3>1, <3>3, <3>4
  <2> QED
    BY <2>1, <2>2
<1>2. FeedValues(now, cfg) =
        [food  |-> Or(now.food, Or(stored.food, DefaultFood)),
         ratio |-> Or(now.ratio, Or(stored.ratio, DefaultRatio))]
  BY DEF FeedValues
<1> HIDE DEF stored
<1>3. now.food \in {None} \cup 3 .. 15 /\ now.ratio \in {None} \cup 1 .. 5
  BY DEF Amounts
<1>4. Or(now.food, Or(stored.food, DefaultFood)) \in 3 .. 15
  BY <1>1, <1>3 DEF Or, None, DefaultFood
<1>5. Or(now.ratio, Or(stored.ratio, DefaultRatio)) \in 1 .. 5
  BY <1>1, <1>3 DEF Or, None, DefaultRatio
<1> QED
  BY <1>2, <1>4, <1>5 DEF Or

(* What a meal asks the machine to keep is a config.                       *)
LEMMA WantedType ==
  ASSUME NEW meal \in Meals, NEW cfg \in Configs \cup {NoConfig}
  PROVE  Wanted(meal, cfg) \in Configs
<1>1. meal.food \in Nat /\ meal.ratio \in Nat /\ (cfg # NoConfig => cfg.mixMin \in Nat)
  BY DEF Meals, Configs
<1>2. meal.food * meal.ratio \in Nat
  BY <1>1
<1> QED
  BY <1>1, <1>2 DEF Wanted, Configs

(* What the machine has after a meal: what it had, or a config with the    *)
(* meal's food and water and the minutes it had, if it had any.            *)
LEMMA KeepingType ==
  ASSUME NEW meal \in Meals, machine \in Configs \cup {NoConfig}, NEW kept \in Keeping(meal)
  PROVE  \/ kept = machine
         \/ /\ meal.keep
            /\ kept \in Configs
            /\ kept.food = meal.food /\ kept.water = meal.food * meal.ratio
            /\ machine # NoConfig => kept.mixMin = machine.mixMin
<1> SUFFICES ASSUME kept # machine
             PROVE  /\ meal.keep
                    /\ kept \in Configs
                    /\ kept.food = meal.food /\ kept.water = meal.food * meal.ratio
                    /\ machine # NoConfig => kept.mixMin = machine.mixMin
  OBVIOUS
<1>1. meal.keep
  BY DEF Keeping
<1>2. PICK m \in (IF machine = NoConfig THEN Minutes ELSE {machine.mixMin}) :
        kept = [food |-> meal.food, water |-> meal.food * meal.ratio, mixMin |-> m]
  BY <1>1 DEF Keeping
<1>3. m \in Nat /\ (machine # NoConfig => m = machine.mixMin)
  BY <1>2, MinutesAssumption DEF Configs
<1>4. meal.food \in Nat /\ meal.ratio \in Nat
  BY DEF Meals
<1>5. meal.food * meal.ratio \in Nat
  BY <1>4
<1> QED
  BY <1>1, <1>2, <1>3, <1>4, <1>5 DEF Configs

(* What a merge sends of a config is a config.                             *)
LEMMA MergeType ==
  ASSUME NEW asked \in Configs, NEW stale \in Configs \cup {NoConfig},
         NEW stated \in Configs \cup {NoConfig}
  PROVE  Merge(asked, stale, stated) \in Configs
<1>1. CASE stated = NoConfig
  BY <1>1 DEF Merge
<1>2. CASE stated # NoConfig
  <2>1. /\ stated.food \in Nat /\ stated.water \in Nat /\ stated.mixMin \in Nat
        /\ asked.food \in Nat /\ asked.water \in Nat /\ asked.mixMin \in Nat
        /\ DOMAIN asked = {"food", "water", "mixMin"}
    BY <1>2 DEF Configs
  <2>2. Merge(asked, stale, stated) =
          [f \in {"food", "water", "mixMin"} |->
             IF stale = NoConfig \/ asked[f] # stale[f] THEN asked[f] ELSE stated[f]]
    BY <1>2, <2>1 DEF Merge
  <2> QED
    BY <2>1, <2>2 DEF Configs
<1> QED
  BY <1>1, <1>2

-----------------------------------------------------------------------------
(* Types.                                                                  *)

(* What a feed holds where it waits.                                       *)
Working == \A t \in Feeds : pc[t] \notin {"idle", "asking"} => value[t] \in Configs

IInv == TypeOK /\ Working

Shows == [food : 3 .. 15, ratio : 1 .. 5, keep : BOOLEAN]

(* There is a snapshot that no feed holds: feeds are fewer.                *)
LEMMA FreeIsFree ==
  ASSUME snap \in [Feeds -> SnapIds \cup {NoSnap}]
  PROVE  Free \in SnapIds /\ Free \notin Held
<1>1. snap \in Surjection(Feeds, Held)
  BY DEF Surjection, Held
<1>2. IsFiniteSet(Held) /\ Cardinality(Held) <= Cardinality(Feeds)
  BY <1>1, FS_Surjection, FeedsAssumption
<1>3. Cardinality(Feeds) \in Nat /\ Cardinality(Held) \in Nat
  BY <1>2, FS_CardinalityType, FeedsAssumption
<1>4. Cardinality(SnapIds) = Cardinality(Feeds) + 1
  <2>1. 1 \in Int /\ Cardinality(Feeds) + 1 \in Int
    BY <1>3
  <2>2. Cardinality(1 .. Cardinality(Feeds) + 1) = Cardinality(Feeds) + 1
    BY <1>3, <2>1, FS_Interval
  <2> QED
    BY <2>2 DEF SnapIds
<1>5. ~(SnapIds \subseteq Held)
  <2> SUFFICES ASSUME SnapIds \subseteq Held
               PROVE  FALSE
    OBVIOUS
  <2>1. Cardinality(SnapIds) <= Cardinality(Held)
    BY <1>2, FS_Subset
  <2> QED
    BY <1>2, <1>3, <1>4, <2>1
<1> QED
  BY <1>5 DEF Free

LEMMA SnapIdsAreSome == 1 \in SnapIds /\ NoSnap \notin SnapIds
<1>1. Cardinality(Feeds) \in Nat
  BY FS_CardinalityType, FeedsAssumption
<1> QED
  BY <1>1 DEF SnapIds, NoSnap

LEMMA ValuesAreTyped ==
  /\ NoAmounts \in Amounts /\ NoMeal \in Meals
  /\ Bumped \in Stamps /\ NoStamp \in Stamps /\ Bumped # NoStamp
BY DEF NoAmounts, NoMeal, Bumped, NoStamp, Stamp, Amounts, Meals, Stamps, None

(* A scan's stamp is none of a press's, and says what it was taken from.   *)
LEMMA ScanStamp ==
  ASSUME NEW r \in Configs \cup {NoConfig}, NEW p \in Amounts, NEW k \in BOOLEAN,
         NEW l \in Meals
  PROVE  /\ Stamp("scan", r, p, k, l) \in Stamps
         /\ Stamp("scan", r, p, k, l) \notin {Bumped, NoStamp}
         /\ Stamp("scan", r, p, k, l).read = r
         /\ Stamp("scan", r, p, k, l).pending = p
         /\ Stamp("scan", r, p, k, l).keep = k
BY DEF Stamp, Stamps, Bumped, NoStamp

LEMMA ShownType ==
  ASSUME NEW held \in [SnapIds -> Configs \cup {NoConfig}], NEW i \in SnapIds \cup {NoSnap}
  PROVE  Shown(held, i) \in Configs \cup {NoConfig}
BY DEF Shown

LEMMA StatesType ==
  ASSUME NEW now \in Amounts, NEW cfg \in Configs \cup {NoConfig}, NEW on \in BOOLEAN
  PROVE  States(now, cfg, on) \in Shows
BY FeedValuesType DEF States, FoodGrams, WaterRatio, Shows

LEMMA InitIInv == Init => IInv
<1> SUFFICES ASSUME Init
             PROVE  IInv
  OBVIOUS
<1>1. /\ machine \in Configs \cup {NoConfig} /\ cached = machine
      /\ snaps = [i \in SnapIds |-> IF i = 1 THEN machine ELSE NoConfig]
      /\ data = 1 /\ pending = NoAmounts /\ presses = 0 /\ keep \in BOOLEAN
      /\ last = NoMeal
      /\ stamp = Stamp("scan", machine, pending, keep, last)
      /\ entity = [shown |-> States(pending, machine, keep), stamp |-> stamp]
  BY StatedAssumption DEF Init
<1>2. /\ scan = "idle" /\ read = NoConfig /\ crossed = {} /\ silent = FALSE /\ sound = TRUE
      /\ pc = [t \in Feeds |-> "idle"] /\ args = [t \in Feeds |-> NoMeal]
      /\ snap = [t \in Feeds |-> NoSnap] /\ value = [t \in Feeds |-> NoConfig]
      /\ quiet = [t \in Feeds |-> FALSE] /\ blind = {}
  BY DEF Init
<1>3. snaps \in [SnapIds -> Configs \cup {NoConfig}] /\ data \in SnapIds \cup {NoSnap}
  BY <1>1, SnapIdsAreSome
<1>4. stamp \in Stamps
  BY <1>1, ValuesAreTyped, ScanStamp
<1>5. entity \in [shown : Shows, stamp : Stamps]
  BY <1>1, <1>4, ValuesAreTyped, StatesType
<1>6. presses \in 0 .. MaxPresses
  BY <1>1, BoundsAssumption
<1>7. /\ pc \in [Feeds -> Locations] /\ args \in [Feeds -> Meals]
      /\ snap \in [Feeds -> SnapIds \cup {NoSnap}]
      /\ value \in [Feeds -> Configs \cup {NoConfig}]
      /\ quiet \in [Feeds -> BOOLEAN]
  BY <1>2, ValuesAreTyped DEF Locations
<1>8. TypeOK
  BY <1>1, <1>2, <1>3, <1>4, <1>5, <1>6, <1>7, ValuesAreTyped DEF TypeOK, Shows
<1>9. Working
  BY <1>2 DEF Working
<1> QED
  BY <1>8, <1>9 DEF IInv

(* What is reported after a user's action is typed, pushed or not.         *)
LEMMA PushKeepsTypes ==
  ASSUME TypeOK, pending' \in Amounts, keep' \in BOOLEAN,
         snaps' \in [SnapIds -> Configs \cup {NoConfig}], data' \in SnapIds \cup {NoSnap},
         BumpAndPush \/ (silent' = TRUE /\ UNCHANGED <<stamp, entity, sound>>)
  PROVE  /\ stamp' \in Stamps /\ silent' \in BOOLEAN /\ sound' \in BOOLEAN
         /\ entity' \in [shown : Shows, stamp : Stamps]
<1>1. CASE BumpAndPush
  <2>1. /\ stamp' = Bumped /\ silent' = FALSE
        /\ sound' = (scan # "marked" \/ data = NoSnap) /\ entity' = Reported
    BY <1>1 DEF BumpAndPush
  <2>2. States(pending', Shown(snaps', data'), keep') \in Shows
    BY ShownType, StatesType
  <2>3. (IF data' = NoSnap THEN NoStamp ELSE stamp') \in Stamps
    BY <2>1, ValuesAreTyped
  <2>4. entity' \in [shown : Shows, stamp : Stamps]
    BY <2>1, <2>2, <2>3 DEF Reported
  <2> QED
    BY <2>1, <2>4, ValuesAreTyped
<1>2. CASE silent' = TRUE /\ UNCHANGED <<stamp, entity, sound>>
  BY <1>2 DEF TypeOK, Shows
<1> QED
  BY <1>1, <1>2

LEMMA PushIfShownIsOneOf ==
  ASSUME PushIfShown
  PROVE  BumpAndPush \/ (silent' = TRUE /\ UNCHANGED <<stamp, entity, sound>>)
<1>1. CASE data # NoSnap
  BY <1>1 DEF PushIfShown
<1>2. CASE data = NoSnap
  BY <1>2 DEF PushIfShown
<1> QED
  BY <1>1, <1>2

(* What a press of the numbers or the switch leaves.                       *)
LEMMA StagingKeepsIInv ==
  ASSUME IInv, Press, PushIfShown, pending' \in Amounts, keep' \in BOOLEAN,
         crossed' \subseteq Feeds,
         UNCHANGED <<machine, cached, model, last, scanning, feed>>
  PROVE  IInv'
<1>1. TypeOK /\ Working
  BY DEF IInv
<1>2. /\ UNCHANGED <<machine, cached, snaps, data, last, scan, read>>
      /\ UNCHANGED <<pc, args, snap, value, quiet, blind>>
  BY DEF model, scanning, feed
<1>3. /\ snaps' \in [SnapIds -> Configs \cup {NoConfig}] /\ data' \in SnapIds \cup {NoSnap}
  BY <1>1, <1>2 DEF TypeOK
<1>4. /\ stamp' \in Stamps /\ silent' \in BOOLEAN /\ sound' \in BOOLEAN
      /\ entity' \in [shown : Shows, stamp : Stamps]
  BY <1>1, <1>3, PushKeepsTypes, PushIfShownIsOneOf
<1>5. presses' \in 0 .. MaxPresses
  BY <1>1, BoundsAssumption DEF Press, TypeOK
<1>6. TypeOK'
  BY <1>1, <1>2, <1>4, <1>5 DEF TypeOK, Shows
<1>7. Working'
  BY <1>1, <1>2 DEF Working
<1> QED
  BY <1>6, <1>7 DEF IInv

(* What a call that returns leaves: what it held is gone.                  *)
LEMMA ReturnKeepsTypes ==
  ASSUME IInv, NEW t \in Feeds, NEW held \in [SnapIds -> Configs \cup {NoConfig}],
         Return(t, held), pc' = [pc EXCEPT ![t] = "idle"]
  PROVE  /\ args' \in [Feeds -> Meals]
         /\ value' \in [Feeds -> Configs \cup {NoConfig}]
         /\ snap' \in [Feeds -> SnapIds \cup {NoSnap}]
         /\ quiet' \in [Feeds -> BOOLEAN]
         /\ blind' \subseteq Feeds
         /\ pc' \in [Feeds -> Locations]
         /\ snaps' \in [SnapIds -> Configs \cup {NoConfig}]
         /\ Working'
<1>1. /\ args' = [args EXCEPT ![t] = NoMeal] /\ value' = [value EXCEPT ![t] = NoConfig]
      /\ snap' = [snap EXCEPT ![t] = NoSnap] /\ quiet' = [u \in Feeds |-> FALSE]
      /\ blind' = blind \ {t}
      /\ snaps' = [i \in SnapIds |-> IF i = data \/ \E u \in Feeds : snap'[u] = i
                                     THEN held[i] ELSE NoConfig]
  BY DEF Return
<1>2. /\ args \in [Feeds -> Meals] /\ value \in [Feeds -> Configs \cup {NoConfig}]
      /\ snap \in [Feeds -> SnapIds \cup {NoSnap}] /\ pc \in [Feeds -> Locations]
      /\ blind \subseteq Feeds
  BY DEF IInv, TypeOK
<1>3. /\ args' \in [Feeds -> Meals] /\ value' \in [Feeds -> Configs \cup {NoConfig}]
      /\ snap' \in [Feeds -> SnapIds \cup {NoSnap}] /\ quiet' \in [Feeds -> BOOLEAN]
      /\ blind' \subseteq Feeds /\ pc' \in [Feeds -> Locations]
  BY <1>1, <1>2, ValuesAreTyped DEF Locations
<1>4. snaps' \in [SnapIds -> Configs \cup {NoConfig}]
  BY <1>1
<1>5. Working'
  BY <1>1, <1>2 DEF IInv, Working
<1> QED
  BY <1>3, <1>4, <1>5

(* What is held by others while one feed goes on.                          *)
LEMMA FeedKeepsIInv ==
  ASSUME IInv, NEW t \in Feeds,
         Take(t) \/ MealServed(t) \/ MealFails(t) \/ StoreTake(t) \/ StoreSend(t)
           \/ StoreFails(t) \/ StoreWritten(t) \/ StoreNoted(t)
  PROVE  IInv'
<1>1. TypeOK /\ Working
  BY DEF IInv
<1>2. /\ machine \in Configs \cup {NoConfig} /\ cached \in Configs \cup {NoConfig}
      /\ snaps \in [SnapIds -> Configs \cup {NoConfig}] /\ data \in SnapIds \cup {NoSnap}
      /\ pending \in Amounts /\ keep \in BOOLEAN
      /\ pc \in [Feeds -> Locations] /\ args \in [Feeds -> Meals]
      /\ snap \in [Feeds -> SnapIds \cup {NoSnap}]
      /\ value \in [Feeds -> Configs \cup {NoConfig}]
      /\ quiet \in [Feeds -> BOOLEAN] /\ crossed \subseteq Feeds /\ blind \subseteq Feeds
      /\ presses \in 0 .. MaxPresses
  BY <1>1 DEF TypeOK
<1>3. Model \in Configs \cup {NoConfig}
  BY <1>2, ShownType DEF Model
<1>4. CASE Take(t)
  <2>1. /\ Press /\ pc[t] = "idle" /\ pc' = [pc EXCEPT ![t] = "asking"]
        /\ args' = [args EXCEPT ![t] = Meal]
        /\ UNCHANGED <<machine, cached, snaps, data, pending, keep, last, crossed>>
        /\ UNCHANGED <<stamp, entity, silent, sound, scan, read, snap, value, quiet, blind>>
    BY <1>4 DEF Take, At, model, report, scanning
  <2>2. Meal \in Meals
    <3>1. FeedValues(pending, Model) \in [food : 3 .. 15, ratio : 1 .. 5]
      BY <1>2, <1>3, FeedValuesType
    <3> QED
      BY <1>2, <3>1 DEF Meal, Meals
  <2>3. args' \in [Feeds -> Meals] /\ pc' \in [Feeds -> Locations]
    BY <1>2, <2>1, <2>2 DEF Locations
  <2>4. presses' \in 0 .. MaxPresses
    BY <1>2, <2>1, BoundsAssumption DEF Press
  <2>5. TypeOK'
    BY <1>1, <2>1, <2>3, <2>4 DEF TypeOK
  <2>6. Working'
    BY <1>1, <1>2, <2>1 DEF Working
  <2> QED
    BY <2>5, <2>6 DEF IInv
<1>5. CASE MealServed(t)
  <2>1. /\ pc[t] = "asking"
        /\ pc' = [pc EXCEPT ![t] = IF args[t].keep THEN "storing" ELSE "idle"]
        /\ machine' \in Keeping(args[t])
        /\ last' = args[t] /\ pending' = NoAmounts /\ crossed' = crossed \ {t}
        /\ UNCHANGED <<cached, snaps, data, presses, keep, scan, read, snap>>
    BY <1>5 DEF MealServed, At, model, scanning
  <2>2. args[t] \in Meals /\ args[t].keep \in BOOLEAN
    BY <1>2 DEF Meals
  <2>3. machine' \in Configs \cup {NoConfig}
    BY <1>2, <2>1, <2>2, KeepingType
  <2>4. pending' \in Amounts /\ last' \in Meals /\ crossed' \subseteq Feeds
    BY <1>2, <2>1, <2>2, ValuesAreTyped
  <2>5. CASE args[t].keep
    <3>1. /\ value' = [value EXCEPT ![t] = Wanted(args[t], Model)]
          /\ quiet' = [u \in Feeds |-> u = t /\ UpToDate]
          /\ blind' \in {blind \cup {t}, blind \ {t}}
          /\ UNCHANGED <<args, stamp, entity, silent, sound>>
      BY <1>5, <2>5 DEF MealServed, report
    <3>2. Wanted(args[t], Model) \in Configs
      BY <1>3, <2>2, WantedType
    <3>3. quiet' \in [Feeds -> BOOLEAN] /\ blind' \subseteq Feeds
      BY <1>2, <3>1
    <3>4. value' \in [Feeds -> Configs \cup {NoConfig}] /\ pc' \in [Feeds -> Locations]
      BY <1>2, <2>1, <3>1, <3>2 DEF Locations
    <3>5. TypeOK'
      BY <1>1, <2>1, <2>3, <2>4, <3>1, <3>3, <3>4 DEF TypeOK
    <3>6. Working'
      BY <1>1, <1>2, <2>1, <2>5, <3>1, <3>2 DEF Working
    <3> QED
      BY <3>5, <3>6 DEF IInv
  <2>6. CASE ~args[t].keep
    <3>1. /\ args' = [args EXCEPT ![t] = NoMeal]
          /\ PushIfShown /\ UNCHANGED <<value, quiet, blind>>
      BY <1>5, <2>6 DEF MealServed
    <3>2. /\ stamp' \in Stamps /\ silent' \in BOOLEAN /\ sound' \in BOOLEAN
          /\ entity' \in [shown : Shows, stamp : Stamps]
      BY <1>1, <1>2, <2>1, <2>4, <3>1, PushKeepsTypes, PushIfShownIsOneOf
    <3>3. args' \in [Feeds -> Meals] /\ pc' \in [Feeds -> Locations]
      BY <1>2, <2>1, <2>6, <3>1, ValuesAreTyped DEF Locations
    <3>4. TypeOK'
      BY <1>1, <2>1, <2>3, <2>4, <3>1, <3>2, <3>3 DEF TypeOK, Shows
    <3>5. Working'
      BY <1>1, <1>2, <2>1, <2>6, <3>1 DEF Working
    <3> QED
      BY <3>4, <3>5 DEF IInv
  <2> QED
    BY <2>5, <2>6
<1>6. CASE MealFails(t)
  <2>1. /\ pc[t] = "asking" /\ pc' = [pc EXCEPT ![t] = "idle"]
        /\ machine' \in Keeping(args[t])
        /\ args' = [args EXCEPT ![t] = NoMeal] /\ crossed' = crossed \ {t}
        /\ quiet' = [u \in Feeds |-> quiet[u] /\ ~args[t].keep]
        /\ UNCHANGED <<cached, snaps, data, pending, presses, keep, last>>
        /\ UNCHANGED <<stamp, entity, silent, sound, scan, read, snap, value, blind>>
    BY <1>6 DEF MealFails, At, model, report, scanning
  <2>2. args[t] \in Meals /\ args[t].keep \in BOOLEAN
    BY <1>2 DEF Meals
  <2>3. machine' \in Configs \cup {NoConfig}
    BY <1>2, <2>1, <2>2, KeepingType
  <2>4. /\ pc' \in [Feeds -> Locations] /\ args' \in [Feeds -> Meals]
        /\ crossed' \subseteq Feeds
    BY <1>2, <2>1, ValuesAreTyped DEF Locations
  <2>5. quiet' \in [Feeds -> BOOLEAN]
    BY <2>1
  <2>6. TypeOK'
    BY <1>1, <2>1, <2>3, <2>4, <2>5 DEF TypeOK
  <2>7. Working'
    BY <1>1, <1>2, <2>1 DEF Working
  <2> QED
    BY <2>6, <2>7 DEF IInv
<1>7. CASE StoreTake(t)
  <2>1. /\ pc[t] = "storing" /\ pc' = [pc EXCEPT ![t] = "reading"]
        /\ snap' = [snap EXCEPT ![t] = data]
        /\ UNCHANGED <<machine, cached, snaps, data, pending, presses, keep, last>>
        /\ UNCHANGED <<crossed, stamp, entity, silent, sound, scan, read, args, value>>
        /\ UNCHANGED <<quiet, blind>>
    BY <1>7 DEF StoreTake, At, model, staged, report, scanning
  <2>2. /\ pc' \in [Feeds -> Locations]
        /\ snap' \in [Feeds -> SnapIds \cup {NoSnap}]
    BY <1>2, <2>1 DEF Locations
  <2>3. TypeOK'
    BY <1>1, <2>1, <2>2 DEF TypeOK
  <2>4. Working'
    BY <1>1, <1>2, <2>1 DEF Working
  <2> QED
    BY <2>3, <2>4 DEF IInv
<1>8. CASE StoreSend(t)
  <2>1. PICK answer \in {machine, cached} :
          /\ cached' = answer
          /\ value' = [value EXCEPT ![t] = Merge(@, Shown(snaps, snap[t]), answer)]
    BY <1>8 DEF StoreSend, Answers
  <2>2. /\ pc[t] = "reading" /\ pc' = [pc EXCEPT ![t] = "writing"]
        /\ UNCHANGED <<machine, snaps, data, pending, presses, keep, last, crossed>>
        /\ UNCHANGED <<stamp, entity, silent, sound, scan, read, args, snap, quiet, blind>>
    BY <1>8 DEF StoreSend, At, model, staged, report, scanning
  <2> DEFINE sent == Merge(value[t], Shown(snaps, snap[t]), answer)
  <2>3. value' = [value EXCEPT ![t] = sent]
    BY <1>2, <2>1
  <2>4. /\ value[t] \in Configs /\ answer \in Configs \cup {NoConfig}
        /\ Shown(snaps, snap[t]) \in Configs \cup {NoConfig}
    BY <1>1, <1>2, <2>2, ShownType DEF Working
  <2>5. sent \in Configs
    BY <2>4, MergeType
  <2> HIDE DEF sent
  <2>6. value' \in [Feeds -> Configs \cup {NoConfig}] /\ pc' \in [Feeds -> Locations]
    BY <1>2, <2>2, <2>3, <2>5 DEF Locations
  <2>7. TypeOK'
    BY <1>1, <2>1, <2>2, <2>4, <2>6 DEF TypeOK
  <2>8. Working'
    BY <1>1, <1>2, <2>2, <2>3, <2>5 DEF Working
  <2> QED
    BY <2>7, <2>8 DEF IInv
<1>9. CASE StoreFails(t)
  <2>1. /\ pc[t] \in {"storing", "reading", "writing"} /\ pc' = [pc EXCEPT ![t] = "idle"]
        /\ machine' \in {machine} \cup (IF pc[t] = "writing" THEN {value[t]} ELSE {})
        /\ silent' = TRUE /\ Return(t, snaps)
        /\ UNCHANGED <<cached, data, pending, presses, keep, last, crossed>>
        /\ UNCHANGED <<stamp, entity, sound, scan, read>>
    BY <1>9 DEF StoreFails, At, staged, scanning
  <2>2. machine' \in Configs \cup {NoConfig}
    BY <1>2, <2>1
  <2>3. /\ args' \in [Feeds -> Meals] /\ value' \in [Feeds -> Configs \cup {NoConfig}]
        /\ snap' \in [Feeds -> SnapIds \cup {NoSnap}] /\ quiet' \in [Feeds -> BOOLEAN]
        /\ blind' \subseteq Feeds /\ pc' \in [Feeds -> Locations]
        /\ snaps' \in [SnapIds -> Configs \cup {NoConfig}]
        /\ Working'
    BY <1>2, <2>1, ReturnKeepsTypes
  <2>4. TypeOK'
    BY <1>1, <2>1, <2>2, <2>3 DEF TypeOK
  <2> QED
    BY <2>3, <2>4 DEF IInv
<1>10. CASE StoreWritten(t)
  <2>1. /\ pc[t] = "writing" /\ pc' = [pc EXCEPT ![t] = "written"]
        /\ machine' = value[t]
        /\ quiet' = [u \in Feeds |-> quiet[u] /\ u = t]
        /\ UNCHANGED <<cached, snaps, data, pending, presses, keep, last, crossed>>
        /\ UNCHANGED <<stamp, entity, silent, sound, scan, read, args, snap, value, blind>>
    BY <1>10 DEF StoreWritten, At, model, staged, report, scanning
  <2>2. machine' \in Configs \cup {NoConfig}
    BY <1>2, <2>1
  <2>3. pc' \in [Feeds -> Locations]
    BY <1>2, <2>1 DEF Locations
  <2>4. quiet' \in [Feeds -> BOOLEAN]
    BY <2>1
  <2>5. TypeOK'
    BY <1>1, <2>1, <2>2, <2>3, <2>4 DEF TypeOK
  <2>6. Working'
    BY <1>1, <1>2, <2>1 DEF Working
  <2> QED
    BY <2>5, <2>6 DEF IInv
<1>11. CASE StoreNoted(t)
  <2> DEFINE held == [i \in SnapIds |-> IF i = snap[t] THEN value[t] ELSE snaps[i]]
  <2>1. /\ pc[t] = "written" /\ pc' = [pc EXCEPT ![t] = "idle"]
        /\ Return(t, held)
        /\ UNCHANGED <<machine, cached, data, pending, presses, keep, last, crossed>>
        /\ UNCHANGED <<scan, read>>
    BY <1>11 DEF StoreNoted, At, staged, scanning
  <2> HIDE DEF held
  <2>2. BumpAndPush \/ (silent' = TRUE /\ UNCHANGED <<stamp, entity, sound>>)
    <3>1. CASE snap[t] # NoSnap
      BY <1>11, <3>1 DEF StoreNoted
    <3>2. CASE snap[t] = NoSnap
      BY <1>11, <3>2 DEF StoreNoted
    <3> QED
      BY <3>1, <3>2
  <2>3. held \in [SnapIds -> Configs \cup {NoConfig}]
    BY <1>2 DEF held
  <2>4. /\ args' \in [Feeds -> Meals] /\ value' \in [Feeds -> Configs \cup {NoConfig}]
        /\ snap' \in [Feeds -> SnapIds \cup {NoSnap}] /\ quiet' \in [Feeds -> BOOLEAN]
        /\ blind' \subseteq Feeds /\ pc' \in [Feeds -> Locations]
        /\ snaps' \in [SnapIds -> Configs \cup {NoConfig}]
        /\ Working'
    BY <2>1, <2>3, ReturnKeepsTypes
  <2>5. /\ stamp' \in Stamps /\ silent' \in BOOLEAN /\ sound' \in BOOLEAN
        /\ entity' \in [shown : Shows, stamp : Stamps]
    BY <1>1, <1>2, <2>1, <2>4, <2>2, PushKeepsTypes
  <2>6. TypeOK'
    BY <1>1, <2>1, <2>4, <2>5 DEF TypeOK, Shows
  <2> QED
    BY <2>4, <2>6 DEF IInv
<1> QED
  BY <1>4, <1>5, <1>6, <1>7, <1>8, <1>9, <1>10, <1>11

(* What stays typed while a scan goes on.                                  *)
LEMMA ScanKeepsIInv ==
  ASSUME IInv, ScanReads \/ ScanMarks \/ ScanEnds \/ ScanLeavesOut
  PROVE  IInv'
<1>1. TypeOK /\ Working
  BY DEF IInv
<1>2. /\ machine \in Configs \cup {NoConfig} /\ cached \in Configs \cup {NoConfig}
      /\ snaps \in [SnapIds -> Configs \cup {NoConfig}]
      /\ pending \in Amounts /\ keep \in BOOLEAN /\ last \in Meals
      /\ snap \in [Feeds -> SnapIds \cup {NoSnap}]
      /\ read \in Configs \cup {NoConfig}
      /\ stamp \in Stamps
      /\ entity \in [shown : Shows, stamp : Stamps]
  BY <1>1 DEF TypeOK, Shows
<1>3. CASE ScanReads
  <2>1. /\ scan' = "read" /\ read' \in {machine, cached} /\ cached' = read'
        /\ UNCHANGED <<machine, snaps, data, pending, presses, keep, last, crossed>>
        /\ UNCHANGED <<stamp, entity, silent, sound, pc, args, snap, value, quiet, blind>>
    BY <1>3 DEF ScanReads, Answers, model, staged, report, feed
  <2>2. TypeOK'
    BY <1>1, <1>2, <2>1 DEF TypeOK
  <2>3. Working'
    BY <1>1, <2>1 DEF Working
  <2> QED
    BY <2>2, <2>3 DEF IInv
<1>4. CASE ScanMarks
  <2>1. /\ scan = "read" /\ scan' = "marked"
        /\ stamp' = Stamp("scan", read, pending, keep, last)
        /\ silent' = FALSE
        /\ UNCHANGED <<machine, cached, snaps, data, pending, presses, keep, last>>
        /\ UNCHANGED <<crossed, entity, sound, read, pc, args, snap, value, quiet, blind>>
    BY <1>4 DEF ScanMarks, model, staged, feed
  <2>2. stamp' \in Stamps
    BY <1>2, <2>1, ScanStamp
  <2>3. TypeOK'
    BY <1>1, <2>1, <2>2 DEF TypeOK
  <2>4. Working'
    BY <1>1, <2>1 DEF Working
  <2> QED
    BY <2>3, <2>4 DEF IInv
<1>5. ASSUME NEW id \in SnapIds \cup {NoSnap}, Replace(id),
             UNCHANGED <<machine, cached, staged, stamp, feed>>,
             silent' \in BOOLEAN, sound' \in BOOLEAN,
             entity' \in {entity, Reported}
      PROVE  IInv'
  <2>1. /\ scan' = "idle" /\ data' = id /\ read' = NoConfig
        /\ snaps' = [i \in SnapIds |->
             IF i \in Held THEN snaps[i] ELSE IF i = id THEN read ELSE NoConfig]
        /\ UNCHANGED <<machine, cached, pending, presses, keep, last, crossed>>
        /\ UNCHANGED <<stamp, pc, args, snap, value, quiet, blind>>
    BY <1>5 DEF Replace, staged, feed
  <2>2. snaps' \in [SnapIds -> Configs \cup {NoConfig}] /\ data' \in SnapIds \cup {NoSnap}
    BY <1>2, <1>5, <2>1
  <2>3. Reported \in [shown : Shows, stamp : Stamps]
    <3>1. States(pending', Shown(snaps', data'), keep') \in Shows
      BY <1>2, <2>1, <2>2, ShownType, StatesType
    <3>2. (IF data' = NoSnap THEN NoStamp ELSE stamp') \in Stamps
      BY <1>2, <2>1, ValuesAreTyped
    <3> QED
      BY <3>1, <3>2 DEF Reported
  <2>4. TypeOK'
    BY <1>1, <1>2, <1>5, <2>1, <2>2, <2>3 DEF TypeOK, Shows
  <2>5. Working'
    BY <1>1, <2>1 DEF Working
  <2> QED
    BY <2>4, <2>5 DEF IInv
<1>6. CASE ScanEnds
  <2>1. Free \in SnapIds \cup {NoSnap} /\ Replace(Free)
    BY <1>2, <1>6, FreeIsFree DEF ScanEnds
  <2>2. /\ UNCHANGED <<machine, cached, staged, stamp, feed>> /\ silent' \in BOOLEAN
        /\ sound' \in BOOLEAN /\ entity' \in {entity, Reported}
    BY <1>1, <1>6 DEF ScanEnds, TypeOK
  <2> QED
    BY <1>5, <2>1, <2>2
<1>7. CASE ScanLeavesOut
  <2>1. /\ Replace(NoSnap) /\ UNCHANGED <<machine, cached, staged, stamp, feed>>
        /\ silent' \in BOOLEAN /\ sound' \in BOOLEAN /\ entity' \in {entity, Reported}
    BY <1>7 DEF ScanLeavesOut
  <2> QED
    BY <1>5, <2>1
<1> QED
  BY <1>3, <1>4, <1>6, <1>7

(* An amount staged, as Staged leaves it, is one of those on offer.        *)
LEMMA StagedType ==
  ASSUME TypeOK, NEW part \in {"food", "ratio"}, NEW n \in Nat,
         part = "food" => n \in Foods, part = "ratio" => n \in Ratios
  PROVE  /\ Staged(part, n) \in Amounts /\ n # None
         /\ Staged(part, n) = [pending EXCEPT ![part] = n]
BY AmountsAssumption DEF Staged, TypeOK, Amounts, None

LEMMA StepKeepsIInv == IInv /\ [Next]_vars => IInv'
<1> SUFFICES ASSUME IInv, [Next]_vars
             PROVE  IInv'
  OBVIOUS
<1>1. TypeOK /\ Working
  BY DEF IInv
<1>2. ASSUME NEW part \in {"food", "ratio"}, NEW n \in Nat,
             part = "food" => n \in Foods, part = "ratio" => n \in Ratios,
             Stage(part, n)
      PROVE  IInv'
  <2>1. /\ Press /\ PushIfShown /\ pending' = Staged(part, n)
        /\ crossed' = {t \in Feeds : pc[t] = "asking"}
        /\ UNCHANGED <<machine, cached, model, keep, last, scanning, feed>>
    BY <1>2 DEF Stage
  <2>2. pending' \in Amounts
    BY <1>1, <1>2, <2>1, StagedType
  <2>3. keep' \in BOOLEAN /\ crossed' \subseteq Feeds
    BY <1>1, <2>1 DEF TypeOK
  <2> QED
    BY <2>1, <2>2, <2>3, StagingKeepsIInv
<1>3. ASSUME NEW on \in BOOLEAN, SetKeep(on)
      PROVE  IInv'
  <2>1. /\ Press /\ PushIfShown /\ keep' = on /\ pending' = pending /\ crossed' = crossed
        /\ UNCHANGED <<machine, cached, model, last, scanning, feed>>
    BY <1>3 DEF SetKeep
  <2>2. pending' \in Amounts /\ keep' \in BOOLEAN /\ crossed' \subseteq Feeds
    BY <1>1, <1>3, <2>1 DEF TypeOK
  <2> QED
    BY <2>1, <2>2, StagingKeepsIInv
<1>4. ASSUME NEW cfg \in Settings, AppSets(cfg)
      PROVE  IInv'
  <2>1. /\ Press /\ machine' = cfg
        /\ quiet' = [t \in Feeds |-> FALSE]
        /\ UNCHANGED <<cached, snaps, data, pending, keep, last, crossed>>
        /\ UNCHANGED <<stamp, entity, silent, sound, scan, read, pc, args, snap, value>>
        /\ blind' = blind
    BY <1>4 DEF AppSets, model, report, scanning
  <2>2. machine' \in Configs /\ quiet' \in [Feeds -> BOOLEAN]
    BY <1>4, <2>1, StatedAssumption
  <2>3. presses' \in 0 .. MaxPresses
    BY <1>1, <2>1, BoundsAssumption DEF Press, TypeOK
  <2>4. TypeOK'
    BY <1>1, <2>1, <2>2, <2>3 DEF TypeOK
  <2>5. Working'
    BY <1>1, <2>1 DEF Working
  <2> QED
    BY <2>4, <2>5 DEF IInv
<1>5. CASE UNCHANGED vars
  <2>1. /\ UNCHANGED <<machine, cached, snaps, data, pending, presses, keep, last>>
        /\ UNCHANGED <<crossed, stamp, entity, silent, sound, scan, read>>
        /\ UNCHANGED <<pc, args, snap, value, quiet, blind>>
    BY <1>5 DEF vars, model, staged, report, scanning, feed
  <2>2. TypeOK' /\ Working'
    BY <1>1, <2>1 DEF TypeOK, Working
  <2> QED
    BY <2>2 DEF IInv
<1>6. ASSUME NEW n \in Foods, SetFoodGrams(n)
      PROVE  IInv'
  <2>1. n \in Nat /\ Stage("food", n)
    BY <1>6, AmountsAssumption DEF SetFoodGrams
  <2> QED
    BY <1>6, <2>1, <1>2
<1>7. ASSUME NEW n \in Ratios, SetWaterRatio(n)
      PROVE  IInv'
  <2>1. n \in Nat /\ Stage("ratio", n)
    BY <1>7, AmountsAssumption DEF SetWaterRatio
  <2> QED
    BY <1>7, <2>1, <1>2
<1> QED
  BY <1>3, <1>4, <1>5, <1>6, <1>7, FeedKeepsIInv, ScanKeepsIInv DEF Next

(* Every variable keeps its type: what the numbers show can be dialled,    *)
(* whatever the machine states and the model has of it.                    *)
THEOREM TypeCorrect == Spec => []TypeOK
<1>1. Init => IInv
  BY InitIInv
<1>2. IInv /\ [Next]_vars => IInv'
  BY StepKeepsIInv
<1>3. IInv => TypeOK
  BY DEF IInv
<1> QED
  BY <1>1, <1>2, <1>3, PTL DEF Spec

-----------------------------------------------------------------------------
(* A meal to be kept is stored as it was served.                           *)

Fields == {"food", "water", "mixMin"}

(* A field that x states as t wants it may be skipped or copied: the       *)
(* machine has it so, and so has the cache unless it states nothing.       *)
Backed(t, x) ==
  x # NoConfig =>
    \A f \in Fields : x[f] = value[t][f] =>
      /\ machine # NoConfig /\ machine[f] = value[t][f]
      /\ cached # NoConfig => cached[f] = value[t][f]

(* So whatever t's own read will be compared with, or may return.          *)
Agreed(t) ==
  /\ Backed(t, cached)
  /\ Backed(t, Model)
  /\ scan # "idle" => Backed(t, read)
  /\ pc[t] = "reading" => Backed(t, Shown(snaps, snap[t]))

(* What t writes is its meal, with the minutes the machine has, or one.    *)
AsServed(t) ==
  value[t] = [food |-> args[t].food, water |-> args[t].food * args[t].ratio,
              mixMin |-> IF t \in blind THEN 1 ELSE machine.mixMin]

Faithful ==
  \A t \in Feeds : quiet[t] =>
    /\ pc[t] \notin {"idle", "asking"} => AsServed(t)
    /\ pc[t] \in {"storing", "reading"} => Agreed(t)

(* The feed u is faithful in the next state.                               *)
StaysFaithful(u) ==
  /\ pc'[u] \notin {"idle", "asking"} => AsServed(u)'
  /\ pc'[u] \in {"storing", "reading"} => Agreed(u)'

(* A scan, and what others do but write, leave a quiet feed faithful: what *)
(* they read comes from the machine or the cache.                          *)
LEMMA OthersStayFaithful ==
  ASSUME Faithful, NEW u \in Feeds, quiet[u],
         pc'[u] = pc[u], value'[u] = value[u], snap'[u] = snap[u],
         pc[u] \notin {"idle", "asking"} => args'[u] = args[u],
         u \in blind' <=> u \in blind,
         machine' = machine, cached' \in {cached, machine},
         \/ Model' = Model
         \/ scan # "idle" /\ Model' = read
         \/ Model' = NoConfig,
         \/ scan' = "idle"
         \/ scan # "idle" /\ read' = read
         \/ read' = cached',
         pc[u] = "reading" => Shown(snaps', snap[u]) = Shown(snaps, snap[u])
  PROVE  StaysFaithful(u)
<1>1. /\ pc[u] \notin {"idle", "asking"} => AsServed(u)
      /\ pc[u] \in {"storing", "reading"} => Agreed(u)
  BY DEF Faithful
<1>2. pc'[u] \notin {"idle", "asking"} => AsServed(u)'
  BY <1>1 DEF AsServed
<1>3. ASSUME Agreed(u), pc[u] \in {"storing", "reading"}
      PROVE  Agreed(u)'
  <2>1. ASSUME NEW x, Backed(u, x)
        PROVE  x # NoConfig =>
                 \A f \in Fields : x[f] = value'[u][f] =>
                   /\ machine' # NoConfig /\ machine'[f] = value'[u][f]
                   /\ cached' # NoConfig => cached'[f] = value'[u][f]
    BY <2>1 DEF Backed
  <2>2. /\ Backed(u, cached) /\ Backed(u, Model) /\ (scan # "idle" => Backed(u, read))
        /\ pc[u] = "reading" => Backed(u, Shown(snaps, snap[u]))
    BY <1>3 DEF Agreed
  <2>3. Backed(u, cached)'
    <3>1. CASE cached' = cached
      BY <2>1, <2>2, <3>1 DEF Backed
    <3>2. CASE cached' = machine
      BY <3>2 DEF Backed
    <3> QED
      BY <3>1, <3>2
  <2>4. Backed(u, Model)'
    <3>1. CASE Model' = Model
      BY <2>1, <2>2, <3>1 DEF Backed
    <3>2. CASE scan # "idle" /\ Model' = read
      BY <2>1, <2>2, <3>2 DEF Backed
    <3>3. CASE Model' = NoConfig
      BY <3>3 DEF Backed
    <3> QED
      BY <3>1, <3>2, <3>3
  <2>5. scan' # "idle" => Backed(u, read)'
    <3>1. CASE scan # "idle" /\ read' = read
      BY <2>1, <2>2, <3>1 DEF Backed
    <3>2. CASE read' = cached'
      BY <2>3, <3>2 DEF Backed
    <3> QED
      BY <3>1, <3>2
  <2>6. pc'[u] = "reading" => Backed(u, Shown(snaps, snap[u]))'
    BY <2>1, <2>2 DEF Backed
  <2> QED
    BY <2>3, <2>4, <2>5, <2>6 DEF Agreed
<1> QED
  BY <1>1, <1>2, <1>3 DEF StaysFaithful

(* The meal itself, kept or not, is what its feed wants when everything    *)
(* read before it was the machine's.                                       *)
LEMMA MealBeginsFaithful ==
  ASSUME IInv, NEW t \in Feeds, MealServed(t), args[t].keep, UpToDate
  PROVE  StaysFaithful(t)
<1>1. /\ machine \in Configs \cup {NoConfig} /\ args[t] \in Meals
      /\ value \in [Feeds -> Configs \cup {NoConfig}] /\ pc \in [Feeds -> Locations]
  BY DEF IInv, TypeOK
<1>2. Model \in {machine, NoConfig} /\ cached \in {machine, NoConfig}
      /\ read \in {machine, NoConfig}
  BY DEF UpToDate
<1>3. /\ pc' = [pc EXCEPT ![t] = "storing"]
      /\ machine' \in Keeping(args[t])
      /\ value' = [value EXCEPT ![t] = Wanted(args[t], Model)]
      /\ blind' = IF Model = NoConfig THEN blind \cup {t} ELSE blind \ {t}
      /\ UNCHANGED <<cached, snaps, data, scan, read, snap, args>>
  BY DEF MealServed, At, model, scanning
<1>4. pc'[t] = "storing" /\ value'[t] = Wanted(args[t], Model)
  BY <1>1, <1>3
<1>5. t \in blind' <=> Model = NoConfig
  BY <1>3
<1>6. \/ machine' = machine
      \/ /\ machine'.food = args[t].food /\ machine'.water = args[t].food * args[t].ratio
         /\ machine' # NoConfig /\ (machine # NoConfig => machine'.mixMin = machine.mixMin)
  BY <1>1, <1>3, KeepingType, StatedAssumption
<1> DEFINE w == args[t].food * args[t].ratio
<1>7. /\ value'[t].food = args[t].food /\ value'[t].water = w
      /\ value'[t].mixMin = IF Model = NoConfig THEN 1 ELSE Model.mixMin
  BY <1>4 DEF Wanted
<1>8. AsServed(t)'
  <2>1. Model # NoConfig => machine'.mixMin = Model.mixMin
    BY <1>2, <1>6
  <2>2. value'[t] = [food |-> args[t].food, water |-> w,
                     mixMin |-> IF Model = NoConfig THEN 1 ELSE machine'.mixMin]
    BY <1>4, <2>1 DEF Wanted
  <2>3. args'[t] = args[t]
    BY <1>3
  <2> QED
    BY <1>5, <2>2, <2>3 DEF AsServed
<1>9. ASSUME NEW f \in Fields, machine # NoConfig, machine[f] = value'[t][f]
      PROVE  machine' # NoConfig /\ machine'[f] = value'[t][f]
  <2> HIDE DEF w
  <2>1. CASE machine' = machine
    BY <1>9, <2>1
  <2>2. CASE machine' # machine
    <3>1. /\ machine'.food = args[t].food /\ machine'.water = w
          /\ machine' # NoConfig /\ machine'.mixMin = machine.mixMin
      BY <1>6, <1>9, <2>2 DEF w
    <3> QED
      BY <1>7, <1>9, <3>1 DEF Fields
  <2> QED
    BY <2>1, <2>2
<1>10. ASSUME NEW x \in {machine, NoConfig}
       PROVE  x # NoConfig =>
                \A f \in Fields : x[f] = value'[t][f] =>
                  /\ machine' # NoConfig /\ machine'[f] = value'[t][f]
                  /\ cached' # NoConfig => cached'[f] = value'[t][f]
  BY <1>2, <1>3, <1>9
<1>11. Model' = Model
  BY <1>3 DEF Model, Shown
<1>12. Backed(t, cached)' /\ Backed(t, Model)' /\ (scan' # "idle" => Backed(t, read)')
  BY <1>2, <1>3, <1>10, <1>11 DEF Backed
<1>13. Agreed(t)'
  BY <1>4, <1>12 DEF Agreed
<1> QED
  BY <1>8, <1>13 DEF StaysFaithful

(* The write is what the feed wants, whichever answer the merge sees.      *)
LEMMA MergeStaysFaithful ==
  ASSUME IInv, Faithful, NEW t \in Feeds, quiet[t], StoreSend(t)
  PROVE  value'[t] = value[t] /\ AsServed(t)
<1>1. /\ pc[t] = "reading"
      /\ value \in [Feeds -> Configs \cup {NoConfig}]
      /\ value[t] \in Configs
  BY DEF IInv, TypeOK, Working, StoreSend, At
<1>2. PICK answer \in {machine, cached} :
        value' = [value EXCEPT ![t] = Merge(@, Shown(snaps, snap[t]), answer)]
  BY DEF StoreSend, Answers
<1>3. AsServed(t) /\ Agreed(t)
  BY <1>1 DEF Faithful
<1> DEFINE stale == Shown(snaps, snap[t])
<1>4. \A f \in Fields : answer # NoConfig /\ stale # NoConfig /\ value[t][f] = stale[f] =>
                          answer[f] = value[t][f]
  BY <1>1, <1>2, <1>3 DEF Agreed, Backed
<1>5. DOMAIN value[t] = Fields /\ value[t] = [f \in Fields |-> value[t][f]]
  BY <1>1 DEF Configs, Fields
<1>6. value'[t] = Merge(value[t], stale, answer)
  BY <1>1, <1>2
<1> HIDE DEF stale
<1>7. Merge(value[t], stale, answer) = value[t]
  <2>1. CASE answer = NoConfig
    BY <2>1 DEF Merge
  <2>2. CASE answer # NoConfig
    <3>1. Merge(value[t], stale, answer) =
            [f \in Fields |-> IF stale = NoConfig \/ value[t][f] # stale[f]
                              THEN value[t][f] ELSE answer[f]]
      BY <1>5, <2>2 DEF Merge
    <3>2. \A f \in Fields : (IF stale = NoConfig \/ value[t][f] # stale[f]
                             THEN value[t][f] ELSE answer[f]) = value[t][f]
      BY <1>4, <2>2
    <3>3. Merge(value[t], stale, answer) = [f \in Fields |-> value[t][f]]
      BY <3>1, <3>2
    <3> QED
      BY <1>5, <3>3
  <2> QED
    BY <2>1, <2>2
<1> QED
  BY <1>3, <1>6, <1>7

LEMMA StepKeepsFaithful ==
  ASSUME IInv, Faithful, [Next]_vars
  PROVE  Faithful'
<1>1. /\ pc \in [Feeds -> Locations] /\ quiet \in [Feeds -> BOOLEAN]
      /\ value \in [Feeds -> Configs \cup {NoConfig}] /\ args \in [Feeds -> Meals]
      /\ snap \in [Feeds -> SnapIds \cup {NoSnap}]
      /\ machine \in Configs \cup {NoConfig} /\ data \in SnapIds \cup {NoSnap}
      /\ snaps \in [SnapIds -> Configs \cup {NoConfig}]
  BY DEF IInv, TypeOK
<1> SUFFICES ASSUME NEW u \in Feeds, quiet'[u]
             PROVE  StaysFaithful(u)
  BY DEF Faithful, StaysFaithful
<1>2. ASSUME UNCHANGED <<snaps, data>>
      PROVE  Model' = Model /\ Shown(snaps', snap[u]) = Shown(snaps, snap[u])
  BY <1>2 DEF Model, Shown
<1>3. ASSUME UNCHANGED <<machine, cached, snaps, data, scan, read>>,
             UNCHANGED <<pc, args, snap, value, quiet, blind>>
      PROVE  StaysFaithful(u)
  <2>1. quiet[u] /\ pc'[u] = pc[u] /\ value'[u] = value[u] /\ snap'[u] = snap[u]
    BY <1>3
  <2>2. scan' = "idle" \/ (scan # "idle" /\ read' = read)
    BY <1>3
  <2> QED
    BY <1>2, <1>3, <2>1, <2>2, OthersStayFaithful
<1>4. ASSUME NEW part, NEW n, Stage(part, n)
      PROVE  StaysFaithful(u)
  BY <1>3, <1>4 DEF Stage, model, scanning, feed
<1>5. CASE (\E on \in BOOLEAN : SetKeep(on)) \/ UNCHANGED vars
  BY <1>3, <1>5 DEF SetKeep, vars, model, scanning, feed
<1>6. ASSUME NEW t \in Feeds, Take(t)
      PROVE  StaysFaithful(u)
  <2>1. /\ pc[t] = "idle" /\ pc' = [pc EXCEPT ![t] = "asking"]
        /\ args' = [args EXCEPT ![t] = Meal]
        /\ UNCHANGED <<machine, cached, snaps, data, scan, read, snap, value, quiet, blind>>
    BY <1>6 DEF Take, At, model, scanning
  <2>2. CASE u = t
    BY <1>1, <2>1, <2>2 DEF StaysFaithful
  <2>3. CASE u # t
    <3>1. pc'[u] = pc[u] /\ args'[u] = args[u] /\ quiet[u]
      BY <1>1, <2>1, <2>3
    <3>2. scan' = "idle" \/ (scan # "idle" /\ read' = read)
      BY <2>1
    <3> QED
      BY <1>2, <2>1, <3>1, <3>2, OthersStayFaithful
  <2> QED
    BY <2>2, <2>3
<1>7. ASSUME NEW t \in Feeds, MealServed(t)
      PROVE  StaysFaithful(u)
  <2>1. /\ pc[t] = "asking"
        /\ pc' = [pc EXCEPT ![t] = IF args[t].keep THEN "storing" ELSE "idle"]
        /\ machine' \in Keeping(args[t])
        /\ UNCHANGED <<cached, snaps, data, scan, read, snap>>
    BY <1>7 DEF MealServed, At, model, scanning
  <2>2. CASE args[t].keep
    <3>1. quiet' = [v \in Feeds |-> v = t /\ UpToDate]
      BY <1>7, <2>2 DEF MealServed
    <3>2. u = t /\ UpToDate
      BY <3>1
    <3> QED
      BY <1>7, <2>2, <3>2, MealBeginsFaithful
  <2>3. CASE ~args[t].keep
    <3>1. /\ args' = [args EXCEPT ![t] = NoMeal] /\ UNCHANGED <<value, quiet, blind>>
      BY <1>7, <2>3 DEF MealServed
    <3>2. CASE u = t
      BY <1>1, <2>1, <2>3, <3>2 DEF StaysFaithful
    <3>3. CASE u # t
      <4>1. pc'[u] = pc[u] /\ args'[u] = args[u] /\ quiet[u]
        BY <1>1, <2>1, <2>3, <3>1, <3>3
      <4>2. machine' = machine
        BY <1>1, <2>1, <2>3, KeepingType
      <4>3. scan' = "idle" \/ (scan # "idle" /\ read' = read)
        BY <2>1
      <4> QED
        BY <1>2, <2>1, <3>1, <4>1, <4>2, <4>3, OthersStayFaithful
    <3> QED
      BY <3>2, <3>3
  <2> QED
    BY <2>2, <2>3
<1>8. ASSUME NEW t \in Feeds, MealFails(t)
      PROVE  StaysFaithful(u)
  <2>1. /\ pc' = [pc EXCEPT ![t] = "idle"]
        /\ machine' \in Keeping(args[t])
        /\ args' = [args EXCEPT ![t] = NoMeal]
        /\ quiet' = [v \in Feeds |-> quiet[v] /\ ~args[t].keep]
        /\ UNCHANGED <<cached, snaps, data, scan, read, snap, value, blind>>
    BY <1>8 DEF MealFails, At, model, scanning
  <2>2. quiet[u] /\ ~args[t].keep
    BY <2>1
  <2>3. machine' = machine
    BY <1>1, <2>1, <2>2, KeepingType
  <2>4. CASE u = t
    BY <1>1, <2>1, <2>4 DEF StaysFaithful
  <2>5. CASE u # t
    <3>1. pc'[u] = pc[u] /\ args'[u] = args[u]
      BY <1>1, <2>1, <2>5
    <3>2. scan' = "idle" \/ (scan # "idle" /\ read' = read)
      BY <2>1
    <3> QED
      BY <1>2, <2>1, <2>2, <2>3, <3>1, <3>2, OthersStayFaithful
  <2> QED
    BY <2>4, <2>5
<1>9. ASSUME NEW t \in Feeds, StoreTake(t)
      PROVE  StaysFaithful(u)
  <2>1. /\ pc[t] = "storing" /\ pc' = [pc EXCEPT ![t] = "reading"]
        /\ snap' = [snap EXCEPT ![t] = data]
        /\ UNCHANGED <<machine, cached, snaps, data, scan, read, args, value, quiet, blind>>
    BY <1>9 DEF StoreTake, At, model, scanning
  <2>2. CASE u = t
    <3>1. AsServed(u) /\ Agreed(u)
      BY <2>1, <2>2 DEF Faithful
    <3>2. pc'[u] = "reading" /\ snap'[u] = data
      BY <1>1, <2>1, <2>2
    <3>3. Shown(snaps, snap[u])' = Model /\ Model' = Model
      BY <1>2, <2>1, <3>2 DEF Model
    <3>4. /\ Backed(u, cached)' /\ Backed(u, Model)' /\ (scan' # "idle" => Backed(u, read)')
          /\ Backed(u, Shown(snaps, snap[u]))'
      BY <2>1, <3>1, <3>3 DEF Agreed, Backed
    <3>5. AsServed(u)'
      BY <2>1, <3>1 DEF AsServed
    <3> QED
      BY <3>4, <3>5 DEF Agreed, StaysFaithful
  <2>3. CASE u # t
    <3>1. pc'[u] = pc[u] /\ snap'[u] = snap[u] /\ quiet[u]
      BY <1>1, <2>1, <2>3
    <3>2. scan' = "idle" \/ (scan # "idle" /\ read' = read)
      BY <2>1
    <3> QED
      BY <1>2, <2>1, <3>1, <3>2, OthersStayFaithful
  <2> QED
    BY <2>2, <2>3
<1>10. ASSUME NEW t \in Feeds, StoreSend(t)
       PROVE  StaysFaithful(u)
  <2>1. /\ pc[t] = "reading" /\ pc' = [pc EXCEPT ![t] = "writing"]
        /\ cached' \in {machine, cached}
        /\ UNCHANGED <<machine, snaps, data, scan, read, args, snap, quiet, blind>>
        /\ \A v \in Feeds : v # t => value'[v] = value[v]
    BY <1>1, <1>10 DEF StoreSend, Answers, At, model, scanning
  <2>2. CASE u = t
    <3>1. value'[u] = value[u] /\ AsServed(u)
      BY <1>10, <2>1, <2>2, MergeStaysFaithful
    <3>2. pc'[u] = "writing"
      BY <1>1, <2>1, <2>2
    <3> QED
      BY <2>1, <3>1, <3>2 DEF StaysFaithful, AsServed
  <2>3. CASE u # t
    <3>1. pc'[u] = pc[u] /\ value'[u] = value[u] /\ quiet[u]
      BY <1>1, <2>1, <2>3
    <3>2. scan' = "idle" \/ (scan # "idle" /\ read' = read)
      BY <2>1
    <3> QED
      BY <1>2, <2>1, <3>1, <3>2, OthersStayFaithful
  <2> QED
    BY <2>2, <2>3
<1>11. ASSUME NEW t \in Feeds, StoreWritten(t)
       PROVE  StaysFaithful(u)
  <2>1. /\ pc[t] = "writing" /\ pc' = [pc EXCEPT ![t] = "written"]
        /\ machine' = value[t]
        /\ quiet' = [v \in Feeds |-> quiet[v] /\ v = t]
        /\ UNCHANGED <<args, value, blind>>
    BY <1>11 DEF StoreWritten, At
  <2>2. u = t /\ quiet[t] /\ pc'[u] = "written"
    BY <1>1, <2>1
  <2>3. AsServed(u)
    BY <2>1, <2>2 DEF Faithful
  <2>4. u \notin blind => machine'.mixMin = machine.mixMin
    BY <2>1, <2>2, <2>3 DEF AsServed
  <2>5. AsServed(u)'
    BY <2>1, <2>3, <2>4 DEF AsServed
  <2> QED
    BY <2>2, <2>5 DEF StaysFaithful
<1>12. ASSUME NEW t \in Feeds, StoreFails(t) \/ StoreNoted(t)
       PROVE  FALSE
  BY <1>12 DEF StoreFails, StoreNoted, Return
<1>13. CASE ScanReads
  <2>1. /\ read' \in {machine, cached} /\ cached' = read'
        /\ UNCHANGED <<machine, snaps, data, pc, args, snap, value, quiet, blind>>
    BY <1>13 DEF ScanReads, Answers, model, feed
  <2>2. cached' \in {cached, machine} /\ quiet[u]
    BY <2>1
  <2> QED
    BY <1>2, <2>1, <2>2, OthersStayFaithful
<1>14. CASE ScanMarks
  <2>1. /\ scan = "read" /\ quiet[u]
        /\ UNCHANGED <<machine, cached, snaps, data, read, pc, args, snap, value, blind>>
    BY <1>14 DEF ScanMarks, model, feed
  <2> QED
    BY <1>2, <2>1, OthersStayFaithful
<1>15. ASSUME NEW id \in SnapIds \cup {NoSnap}, Replace(id), id \notin Held \/ id = NoSnap,
              scan # "idle" \/ id = NoSnap, UNCHANGED <<machine, cached, feed>>
       PROVE  StaysFaithful(u)
  <2>1. /\ scan' = "idle" /\ data' = id /\ quiet[u]
        /\ snaps' = [i \in SnapIds |->
             IF i \in Held THEN snaps[i] ELSE IF i = id THEN read ELSE NoConfig]
        /\ UNCHANGED <<pc, args, snap, value, blind>>
    BY <1>15 DEF Replace, feed
  <2>2. (scan # "idle" /\ Model' = read) \/ Model' = NoConfig
    <3>1. CASE id = NoSnap
      BY <2>1, <3>1 DEF Model, Shown
    <3>2. CASE id # NoSnap
      BY <1>15, <2>1, <3>2 DEF Model, Shown
    <3> QED
      BY <3>1, <3>2
  <2>3. Shown(snaps', snap[u]) = Shown(snaps, snap[u])
    <3>1. CASE snap[u] = NoSnap
      BY <3>1 DEF Shown
    <3>2. CASE snap[u] # NoSnap
      <4>1. snap[u] \in SnapIds /\ snap[u] \in Held
        BY <1>1, <3>2 DEF Held
      <4> QED
        BY <2>1, <4>1 DEF Shown
    <3> QED
      BY <3>1, <3>2
  <2> QED
    BY <1>15, <2>1, <2>2, <2>3, OthersStayFaithful
<1>16. CASE ScanEnds \/ ScanLeavesOut
  <2>1. Free \in SnapIds /\ Free \notin Held
    BY <1>1, FreeIsFree
  <2>2. CASE ScanEnds
    <3>1. Replace(Free) /\ scan # "idle" /\ UNCHANGED <<machine, cached, feed>>
      BY <2>2 DEF ScanEnds
    <3> QED
      BY <1>15, <2>1, <3>1
  <2>3. CASE ScanLeavesOut
    <3>1. Replace(NoSnap) /\ UNCHANGED <<machine, cached, feed>>
      BY <2>3 DEF ScanLeavesOut
    <3> QED
      BY <1>15, <3>1
  <2> QED
    BY <1>16, <2>2, <2>3
<1>17. ASSUME NEW cfg \in Settings, AppSets(cfg)
       PROVE  FALSE
  BY <1>17 DEF AppSets
<1> QED
  BY <1>4, <1>5, <1>6, <1>7, <1>8, <1>9, <1>10, <1>11, <1>12, <1>13, <1>14, <1>16, <1>17
  DEF Next, SetFoodGrams, SetWaterRatio

(* A meal to be kept is stored as it was served, with the rehydration      *)
(* minutes the machine has unless the model had no config as it was        *)
(* served.  A quiet feed's value is what it wants of the machine, before   *)
(* the merge and after it, because what the merge compares with and what   *)
(* it copies is the machine's (feed_once, set_feed_config, set_property).  *)
THEOREM StoredAsServed == Spec => []KeptIsStored
<1>1. Init => IInv /\ Faithful
  <2>1. Init => Faithful
    BY DEF Init, Faithful
  <2> QED
    BY <2>1, InitIInv
<1>2. IInv /\ Faithful /\ [Next]_vars => (IInv /\ Faithful)'
  BY StepKeepsIInv, StepKeepsFaithful
<1>3. Faithful => KeptIsStored
  BY DEF Faithful, AsServed, KeptIsStored
<1> QED
  BY <1>1, <1>2, <1>3, PTL DEF Spec

-----------------------------------------------------------------------------
(* What is staged is fed.                                                  *)

(* A feed that nothing was staged beside asks for what is staged.          *)
Uncrossed ==
  \A t \in Feeds : pc[t] = "asking" /\ t \notin crossed =>
    \A part \in {"food", "ratio"} :
      pending[part] # None => args[t][part] = pending[part]

LEMMA StepKeepsUncrossed ==
  ASSUME IInv, Uncrossed, [Next]_vars
  PROVE  Uncrossed'
<1>1. /\ pc \in [Feeds -> Locations] /\ args \in [Feeds -> Meals]
      /\ pending \in Amounts /\ Model \in Configs \cup {NoConfig}
  BY ShownType DEF IInv, TypeOK, Model
<1>2. ASSUME NEW part, NEW n, Stage(part, n)
      PROVE  Uncrossed'
  <2>1. crossed' = {t \in Feeds : pc[t] = "asking"} /\ pc' = pc
    BY <1>2 DEF Stage, feed
  <2> QED
    BY <2>1 DEF Uncrossed
<1>3. CASE \/ \E on \in BOOLEAN : SetKeep(on)
           \/ ScanReads \/ ScanMarks \/ ScanEnds \/ ScanLeavesOut
           \/ \E cfg \in Settings : AppSets(cfg)
           \/ UNCHANGED vars
  <2>1. UNCHANGED <<pending, crossed, pc, args>>
    BY <1>3 DEF SetKeep, ScanReads, ScanMarks, ScanEnds, ScanLeavesOut, AppSets, vars,
                staged, feed
  <2> QED
    BY <2>1 DEF Uncrossed
<1>4. ASSUME NEW t \in Feeds, Take(t)
      PROVE  Uncrossed'
  <2>1. /\ pc' = [pc EXCEPT ![t] = "asking"] /\ args' = [args EXCEPT ![t] = Meal]
        /\ UNCHANGED <<pending, crossed>>
    BY <1>4 DEF Take, At
  <2>2. \A part \in {"food", "ratio"} : pending[part] # None => Meal[part] = pending[part]
    BY <1>1, FeedValuesType DEF Meal
  <2>3. args'[t] = Meal
    BY <1>1, <2>1
  <2>4. \A u \in Feeds : u # t => pc'[u] = pc[u] /\ args'[u] = args[u]
    BY <1>1, <2>1
  <2> QED
    BY <2>1, <2>2, <2>3, <2>4 DEF Uncrossed
<1>5. ASSUME NEW t \in Feeds, MealServed(t)
      PROVE  Uncrossed'
  <2>1. pending' = NoAmounts
    BY <1>5 DEF MealServed
  <2> QED
    BY <2>1 DEF Uncrossed, NoAmounts
<1>6. ASSUME NEW t \in Feeds,
             MealFails(t) \/ StoreTake(t) \/ StoreSend(t) \/ StoreFails(t)
               \/ StoreWritten(t) \/ StoreNoted(t)
      PROVE  Uncrossed'
  <2>1. /\ pending' = pending /\ crossed' \in {crossed, crossed \ {t}}
        /\ args' \in {args, [args EXCEPT ![t] = NoMeal]}
    BY <1>6 DEF MealFails, StoreTake, StoreSend, StoreFails, StoreWritten, StoreNoted,
                Return, staged
  <2>2. \E to \in Locations \ {"asking"} : pc' = [pc EXCEPT ![t] = to]
    BY <1>6 DEF MealFails, StoreTake, StoreSend, StoreFails, StoreWritten, StoreNoted,
                At, Locations
  <2>3. pc'[t] # "asking"
    BY <1>1, <2>2
  <2>4. \A u \in Feeds : u # t => pc'[u] = pc[u] /\ args'[u] = args[u]
    BY <1>1, <2>1, <2>2
  <2> QED
    BY <2>1, <2>3, <2>4 DEF Uncrossed
<1> QED
  BY <1>2, <1>3, <1>4, <1>5, <1>6 DEF Next, SetFoodGrams, SetWaterRatio

(* An amount staged for the next feed is dropped only by a meal that was   *)
(* served with it, or by one it was staged beside (feed_once pops what is  *)
(* staged after the call it was taken for).                                *)
THEOREM OnlyMealsDropStaged == Spec => StagedAreFed
<1> DEFINE Fed == \A part \in {"food", "ratio"} :
             pending[part] # None /\ pending'[part] = None =>
               \E t \in Feeds :
                 /\ pc[t] = "asking"
                 /\ last' = args[t]
                 /\ t \in crossed \/ args[t][part] = pending[part]
<1>1. Init => IInv /\ Uncrossed
  <2>1. Init => Uncrossed
    BY DEF Init, Uncrossed
  <2> QED
    BY <2>1, InitIInv
<1>2. IInv /\ Uncrossed /\ [Next]_vars => (IInv /\ Uncrossed)'
  BY StepKeepsIInv, StepKeepsUncrossed
<1>3. IInv /\ Uncrossed /\ [Next]_vars => [Fed]_vars
  <2> SUFFICES ASSUME IInv, Uncrossed, [Next]_vars,
                      NEW part \in {"food", "ratio"},
                      pending[part] # None, pending'[part] = None
               PROVE  \E t \in Feeds :
                        /\ pc[t] = "asking"
                        /\ last' = args[t]
                        /\ t \in crossed \/ args[t][part] = pending[part]
    OBVIOUS
  <2>1. pending' # pending
    OBVIOUS
  <2>2. TypeOK
    BY DEF IInv
  <2>3. ASSUME NEW other \in {"food", "ratio"}, NEW n \in Nat,
               other = "food" => n \in Foods, other = "ratio" => n \in Ratios,
               Stage(other, n)
        PROVE  FALSE
    <3>1. pending' = [pending EXCEPT ![other] = n] /\ n # None /\ pending \in Amounts
      BY <2>2, <2>3, StagedType DEF Stage, TypeOK
    <3> QED
      BY <3>1 DEF Amounts
  <2>4. \A n \in Foods : ~SetFoodGrams(n)
    BY <2>3, AmountsAssumption DEF SetFoodGrams
  <2>5. \A n \in Ratios : ~SetWaterRatio(n)
    BY <2>3, AmountsAssumption DEF SetWaterRatio
  <2>6. /\ ~(\E on \in BOOLEAN : SetKeep(on)) /\ ~ScanReads /\ ~ScanMarks /\ ~ScanEnds
      /\ ~ScanLeavesOut
    BY <2>1 DEF SetKeep, ScanReads, ScanMarks, ScanEnds, ScanLeavesOut, staged
  <2>7. ~(\E cfg \in Settings : AppSets(cfg)) /\ ~(UNCHANGED vars)
    BY <2>1 DEF AppSets, vars, staged
  <2>8. \A t \in Feeds : ~Take(t) /\ ~MealFails(t) /\ ~StoreTake(t) /\ ~StoreSend(t)
                         /\ ~StoreFails(t) /\ ~StoreWritten(t) /\ ~StoreNoted(t)
    BY <2>1 DEF Take, MealFails, StoreTake, StoreSend, StoreFails, StoreWritten,
                StoreNoted, staged
  <2>9. PICK t \in Feeds : MealServed(t)
    BY <2>4, <2>5, <2>6, <2>7, <2>8 DEF Next
  <2>10. pc[t] = "asking" /\ last' = args[t]
    BY <2>9 DEF MealServed, At
  <2> QED
    BY <2>10 DEF Uncrossed
<1>4. Spec => [][Fed]_vars
  BY <1>1, <1>2, <1>3, PTL DEF Spec
<1> QED
  BY <1>4 DEF StagedAreFed

-----------------------------------------------------------------------------
(* The numbers and the switch show what Feed now would use.                *)

Settled == \A t \in Feeds : pc[t] \in {"idle", "asking"}

(* How the stamps, the amounts and what is shown go together.              *)

(* What was reported without the feeder has no stamp, and nothing else.    *)
UnstampedIsOut == data = NoSnap <=> entity.stamp = NoStamp

(* A bump is pushed at once to whoever shows the feeder.                   *)
BumpIsNoted == stamp = Bumped /\ data # NoSnap => entity.stamp = Bumped

(* What is shown is what a sound scan's stamp was taken from.              *)
ShownIsStamped ==
  entity.stamp \notin {Bumped, NoStamp} /\ sound =>
    entity.shown = States(entity.stamp.pending, entity.stamp.read, entity.stamp.keep)

(* A mark is of what was read, or bumped over and then no longer sound.    *)
MarkIsRead ==
  scan = "marked" =>
    IF stamp = Bumped THEN data # NoSnap => ~sound ELSE stamp.read = read

(* Amounts changed in silence make the next mark a new stamp.              *)
StampedIsStaged ==
  (data # NoSnap \/ scan = "marked") /\ Settled /\ ~silent /\ stamp # Bumped =>
    pending = stamp.pending /\ keep = stamp.keep

Orderly ==
  /\ stamp # NoStamp
  /\ UnstampedIsOut
  /\ BumpIsNoted
  /\ ShownIsStamped
  /\ MarkIsRead
  /\ StampedIsStaged

(* A push leaves what is shown right, unless a scan has marked.            *)
LEMMA PushKeepsOrder ==
  ASSUME BumpAndPush, scan' = scan, data' = data
  PROVE  Orderly' /\ ShownIsUsed'
<1>1. /\ stamp' = Bumped /\ silent' = FALSE
      /\ sound' = (scan # "marked" \/ data = NoSnap)
      /\ entity'.shown = States(pending', Model', keep')
      /\ entity'.stamp = IF data = NoSnap THEN NoStamp ELSE Bumped
  BY DEF BumpAndPush, Reported, Model
<1>2. Orderly'
  <2>1. stamp' # NoStamp /\ UnstampedIsOut' /\ BumpIsNoted'
    BY <1>1, ValuesAreTyped DEF UnstampedIsOut, BumpIsNoted
  <2>2. entity'.stamp \in {Bumped, NoStamp}
    BY <1>1
  <2>3. ShownIsStamped' /\ StampedIsStaged'
    BY <1>1, <2>2 DEF ShownIsStamped, StampedIsStaged
  <2>4. MarkIsRead'
    BY <1>1 DEF MarkIsRead
  <2> QED
    BY <2>1, <2>3, <2>4 DEF Orderly
<1>3. Meal' = States(pending', Model', keep')
  BY DEF Meal, States, FoodGrams, WaterRatio
<1> QED
  BY <1>1, <1>2, <1>3 DEF ShownIsUsed

(* A change that is not pushed is a silent one.                            *)
LEMMA SilenceKeepsOrder ==
  ASSUME Orderly, silent' = TRUE, UNCHANGED <<stamp, entity, sound, data, scan, read>>
  PROVE  Orderly' /\ ShownIsUsed'
<1>1. /\ stamp' # NoStamp /\ UnstampedIsOut' /\ BumpIsNoted' /\ ShownIsStamped'
      /\ MarkIsRead'
  BY DEF Orderly, UnstampedIsOut, BumpIsNoted, ShownIsStamped, MarkIsRead
<1>2. StampedIsStaged' /\ ShownIsUsed'
  BY DEF StampedIsStaged, ShownIsUsed
<1> QED
  BY <1>1, <1>2 DEF Orderly

LEMMA PushIfShownKeepsOrder ==
  ASSUME Orderly, PushIfShown, UNCHANGED <<data, scan, read>>
  PROVE  Orderly' /\ ShownIsUsed'
<1>1. CASE BumpAndPush
  BY <1>1, PushKeepsOrder
<1>2. CASE silent' = TRUE /\ UNCHANGED <<stamp, entity, sound>>
  BY <1>2, SilenceKeepsOrder
<1> QED
  BY <1>1, <1>2, PushIfShownIsOneOf

(* A step that touches neither stamps nor amounts nor the model.           *)
LEMMA QuietStepKeepsOrder ==
  ASSUME Orderly, ShownIsUsed, Settled' => Settled,
         UNCHANGED <<pending, keep, stamp, entity, silent, sound, snaps, data>>,
         UNCHANGED <<scan, read>> \/ (scan = "idle" /\ scan' = "read")
  PROVE  Orderly' /\ ShownIsUsed'
<1>1. /\ stamp' # NoStamp /\ UnstampedIsOut' /\ BumpIsNoted' /\ ShownIsStamped'
      /\ MarkIsRead'
  BY DEF Orderly, UnstampedIsOut, BumpIsNoted, ShownIsStamped, MarkIsRead
<1>2. StampedIsStaged'
  BY DEF Orderly, StampedIsStaged
<1>3. Meal' = Meal
  BY DEF Meal, FeedValues, Model, Shown
<1>4. ShownIsUsed'
  BY <1>3 DEF ShownIsUsed, Settled
<1> QED
  BY <1>1, <1>2, <1>4 DEF Orderly

(* A scan that ends reports what it read, or had nothing new to report.    *)
LEMMA EndKeepsOrder ==
  ASSUME IInv, Orderly, ScanEnds
  PROVE  Orderly' /\ ShownIsUsed'
<1>1. Free \in SnapIds /\ Free \notin Held /\ Free # NoSnap
  BY FreeIsFree, SnapIdsAreSome DEF IInv, TypeOK
<1>2. /\ scan = "marked" /\ scan' = "idle" /\ data' = Free
      /\ snaps' = [i \in SnapIds |->
             IF i \in Held THEN snaps[i] ELSE IF i = Free THEN read ELSE NoConfig]
      /\ UNCHANGED <<pending, keep, stamp, silent, pc>>
  BY DEF ScanEnds, Replace, staged, feed
<1>3. data' # NoSnap /\ Model' = read
  BY <1>1, <1>2 DEF Model, Shown
<1>4. Meal' = States(pending, read, keep)
  BY <1>2, <1>3 DEF Meal, States, FoodGrams, WaterRatio
<1>5. stamp # NoStamp /\ MarkIsRead /\ StampedIsStaged /\ ShownIsStamped /\ UnstampedIsOut
  BY DEF Orderly
<1>6. stamp' # NoStamp /\ MarkIsRead'
  BY <1>2, <1>5 DEF MarkIsRead
<1>7. StampedIsStaged'
  BY <1>2, <1>5 DEF StampedIsStaged, Settled
<1>8. CASE Moved
  <2>1. /\ entity'.shown = States(pending, read, keep) /\ entity'.stamp = stamp
        /\ sound' = (stamp # Bumped => stamp.pending = pending /\ stamp.keep = keep)
    BY <1>2, <1>3, <1>8 DEF ScanEnds, Reported, Model
  <2>2. UnstampedIsOut' /\ BumpIsNoted'
    BY <1>2, <1>3, <1>5, <2>1 DEF UnstampedIsOut, BumpIsNoted
  <2>3. ShownIsStamped'
    BY <1>2, <1>5, <2>1 DEF ShownIsStamped, MarkIsRead
  <2>4. ShownIsUsed'
    BY <1>4, <2>1 DEF ShownIsUsed
  <2> QED
    BY <1>6, <1>7, <2>2, <2>3, <2>4 DEF Orderly
<1>9. CASE ~Moved
  <2>1. UNCHANGED <<entity, sound>> /\ stamp = entity.stamp
    BY <1>9 DEF ScanEnds, Moved
  <2>2. UnstampedIsOut' /\ BumpIsNoted' /\ ShownIsStamped'
    BY <1>2, <1>3, <1>5, <2>1 DEF UnstampedIsOut, BumpIsNoted, ShownIsStamped
  <2>3. ASSUME Settled', sound', ~silent'
        PROVE  entity'.shown = Meal'
    <3>1. data # NoSnap
      BY <1>5, <2>1 DEF UnstampedIsOut
    <3>2. stamp # Bumped /\ stamp.read = read
      BY <1>2, <1>5, <2>1, <2>3, <3>1 DEF MarkIsRead
    <3>3. pending = stamp.pending /\ keep = stamp.keep
      BY <1>2, <1>5, <2>3, <3>2 DEF StampedIsStaged, Settled
    <3>4. entity.shown = States(stamp.pending, stamp.read, stamp.keep)
      BY <1>5, <2>1, <2>3, <3>2 DEF ShownIsStamped
    <3> QED
      BY <1>4, <2>1, <3>2, <3>3, <3>4
  <2>4. ShownIsUsed'
    BY <2>3 DEF ShownIsUsed, Settled
  <2> QED
    BY <1>6, <1>7, <2>2, <2>4 DEF Orderly
<1> QED
  BY <1>8, <1>9

LEMMA StepKeepsOrder ==
  ASSUME IInv, Orderly, ShownIsUsed, [Next]_vars
  PROVE  Orderly' /\ ShownIsUsed'
<1>1. /\ pc \in [Feeds -> Locations] /\ pending \in Amounts /\ keep \in BOOLEAN
      /\ last \in Meals /\ read \in Configs \cup {NoConfig}
  BY DEF IInv, TypeOK
<1>2. ASSUME NEW part, NEW n, Stage(part, n)
      PROVE  Orderly' /\ ShownIsUsed'
  BY <1>2, PushIfShownKeepsOrder DEF Stage, model, scanning
<1>3. ASSUME NEW on \in BOOLEAN, SetKeep(on)
      PROVE  Orderly' /\ ShownIsUsed'
  BY <1>3, PushIfShownKeepsOrder DEF SetKeep, model, scanning
<1>4. ASSUME NEW t \in Feeds, MealServed(t)
      PROVE  Orderly' /\ ShownIsUsed'
  <2>1. /\ UNCHANGED <<data, scan, read>>
        /\ pc' = [pc EXCEPT ![t] = IF args[t].keep THEN "storing" ELSE "idle"]
    BY <1>4 DEF MealServed, At, model, scanning
  <2>2. CASE ~args[t].keep
    <3>1. PushIfShown
      BY <1>4, <2>2 DEF MealServed
    <3> QED
      BY <2>1, <3>1, PushIfShownKeepsOrder
  <2>3. CASE args[t].keep
    <3>1. UNCHANGED <<stamp, entity, silent, sound>>
      BY <1>4, <2>3 DEF MealServed, report
    <3>2. pc'[t] = "storing"
      BY <1>1, <2>1, <2>3
    <3>3. StampedIsStaged' /\ ShownIsUsed'
      BY <3>2 DEF Settled, StampedIsStaged, ShownIsUsed
    <3>4. /\ stamp' # NoStamp /\ UnstampedIsOut' /\ BumpIsNoted' /\ ShownIsStamped'
          /\ MarkIsRead'
      BY <2>1, <3>1 DEF Orderly, UnstampedIsOut, BumpIsNoted, ShownIsStamped, MarkIsRead
    <3> QED
      BY <3>3, <3>4 DEF Orderly
  <2> QED
    BY <2>2, <2>3
<1>5. ASSUME NEW t \in Feeds, StoreNoted(t)
      PROVE  Orderly' /\ ShownIsUsed'
  <2>1. UNCHANGED <<data, scan, read>>
    BY <1>5 DEF StoreNoted, scanning
  <2>2. CASE snap[t] # NoSnap
    <3>1. BumpAndPush
      BY <1>5, <2>2 DEF StoreNoted
    <3> QED
      BY <2>1, <3>1, PushKeepsOrder
  <2>3. CASE snap[t] = NoSnap
    <3>1. silent' = TRUE /\ UNCHANGED <<stamp, entity, sound>>
      BY <1>5, <2>3 DEF StoreNoted
    <3> QED
      BY <2>1, <3>1, SilenceKeepsOrder
  <2> QED
    BY <2>2, <2>3
<1>6. ASSUME NEW t \in Feeds, StoreFails(t)
      PROVE  Orderly' /\ ShownIsUsed'
  BY <1>6, SilenceKeepsOrder DEF StoreFails, scanning
<1>7. ASSUME NEW t \in Feeds,
             Take(t) \/ MealFails(t) \/ StoreTake(t) \/ StoreSend(t) \/ StoreWritten(t)
      PROVE  Orderly' /\ ShownIsUsed'
  <2>1. UNCHANGED <<pending, keep, stamp, entity, silent, sound, snaps, data, scan, read>>
    BY <1>7 DEF Take, MealFails, StoreTake, StoreSend, StoreWritten, model, staged, report,
                scanning
  <2>2. \/ pc[t] \in {"idle", "asking"}
        \/ \E to \in {"reading", "writing", "written"} : pc' = [pc EXCEPT ![t] = to]
    BY <1>7 DEF Take, MealFails, StoreTake, StoreSend, StoreWritten, At
  <2>3. \E to \in Locations : pc' = [pc EXCEPT ![t] = to]
    BY <1>7 DEF Take, MealFails, StoreTake, StoreSend, StoreWritten, At, Locations
  <2>4. Settled' => Settled
    <3>1. \A u \in Feeds : u # t => pc'[u] = pc[u]
      BY <1>1, <2>3
    <3>2. pc[t] \in {"idle", "asking"} \/ pc'[t] \notin {"idle", "asking"}
      BY <1>1, <2>2
    <3> QED
      BY <3>1, <3>2 DEF Settled
  <2> QED
    BY <2>1, <2>4, QuietStepKeepsOrder
<1>8. CASE ScanReads \/ (\E cfg \in Settings : AppSets(cfg)) \/ UNCHANGED vars
  <2>1. /\ UNCHANGED <<pending, keep, stamp, entity, silent, sound, snaps, data, pc>>
        /\ UNCHANGED <<scan, read>> \/ (scan = "idle" /\ scan' = "read")
    BY <1>8 DEF ScanReads, AppSets, vars, model, staged, report, scanning, feed
  <2>2. Settled' => Settled
    BY <2>1 DEF Settled
  <2> QED
    BY <2>1, <2>2, QuietStepKeepsOrder
<1>9. CASE ScanMarks
  <2>1. /\ scan = "read" /\ scan' = "marked"
        /\ stamp' = Stamp("scan", read, pending, keep, last)
        /\ UNCHANGED <<pending, keep, entity, sound, read, data>>
    BY <1>9 DEF ScanMarks, staged, model
  <2>2. /\ stamp' \notin {Bumped, NoStamp} /\ stamp'.read = read
        /\ stamp'.pending = pending /\ stamp'.keep = keep
    BY <1>1, <2>1, ScanStamp
  <2>3. /\ UnstampedIsOut' /\ BumpIsNoted' /\ ShownIsStamped' /\ MarkIsRead'
        /\ StampedIsStaged'
    BY <2>1, <2>2 DEF Orderly, UnstampedIsOut, BumpIsNoted, ShownIsStamped, MarkIsRead,
                      StampedIsStaged
  <2>4. ShownIsUsed'
    BY <2>1 DEF ShownIsUsed
  <2> QED
    BY <2>2, <2>3, <2>4 DEF Orderly
<1>10. CASE ScanLeavesOut
  <2>1. /\ scan' = "idle" /\ data' = NoSnap /\ entity' = Reported
        /\ UNCHANGED <<pending, keep, stamp>>
    BY <1>10 DEF ScanLeavesOut, Replace, staged
  <2>2. entity'.shown = States(pending', Model', keep') /\ entity'.stamp = NoStamp
    BY <2>1 DEF Reported, Model
  <2>3. Orderly'
    BY <2>1, <2>2 DEF Orderly, UnstampedIsOut, BumpIsNoted, ShownIsStamped, MarkIsRead,
                      StampedIsStaged
  <2>4. Meal' = States(pending', Model', keep')
    BY DEF Meal, States, FoodGrams, WaterRatio
  <2> QED
    BY <2>2, <2>3, <2>4 DEF ShownIsUsed
<1> QED
  BY <1>2, <1>3, <1>4, <1>5, <1>6, <1>7, <1>8, <1>9, <1>10, EndKeepsOrder
  DEF Next, SetFoodGrams, SetWaterRatio

(* The numbers and the switch say what Feed now would use, whatever is     *)
(* pressed, fed, scanned, left out or set in the app, but in the moments   *)
(* the property names: while a feed stores its amounts, after a change     *)
(* that is not pushed until a scan has marked and finished or left the     *)
(* feeder out, and after a report whose stamp was not that of what it      *)
(* showed until the next one (feed_values, state_fingerprint,              *)
(* write_state_if_changed).                                                *)
THEOREM NumbersShowTheNextFeed == Spec => []ShownIsUsed
<1>1. Init => IInv /\ Orderly /\ ShownIsUsed
  <2> SUFFICES ASSUME Init
               PROVE  IInv /\ Orderly /\ ShownIsUsed
    OBVIOUS
  <2>1. IInv
    BY InitIInv
  <2>2. /\ machine \in Configs \cup {NoConfig} /\ data = 1 /\ pending = NoAmounts
        /\ keep \in BOOLEAN /\ last = NoMeal /\ scan = "idle"
        /\ snaps = [i \in SnapIds |-> IF i = 1 THEN machine ELSE NoConfig]
        /\ stamp = Stamp("scan", machine, pending, keep, last)
        /\ entity = [shown |-> States(pending, machine, keep), stamp |-> stamp]
    BY StatedAssumption DEF Init
  <2>3. /\ stamp \notin {Bumped, NoStamp} /\ stamp.read = machine
        /\ stamp.pending = pending /\ stamp.keep = keep
    BY <2>2, ValuesAreTyped, ScanStamp
  <2>4. data # NoSnap /\ Model = machine
    BY <2>2, SnapIdsAreSome DEF Model, Shown, NoSnap
  <2>5. Orderly
    BY <2>2, <2>3, <2>4 DEF Orderly, UnstampedIsOut, BumpIsNoted, ShownIsStamped,
                            MarkIsRead, StampedIsStaged
  <2>6. Meal = States(pending, machine, keep)
    BY <2>4 DEF Meal, States, FoodGrams, WaterRatio
  <2>7. ShownIsUsed
    BY <2>2, <2>6 DEF ShownIsUsed
  <2> QED
    BY <2>1, <2>5, <2>7
<1>2. IInv /\ Orderly /\ ShownIsUsed /\ [Next]_vars => (IInv /\ Orderly /\ ShownIsUsed)'
  <2> SUFFICES ASSUME IInv, Orderly, ShownIsUsed, [Next]_vars
               PROVE  (IInv /\ Orderly /\ ShownIsUsed)'
    OBVIOUS
  <2>1. IInv'
    BY StepKeepsIInv
  <2> QED
    BY <2>1, StepKeepsOrder
<1> QED
  BY <1>1, <1>2, PTL DEF Spec

=============================================================================
