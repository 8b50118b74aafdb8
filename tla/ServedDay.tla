------------------------------- MODULE ServedDay --------------------------------
(***************************************************************************)
(* The day figure of a feeder (coordinator.py, _served_day_bounds to       *)
(* _served_today): the grams of the meals whose rows fall in the local day *)
(* that is running.  Moments are hours; a row states its own in seconds or *)
(* milliseconds, which here are MilliPerHour times as large.               *)
(***************************************************************************)
EXTENDS Integers, FiniteSets, FiniteSetsExt

CONSTANTS
  Midnights,  \* the hours at which a local day starts, the first one included
  None        \* Python's None

ASSUME MidnightsAssumption == Midnights \subseteq Nat \ {0} /\ IsFiniteSet(Midnights)
ASSUME NoneAssumption == None \notin Int

MilliPerHour == 1000
IsMilli(stated) == stated > 500

(* The start of the local day at an hour.                                  *)
DayStart(now) ==
  CHOOSE m \in Midnights : m <= now /\ \A n \in Midnights : n <= now => n <= m

(* Mutated form of DayBounds: the hours since the same one yesterday.      *)
DayBoundsRolling(now) == [from |-> now - 23, to |-> now + 1]

(* _served_day_bounds: a day is taken to have 24 hours.                    *)
DayBounds(now) == [from |-> DayStart(now), to |-> DayStart(now) + 24]

(* Whether a row's moment is in the day running.                           *)
InDay(stated, bounds) ==
  LET when == IF IsMilli(stated) THEN stated \div MilliPerHour ELSE stated
  IN  bounds.from <= when /\ when < bounds.to

(* The rows of the day: those with a moment in it.  Each is a row of its   *)
(* own by its id, so that two meals alike count twice.                     *)
ServedRows(rows, now) ==
  {r \in rows : r.feed_time # None /\ InDay(r.feed_time, DayBounds(now))}

Grams(stated) == IF stated = None THEN 0 ELSE stated
Solid(row) == Grams(row.feed_weight)
Liquid(row) == Grams(row.water_weight)

(* What the meals of some rows weigh together.                             *)
Solids(rows) == MapThenSumSet(Solid, rows)
Liquids(rows) == MapThenSumSet(Liquid, rows)

(* _served_today: no row in the day states no number.                      *)
ServedToday(rows, now) ==
  LET today == ServedRows(rows, now)
  IN  IF today = {}
      THEN [solids |-> None, liquid |-> None]
      ELSE [solids |-> Solids(today), liquid |-> Liquids(today)]
=============================================================================
