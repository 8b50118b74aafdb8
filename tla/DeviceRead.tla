------------------------------- MODULE DeviceRead -------------------------------
(***************************************************************************)
(* The read of one device (coordinator.py, _fetch_single_device): its      *)
(* properties, for a feeder a live weighing, and its records, which are    *)
(* asked again only when the properties state a new last use (litter box)  *)
(* or an hour has passed (feeder).  A scan and the press of Refresh data   *)
(* now may read at once; they meet in the two caches of the device, whose  *)
(* rules are those of ValueCacher.                                         *)
(*                                                                         *)
(* The cloud counts what the machine did: use is the number of uses (or    *)
(* meals), the last use the properties state and the newest of the records.*)
(* The properties cache always reads, so of its lock only the order of the *)
(* answers is left.  What the account sensor is told is in SessionRecovery.*)
(***************************************************************************)
EXTENDS Integers

CONSTANTS
  Scans,       \* the tasks in which Home Assistant updates the data
  Refreshes,   \* the tasks of Refresh data now
  Kinds,       \* the kinds of device to start with
  NoTask,      \* who holds a free lock
  MaxUses,     \* bound: uses of the machine
  MaxRefusals  \* bound: refusals of the account

Tasks == Scans \cup Refreshes

ASSUME TasksAssumption == Scans \cap Refreshes = {} /\ NoTask \notin Tasks
ASSUME KindsAssumption == Kinds \subseteq {"CatLitter", "petFeeder"}
ASSUME BoundsAssumption == MaxUses \in Nat /\ MaxRefusals \in Nat

VARIABLES
  kind,      \* _device_meta: the category of the device
  use,       \* the cloud: uses of the machine so far
  refusals,  \* the refusals so far
  props,     \* the properties cache: the last use it holds, or None
  noted,     \* _last_use_dates, or None
  held,      \* the records cache: the newest use it holds, or None
  age,       \* its age: "young", "hour" after one, "gone" after four
  marked,    \* it is marked as stale
  holder,    \* who holds its lock: the task that fetches
  pc,        \* what each task awaits
  seen,      \* the last use in the properties it read
  sample,    \* what its fetch of the records will return
  excused    \* history: why the last mark may be lost, see NoUseMissed

records == <<held, age, marked, holder>>
task == <<pc, seen, sample>>
vars == <<kind, use, refusals, props, noted, records, task, excused>>

None == -1
Uses == 0 .. MaxUses
Ages == {"young", "hour", "gone"}
Locations ==
  {"idle", "asking", "weighing", "seen", "waiting", "reading", "answered"}

Init ==
  /\ kind \in Kinds
  /\ use \in Uses
  /\ refusals = 0
  /\ props = None
  /\ noted = None
  /\ held = None
  /\ age = "young"
  /\ marked = FALSE
  /\ holder = NoTask
  /\ pc = [t \in Tasks |-> "idle"]
  /\ seen = [t \in Tasks |-> None]
  /\ sample = [t \in Tasks |-> None]
  /\ excused = FALSE

Goto(t, from, to) ==
  /\ pc[t] = from
  /\ pc' = [pc EXCEPT ![t] = to]

-----------------------------------------------------------------------------
(* The records cache: _cache_for with the rules of ValueCacher.            *)

(* Mutated form of Fresh: the feeder's cache is made as the litter box's.  *)
FreshAtAnyAge(isMarked) == ~isMarked /\ held # None

(* A litter box's records never go stale by age, a feeder's after an hour. *)
InTime == kind = "petFeeder" => age = "young"

Fresh(isMarked) == ~isMarked /\ held # None /\ InTime

Kept == held # None /\ age # "gone"

(* get_or_update up to its first await.                                    *)
Ask(t, isMarked) ==
  \/ /\ Fresh(isMarked)
     /\ Goto(t, "seen", "idle")
     /\ UNCHANGED holder
  \/ /\ ~Fresh(isMarked)
     /\ holder = NoTask
     /\ Goto(t, "seen", "reading")
     /\ holder' = t
  \/ /\ ~Fresh(isMarked)
     /\ holder # NoTask
     /\ Goto(t, "seen", "waiting")
     /\ UNCHANGED holder

-----------------------------------------------------------------------------
(* The properties.                                                         *)

Begin(t) ==
  /\ t \in Scans
  /\ Goto(t, "idle", "asking")
  /\ UNCHANGED <<kind, use, refusals, props, noted, records, seen, sample,
                 excused>>

(* take_account_session_back, once signed in: all caches are marked.       *)
TakeBack(t) ==
  /\ t \in Refreshes
  /\ Goto(t, "idle", "asking")
  /\ marked' = TRUE
  /\ excused' = (holder # NoTask)
  /\ UNCHANGED <<kind, use, refusals, props, noted, held, age, holder, seen, sample>>

(* Mutated form of StatedUse: the use under way is stated too.             *)
StatedUseAhead == IF kind = "petFeeder" THEN 0 ELSE use + 1

(* _get_last_use_date; a feeder states none.                               *)
StatedUse == IF kind = "petFeeder" THEN 0 ELSE use

AfterProps == IF kind = "petFeeder" THEN "weighing" ELSE "seen"

PropsAnswered(t) ==
  /\ Goto(t, "asking", AfterProps)
  /\ props' = StatedUse
  /\ seen' = [seen EXCEPT ![t] = StatedUse]
  /\ UNCHANGED <<kind, use, refusals, noted, records, sample, excused>>

(* The read fails: the properties kept are taken.                          *)
PropsKept(t) ==
  /\ props # None
  /\ Goto(t, "asking", AfterProps)
  /\ seen' = [seen EXCEPT ![t] = props]
  /\ UNCHANGED <<kind, use, refusals, props, noted, records, sample, excused>>

(* None are kept: the device is left out of the update.                    *)
PropsFail(t) ==
  /\ props = None
  /\ Goto(t, "asking", "idle")
  /\ UNCHANGED <<kind, use, refusals, props, noted, records, seen, sample,
                 excused>>

(* Half an hour after the last answer the properties kept are discarded.   *)
PropsDiscarded ==
  /\ props # None
  /\ props' = None
  /\ UNCHANGED <<kind, use, refusals, noted, records, task, excused>>

(* _read_live_scale: a weighing, or none when the call is refused as busy  *)
(* or unanswered.                                                          *)
Weighed(t) ==
  /\ Goto(t, "weighing", "seen")
  /\ UNCHANGED <<kind, use, refusals, props, noted, records, seen, sample,
                 excused>>

(* Any other error is not caught: the device fails.                        *)
WeighingFails(t) ==
  /\ Goto(t, "weighing", "idle")
  /\ seen' = [seen EXCEPT ![t] = None]
  /\ UNCHANGED <<kind, use, refusals, props, noted, records, sample, excused>>

-----------------------------------------------------------------------------
(* The records.                                                            *)

(* Mutated form of NoteUse: the last use is noted when records are read.   *)
NoteUseUnmarked(t) ==
  /\ noted' = seen[t]
  /\ Ask(t, marked)
  /\ seen' = [seen EXCEPT ![t] = None]
  /\ UNCHANGED <<kind, use, refusals, props, held, age, marked, sample, excused>>

(* A new last use marks the records as stale; it is noted, and the records *)
(* are asked for.                                                          *)
NoteUse(t) ==
  /\ marked' = (marked \/ noted # seen[t])
  /\ noted' = seen[t]
  /\ Ask(t, marked')
  /\ excused' = IF noted # seen[t] THEN holder # NoTask ELSE excused
  /\ seen' = [seen EXCEPT ![t] = None]
  /\ UNCHANGED <<kind, use, refusals, props, held, age, sample>>

(* Mutated form of Recheck: what another caller has read is not looked at. *)
RecheckNot(t) ==
  /\ holder = NoTask
  /\ Goto(t, "waiting", "reading")
  /\ holder' = t
  /\ UNCHANGED <<kind, use, refusals, props, noted, held, age, marked, seen,
                 sample, excused>>

(* The lock was given back and another caller has read, or not.            *)
Recheck(t) ==
  /\ holder = NoTask
  /\ \/ Fresh(marked) /\ Goto(t, "waiting", "idle") /\ UNCHANGED holder
     \/ ~Fresh(marked) /\ Goto(t, "waiting", "reading") /\ holder' = t
  /\ UNCHANGED <<kind, use, refusals, props, noted, held, age, marked, seen,
                 sample, excused>>

RecordsAnswered(t) ==
  /\ Goto(t, "reading", "answered")
  /\ sample' = [sample EXCEPT ![t] = use]
  /\ UNCHANGED <<kind, use, refusals, props, noted, records, seen, excused>>

(* The account refuses: the fetch returns the value held.                  *)
RecordsRefused(t) ==
  /\ Kept
  /\ refusals < MaxRefusals
  /\ Goto(t, "reading", "answered")
  /\ sample' = [sample EXCEPT ![t] = held]
  /\ refusals' = refusals + 1
  /\ excused' = TRUE
  /\ UNCHANGED <<kind, use, props, noted, records, seen>>

(* It refuses and nothing is held: the error goes on to the recovery.      *)
RecordsExpired(t) ==
  /\ ~Kept
  /\ refusals < MaxRefusals
  /\ Goto(t, "reading", "idle")
  /\ holder' = NoTask
  /\ refusals' = refusals + 1
  /\ UNCHANGED <<kind, use, props, noted, held, age, marked, seen, sample, excused>>

(* The call fails otherwise: the cache answers with what it keeps, or the  *)
(* device is left out.  Nothing is stored in either case.                  *)
RecordsFail(t) ==
  /\ Goto(t, "reading", "idle")
  /\ holder' = NoTask
  /\ UNCHANGED <<kind, use, refusals, props, noted, held, age, marked, seen,
                 sample, excused>>

(* set: what the fetch returned is stored as read now.                     *)
Store(t) ==
  /\ Goto(t, "answered", "idle")
  /\ held' = sample[t]
  /\ age' = "young"
  /\ marked' = FALSE
  /\ holder' = NoTask
  /\ sample' = [sample EXCEPT ![t] = None]
  /\ UNCHANGED <<kind, use, refusals, props, noted, seen, excused>>

Age ==
  /\ held # None
  /\ \/ age = "young" /\ age' = "hour"
     \/ age = "hour" /\ age' = "gone"
  /\ UNCHANGED <<kind, use, refusals, props, noted, held, marked, holder, task,
                 excused>>

-----------------------------------------------------------------------------
(* The machine is used, and the cloud states it and holds its record.      *)
Used ==
  /\ use < MaxUses
  /\ use' = use + 1
  /\ UNCHANGED <<kind, refusals, props, noted, records, task, excused>>

Proceed(t) ==
  \/ PropsKept(t)
  \/ PropsFail(t)
  \/ Weighed(t)
  \/ WeighingFails(t)
  \/ NoteUse(t)
  \/ Recheck(t)
  \/ RecordsRefused(t)
  \/ RecordsExpired(t)
  \/ RecordsFail(t)
  \/ Store(t)

Answer(t) == PropsAnswered(t) \/ RecordsAnswered(t)

Next ==
  \/ \E t \in Tasks : Begin(t) \/ TakeBack(t) \/ Answer(t) \/ Proceed(t)
  \/ PropsDiscarded
  \/ Age
  \/ Used

Spec == Init /\ [][Next]_vars

(* Scans are scheduled for ever, every await ends, time passes, and the    *)
(* cloud answers again and again what it is asked again and again.         *)
Fairness ==
  /\ WF_vars(Age)
  /\ \A t \in Tasks :
       /\ WF_vars(Proceed(t))
       /\ SF_vars(PropsAnswered(t))
       /\ SF_vars(Weighed(t))
       /\ SF_vars(RecordsAnswered(t))
  /\ \A t \in Scans : WF_vars(Begin(t))

FairSpec == Spec /\ Fairness

-----------------------------------------------------------------------------
TypeOK ==
  /\ kind \in Kinds
  /\ use \in Uses
  /\ refusals \in 0 .. MaxRefusals
  /\ props \in Uses \cup {None}
  /\ noted \in Uses \cup {None}
  /\ held \in Uses \cup {None}
  /\ age \in Ages
  /\ marked \in BOOLEAN
  /\ holder \in Tasks \cup {NoTask}
  /\ pc \in [Tasks -> Locations]
  /\ seen \in [Tasks -> Uses \cup {None}]
  /\ sample \in [Tasks -> Uses \cup {None}]
  /\ excused \in BOOLEAN

(* A last use that was noted has its record in the cache, or a mark that   *)
(* makes the next read ask for it: a failed read loses nothing.  Excused   *)
(* are a refusal that was answered with the value held, and a mark made    *)
(* while another task was fetching, until the next mark.                   *)
NoUseMissed == excused \/ marked \/ held >= noted

(* What the task that fetches will store, once it was answered.            *)
ToStore == IF holder # NoTask /\ pc[holder] = "answered" THEN sample[holder] ELSE None

Cache == INSTANCE SharedCache
           WITH inTime <- InTime, fetcher <- holder, answer <- ToStore

(* The records of a device, asked for by scans and presses that cross, are *)
(* kept by the rules of SharedCache, to which ValueCacher amounts.         *)
FollowsCache == Cache!Spec

(* Each use is read in the end, of a litter box because its properties     *)
(* state it and of a feeder because its records age, whatever fails on the *)
(* way, as long as nothing excuses it.                                     *)
EveryUseIsRead ==
  \A n \in Uses : [](~excused) => (use = n ~> held >= n)

=============================================================================
