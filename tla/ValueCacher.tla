------------------------------ MODULE ValueCacher ------------------------------
(***************************************************************************)
(* One ValueCacher (value_cacher.py): a value read through a function that *)
(* asks the cloud, shared by the callers of get_or_update -- the scan, the *)
(* Refresh press and every entity press -- which are asyncio tasks that    *)
(* interleave at each await.                                               *)
(*                                                                         *)
(* The cloud's own value is a counter, source, so that a value is named by *)
(* the moment it was read.  A fetch is three steps: it starts, the cloud   *)
(* answers (the sample is taken), and the caller that awaited it resumes.  *)
(*                                                                         *)
(* clear() is called by no code and has no action.  Nor has the branch     *)
(* that joins a fetch in flight (lines 74-81): OneFetch shows that the     *)
(* caller holding the lock never finds one.                                *)
(***************************************************************************)
EXTENDS AsyncioLock

CONSTANTS
  NoLimit,     \* the None of refresh_after and discard_after
  Caches,      \* the caches of the program, by how they were made
  MaxVersion,  \* bound: changes of the cloud's value
  MaxAge       \* bound: age at which a value stops aging

(* refresh and discard are in ticks of the clock; held says that the fetch *)
(* answers a refusal with the value held.                                  *)
ASSUME LimitsAssumption ==
  /\ NoLimit \notin Int
  /\ Caches \subseteq [refresh : Nat \cup {NoLimit},
                       discard : Nat \cup {NoLimit}, held : BOOLEAN]
ASSUME BoundsAssumption == MaxVersion \in Nat /\ MaxAge \in Nat

VARIABLES
  made,      \* how this cache was made
  value,     \* _value: the version held, or NoValue
  age,       \* now - _last_update
  marked,    \* _manually_marked_stale
  inflight,  \* whose fetch is _inflight
  stage,        \* where each caller is
  sample,    \* what the cloud answered to each caller's fetch
  source,    \* the cloud's current version
  asked,     \* history: source when each caller's call began
  floor,     \* history: see MarkStale
  served     \* history: the last answer given to a caller

cache == <<value, age, marked>>
cacherVars == <<made, value, age, marked, holder, queue, inflight, stage,
                sample, source, asked, floor, served>>

RefreshAfter == made.refresh
DiscardAfter == made.discard
HeldOnRefusal == made.held

NoValue == -1
Versions == 0 .. MaxVersion
Stages == {"idle", "waiting", "fetching", "answered"}
Kinds == {"none", "cached", "fetched", "fallback", "error"}

CacherInit ==
  /\ made \in Caches
  /\ value = NoValue
  /\ age = 0
  /\ marked = FALSE
  /\ LockInit
  /\ inflight = NoTask
  /\ stage = [c \in Tasks |-> "idle"]
  /\ sample = [c \in Tasks |-> NoValue]
  /\ source = 0
  /\ asked = [c \in Tasks |-> [source |-> 0, floor |-> 0]]
  /\ floor = 0
  /\ served = [kind |-> "none", version |-> NoValue, asked |-> 0,
               floor |-> 0]

-----------------------------------------------------------------------------
(* The two reads of the cached value.                                      *)

(* Mutated form of IsFresh: a limit of zero is compared like any other.    *)
IsFreshAtZero ==
  /\ ~marked
  /\ value # NoValue
  /\ RefreshAfter # NoLimit => age <= RefreshAfter

(* By its age the value may be served; never so by a limit of zero.        *)
InTime == RefreshAfter # NoLimit => RefreshAfter > 0 /\ age <= RefreshAfter

(* Mutated form of IsFresh: the mark is not looked at.                     *)
IsFreshThoughMarked == value # NoValue /\ InTime

(* value_if_not_stale returns a value.                                     *)
IsFresh ==
  /\ ~marked
  /\ value # NoValue
  /\ InTime

(* value_if_not_discarded returns a value.                                 *)
IsKept ==
  /\ value # NoValue
  /\ DiscardAfter # NoLimit => DiscardAfter > 0 /\ age <= DiscardAfter

(* What caller c is told, with what held when its call began.              *)
Serve(c, kind, version, began) ==
  served' = [kind |-> kind, version |-> version,
             asked |-> began.source, floor |-> began.floor]

(* The histories of a call that begins now.                                *)
AsOfNow == [source |-> source, floor |-> floor]

-----------------------------------------------------------------------------
(* get_or_update.                                                          *)

(* The fast path: the held value is fresh, no lock is taken.               *)
CallFast(c) ==
  /\ stage[c] = "idle"
  /\ IsFresh
  /\ Serve(c, "cached", value, AsOfNow)
  /\ UNCHANGED <<made, cache, lock, inflight, stage, sample, source, asked, floor>>

(* Mutated form of CallLocks: the fetch starts without the lock.           *)
CallIgnoresLock(c) ==
  /\ stage[c] = "idle"
  /\ ~IsFresh
  /\ TakeLock(c)
  /\ inflight' = c
  /\ stage' = [stage EXCEPT ![c] = "fetching"]
  /\ asked' = [asked EXCEPT ![c] = AsOfNow]
  /\ UNCHANGED <<made, cache, sample, source, floor, served>>

(* The lock is free: taking it does not yield, so the re-check sees what   *)
(* the fast path saw and the fetch starts in the same step.                *)
CallLocks(c) ==
  /\ stage[c] = "idle"
  /\ ~IsFresh
  /\ holder = NoTask
  /\ TakeLock(c)
  /\ inflight' = c
  /\ stage' = [stage EXCEPT ![c] = "fetching"]
  /\ asked' = [asked EXCEPT ![c] = AsOfNow]
  /\ UNCHANGED <<made, cache, sample, source, floor, served>>

(* The lock is taken: wait behind the others.                              *)
CallWaits(c) ==
  /\ stage[c] = "idle"
  /\ ~IsFresh
  /\ holder # NoTask
  /\ JoinQueue(c)
  /\ stage' = [stage EXCEPT ![c] = "waiting"]
  /\ asked' = [asked EXCEPT ![c] = AsOfNow]
  /\ UNCHANGED <<made, cache, inflight, sample, source, floor, served>>

(* The re-check under the lock finds that another caller has read.         *)
RecheckHits(c) ==
  /\ stage[c] = "waiting"
  /\ holder = c
  /\ IsFresh
  /\ Serve(c, "cached", value, asked[c])
  /\ ReleaseLock
  /\ stage' = [stage EXCEPT ![c] = "idle"]
  /\ UNCHANGED <<made, cache, inflight, sample, source, asked, floor>>

(* The re-check finds nothing fresh and the fetch starts.                  *)
RecheckFetches(c) ==
  /\ stage[c] = "waiting"
  /\ holder = c
  /\ ~IsFresh
  /\ inflight' = c
  /\ stage' = [stage EXCEPT ![c] = "fetching"]
  /\ UNCHANGED <<made, cache, lock, sample, source, asked, floor, served>>

(* The cloud answers c's fetch with what it holds at that moment.          *)
CloudAnswers(c) ==
  /\ stage[c] = "fetching"
  /\ sample' = [sample EXCEPT ![c] = source]
  /\ stage' = [stage EXCEPT ![c] = "answered"]
  /\ UNCHANGED <<made, cache, lock, inflight, source, asked, floor, served>>

(* The account refuses the fetch and the update function answers with the  *)
(* value already held (the device list and the records do).                *)
RefusalAnswersHeld(c) ==
  /\ HeldOnRefusal
  /\ stage[c] = "fetching"
  /\ IsKept
  /\ sample' = [sample EXCEPT ![c] = value]
  /\ stage' = [stage EXCEPT ![c] = "answered"]
  /\ UNCHANGED <<made, cache, lock, inflight, source, asked, floor, served>>

(* The awaited fetch returned: self.set(result), which also takes the mark *)
(* away, then `finally` and the release of the lock.                       *)
FetchSucceeds(c) ==
  /\ stage[c] = "answered"
  /\ value' = sample[c]
  /\ age' = 0
  /\ marked' = FALSE
  /\ inflight' = NoTask
  /\ Serve(c, "fetched", sample[c], asked[c])
  /\ ReleaseLock
  /\ stage' = [stage EXCEPT ![c] = "idle"]
  /\ UNCHANGED <<made, sample, source, asked, floor>>

(* Mutated form of FetchFails: the lock is kept when no value is served.   *)
FetchFailsLocked(c) ==
  /\ stage[c] = "fetching"
  /\ inflight' = NoTask
  /\ IF IsKept THEN Serve(c, "fallback", value, asked[c]) /\ ReleaseLock
               ELSE Serve(c, "error", value, asked[c]) /\ UNCHANGED lock
  /\ stage' = [stage EXCEPT ![c] = "idle"]
  /\ UNCHANGED <<made, cache, sample, source, asked, floor>>

(* The fetch raised: a value not yet discarded is served, else the error.  *)
FetchFails(c) ==
  /\ stage[c] = "fetching"
  /\ inflight' = NoTask
  /\ IF IsKept THEN Serve(c, "fallback", value, asked[c])
               ELSE Serve(c, "error", value, asked[c])
  /\ ReleaseLock
  /\ stage' = [stage EXCEPT ![c] = "idle"]
  /\ UNCHANGED <<made, cache, sample, source, asked, floor>>

(* The caller's task is cancelled at an await: CancelledError is no        *)
(* Exception, so there is no fallback; `finally` and the lock still run.   *)
CancelQueued(c) ==
  /\ stage[c] = "waiting"
  /\ AbandonLock(c)
  /\ stage' = [stage EXCEPT ![c] = "idle"]
  /\ UNCHANGED <<made, cache, inflight, sample, source, asked, floor, served>>

CancelFetching(c) ==
  /\ stage[c] \in {"fetching", "answered"}
  /\ inflight' = NoTask
  /\ ReleaseLock
  /\ stage' = [stage EXCEPT ![c] = "idle"]
  /\ UNCHANGED <<made, cache, sample, source, asked, floor, served>>

-----------------------------------------------------------------------------
(* The rest of the program, the cloud and the clock.                       *)

(* mark_as_stale: force_refresh_devices, a new last use, a session taken   *)
(* back.  floor keeps what the cloud held at the last mark that was made   *)
(* with no fetch in flight.                                                *)
MarkStale ==
  /\ marked' = TRUE
  /\ floor' = IF inflight = NoTask THEN source ELSE floor
  /\ UNCHANGED <<made, value, age, lock, inflight, stage, sample, source, asked,
                 served>>

SourceChanges ==
  /\ source < MaxVersion
  /\ source' = source + 1
  /\ UNCHANGED <<made, cache, lock, inflight, stage, sample, asked, floor, served>>

(* Mutated form of Tick: the age is computed the wrong way round.          *)
TickBackwards ==
  /\ value # NoValue
  /\ age < MaxAge
  /\ age' = age - 1
  /\ UNCHANGED <<made, value, marked, lock, inflight, stage, sample, source, asked,
                 floor, served>>

Tick ==
  /\ value # NoValue
  /\ age < MaxAge
  /\ age' = age + 1
  /\ UNCHANGED <<made, value, marked, lock, inflight, stage, sample, source, asked,
                 floor, served>>

(* The steps of a call once it has begun, and of the cloud answering it.   *)
Proceed(c) ==
  \/ RecheckHits(c)
  \/ RecheckFetches(c)
  \/ CloudAnswers(c)
  \/ RefusalAnswersHeld(c)
  \/ FetchSucceeds(c)
  \/ FetchFails(c)

Call(c) ==
  \/ CallFast(c)
  \/ CallLocks(c)
  \/ CallWaits(c)

CancelCall(c) ==
  \/ CancelQueued(c)
  \/ CancelFetching(c)

CacherNext ==
  \/ \E c \in Tasks : Call(c) \/ Proceed(c) \/ CancelCall(c)
  \/ MarkStale
  \/ SourceChanges
  \/ Tick

(* The event loop runs a ready task, and an HTTP call ends: the session's  *)
(* total timeout turns one that does not into an error.                    *)
CacherFairness == \A c \in Tasks : WF_cacherVars(Proceed(c))

CacherSpec == CacherInit /\ [][CacherNext]_cacherVars
CacherLiveSpec == CacherSpec /\ CacherFairness

-----------------------------------------------------------------------------
CacherTypeOK ==
  /\ made \in Caches
  /\ value \in Versions \cup {NoValue}
  /\ age \in 0 .. MaxAge
  /\ marked \in BOOLEAN
  /\ LockTypeOK
  /\ inflight \in Tasks \cup {NoTask}
  /\ stage \in [Tasks -> Stages]
  /\ sample \in [Tasks -> Versions \cup {NoValue}]
  /\ source \in Versions
  /\ asked \in [Tasks -> [source : Versions, floor : Versions]]
  /\ floor \in Versions
  /\ served \in [kind : Kinds, version : Versions \cup {NoValue},
                 asked : Versions, floor : Versions]

(* At most one fetch is on its way, it is the one _inflight names, and the *)
(* caller that was handed the lock finds none: the branch that joins a     *)
(* fetch in flight is dead, and the cloud is asked once per staleness.     *)
OneFetch ==
  /\ \A c, d \in Tasks :
       stage[c] \in {"fetching", "answered"} /\ stage[d] \in {"fetching", "answered"}
         => c = d
  /\ \A c \in Tasks : stage[c] \in {"fetching", "answered"} <=> inflight = c
  /\ \A c \in Tasks : stage[c] = "waiting" /\ holder = c => inflight = NoTask

(* With refresh_after = 0 (a device's properties, whose refusals raise) an *)
(* answer that is not a failure's fallback was read after the call began:  *)
(* a caller that waited behind another's fetch reads again instead of      *)
(* taking over its answer.                                                 *)
ZeroRefreshReadsAgain ==
  RefreshAfter = 0 /\ ~HeldOnRefusal /\ served.kind \in {"cached", "fetched"}
    => served.version >= served.asked

(* A mark made while no fetch was in flight holds, where refusals raise:   *)
(* whoever calls after it gets a value read after it, or a fallback        *)
(* because reading failed.  A mark made during a fetch does not: set()     *)
(* clears it with an answer that may have been sampled before it.          *)
QuietMarkHonoured ==
  ~HeldOnRefusal /\ served.kind \in {"cached", "fetched"} => served.version >= served.floor

(* The held value never goes back to an older reading.                     *)
NeverBackwards == [][value' >= value]_cacherVars

(* What the fetch in flight will store, once the cloud has answered it.    *)
ToStore ==
  IF inflight # NoTask /\ stage[inflight] = "answered" THEN sample[inflight] ELSE NoValue

Cache == INSTANCE SharedCache
           WITH held <- value, inTime <- InTime, fetcher <- inflight, answer <- ToStore

(* With its queue, the double check, refusals and cancellations a cache    *)
(* amounts to SharedCache.                                                 *)
ImplementsCache == Cache!Spec

(* Every call ends: the queue is served in order, and a fetch that failed  *)
(* or was cancelled gives the lock back.                                   *)
EveryCallEnds == \A c \in Tasks : stage[c] # "idle" ~> stage[c] = "idle"

=============================================================================
