---------------------------- MODULE SharedLockProofs ----------------------------
(***************************************************************************)
(* Proofs about the two components that serialise their callers with an    *)
(* asyncio.Lock: ValueCacher and ApiManager.  First what each operation of *)
(* the lock does to its invariant and to the set of tasks that wait; the   *)
(* rest cites these facts and never looks at the queue again.              *)
(*                                                                         *)
(* Then ValueCacher, for any callers, limits and bounds.  CallsInv relates *)
(* who holds the lock, who waits and whose fetch is in flight to the stage *)
(* of each caller.  What the answers promise (DataInv) rests on it: while  *)
(* a fetch is in flight nobody else can store a value.                     *)
(*                                                                         *)
(* Then ApiManager, for any number of tasks and losses.  LockInv says that *)
(* whoever signs in holds the lock and that everybody else is idle or      *)
(* waits; SigningAlone, RegisteredIsNewest and the account of losses       *)
(* (Explained) are inductive on top of it.  The refinement of SharedClient *)
(* follows step by step from the same invariant.                           *)
(***************************************************************************)
EXTENDS ValueCacher, ApiManager, TLAPS

-----------------------------------------------------------------------------
(* The lock.                                                               *)

LEMMA TakeKeepsLock ==
  ASSUME LockOK, NEW c \in Tasks, holder = NoTask, TakeLock(c)
  PROVE  LockOK' /\ Queued' = Queued /\ Queued = {}
BY DEF LockOK, LockTypeOK, TakeLock, Queued

LEMMA JoinKeepsLock ==
  ASSUME LockOK, NEW c \in Tasks, holder # NoTask, holder # c, c \notin Queued,
         JoinQueue(c)
  PROVE  LockOK' /\ Queued' = Queued \cup {c}
<1>1. /\ queue \in Seq(Tasks) /\ Len(queue) \in Nat
      /\ queue' = Append(queue, c) /\ holder' = holder
  BY DEF LockOK, LockTypeOK, JoinQueue
<1>2. /\ queue' \in Seq(Tasks) /\ Len(queue') = Len(queue) + 1
      /\ queue'[Len(queue) + 1] = c
      /\ \A i \in 1 .. Len(queue) : queue'[i] = queue[i]
  BY <1>1
<1>3. Queued' = Queued \cup {c}
  <2>1. \A d \in Queued' : d \in Queued \cup {c}
    BY <1>1, <1>2 DEF Queued
  <2>2. c \in Queued'
    BY <1>1, <1>2 DEF Queued
  <2>3. \A d \in Queued : d \in Queued'
    <3> SUFFICES ASSUME NEW i \in 1 .. Len(queue) PROVE queue[i] \in Queued'
      BY DEF Queued
    <3>1. i \in 1 .. Len(queue') /\ queue'[i] = queue[i]
      BY <1>1, <1>2
    <3> QED
      BY <3>1 DEF Queued
  <2> QED
    BY <2>1, <2>2, <2>3
<1>4. \A i, j \in 1 .. Len(queue') : queue'[i] = queue'[j] => i = j
  BY <1>1, <1>2 DEF LockOK, Queued
<1>5. holder' \notin Queued'
  BY <1>1, <1>3 DEF LockOK
<1>6. LockTypeOK' /\ holder' # NoTask
  BY <1>1, <1>2 DEF LockOK, LockTypeOK
<1> QED
  BY <1>3, <1>4, <1>5, <1>6 DEF LockOK

LEMMA ReleaseKeepsLock ==
  ASSUME LockOK, holder # NoTask, ReleaseLock
  PROVE  /\ LockOK'
         /\ \/ holder' = NoTask /\ Queued = {} /\ Queued' = {}
            \/ holder' \in Queued /\ Queued' = Queued \ {holder'}
<1>1. CASE queue = <<>>
  BY <1>1, TasksAssumption DEF LockOK, LockTypeOK, ReleaseLock, Queued
<1>2. CASE queue # <<>>
  <2>1. /\ queue \in Seq(Tasks) /\ Len(queue) \in Nat /\ Len(queue) >= 1
        /\ holder' = queue[1] /\ queue' = Tail(queue)
    BY <1>2 DEF LockOK, LockTypeOK, ReleaseLock
  <2>2. /\ queue' \in Seq(Tasks) /\ Len(queue') = Len(queue) - 1
        /\ \A i \in 1 .. Len(queue') : queue'[i] = queue[i + 1]
    BY <2>1
  <2>3. holder' \in Tasks /\ holder' \in Queued
    BY <2>1 DEF Queued
  <2>4. \A i, j \in 1 .. Len(queue) : queue[i] = queue[j] => i = j
    BY DEF LockOK
  <2>5. \A i, j \in 1 .. Len(queue') : queue'[i] = queue'[j] => i = j
    <3> SUFFICES ASSUME NEW i \in 1 .. Len(queue'), NEW j \in 1 .. Len(queue'),
                        queue'[i] = queue'[j]
                 PROVE  i = j
      OBVIOUS
    <3>1. i + 1 \in 1 .. Len(queue) /\ j + 1 \in 1 .. Len(queue)
      BY <2>1, <2>2
    <3>2. i + 1 = j + 1
      BY <3>1, <2>2, <2>4
    <3> QED
      BY <3>2, <2>1, <2>2
  <2>6. \A d \in Queued' : d \in Queued /\ d # holder'
    <3> SUFFICES ASSUME NEW i \in 1 .. Len(queue')
                 PROVE  queue'[i] \in Queued /\ queue'[i] # holder'
      BY DEF Queued
    <3>1. i + 1 \in 1 .. Len(queue) /\ 1 \in 1 .. Len(queue) /\ i + 1 # 1
      BY <2>1, <2>2
    <3>2. queue'[i] = queue[i + 1] /\ queue[i + 1] # queue[1]
      BY <3>1, <2>2, <2>4
    <3> QED
      BY <3>1, <3>2, <2>1 DEF Queued
  <2>7. \A d \in Queued : d # holder' => d \in Queued'
    <3> SUFFICES ASSUME NEW i \in 1 .. Len(queue), queue[i] # queue[1]
                 PROVE  queue[i] \in Queued'
      BY <2>1 DEF Queued
    <3>1. i - 1 \in 1 .. Len(queue') /\ queue'[i - 1] = queue[i]
      BY <2>1, <2>2
    <3> QED
      BY <3>1 DEF Queued
  <2>8. Queued' = Queued \ {holder'}
    BY <2>6, <2>7
  <2>9. LockOK'
    BY <2>2, <2>3, <2>5, <2>8, TasksAssumption DEF LockOK, LockTypeOK
  <2> QED
    BY <2>3, <2>8, <2>9
<1> QED
  BY <1>1, <1>2

LEMMA LeaveKeepsLock ==
  ASSUME LockOK, NEW c \in Queued, holder' = holder, queue' = Without(c)
  PROVE  LockOK' /\ Queued' = Queued \ {c}
<1> DEFINE n == Len(queue)
<1> DEFINE at == CHOOSE i \in 1 .. Len(queue) : queue[i] = c
<1>1. n \in Nat /\ queue \in Seq(Tasks) /\ \A i \in 1 .. n : queue[i] \in Tasks
  BY DEF LockOK, LockTypeOK
<1>2. at \in 1 .. n /\ queue[at] = c
  BY DEF Queued
<1>3. queue' = [i \in 1 .. (n - 1) |-> IF i < at THEN queue[i] ELSE queue[i + 1]]
  BY DEF Without
<1>4. /\ Queued = {queue[i] : i \in 1 .. n}
      /\ \A i, j \in 1 .. n : queue[i] = queue[j] => i = j
  BY DEF Queued, LockOK
<1> HIDE DEF n, at
<1>5. \A i \in 1 .. (n - 1) :
        /\ i < at => queue'[i] = queue[i] /\ i \in 1 .. n
        /\ ~(i < at) => queue'[i] = queue[i + 1] /\ i + 1 \in 1 .. n
  BY <1>1, <1>2, <1>3
<1>6. queue' \in Seq(Tasks) /\ Len(queue') = n - 1
  BY <1>1, <1>2, <1>3, <1>5
<1>7. \A i, j \in 1 .. (n - 1) : queue'[i] = queue'[j] => i = j
  BY <1>1, <1>2, <1>4, <1>5
<1>8. \A i \in 1 .. (n - 1) : queue'[i] \in Queued /\ queue'[i] # c
  BY <1>1, <1>2, <1>4, <1>5
<1>9. ASSUME NEW k \in 1 .. n, k # at PROVE \E i \in 1 .. (n - 1) : queue'[i] = queue[k]
  <2>1. CASE k < at
    BY <2>1, <1>1, <1>2, <1>5
  <2>2. CASE k > at
    <3>1. k - 1 \in 1 .. (n - 1) /\ ~(k - 1 < at)
      BY <2>2, <1>1, <1>2
    <3> QED
      BY <3>1, <1>1, <1>5
  <2> QED
    BY <1>1, <1>2, <1>9, <2>1, <2>2
<1>10. Queued' = {queue'[i] : i \in 1 .. (n - 1)}
  BY <1>6 DEF Queued
<1>11. \A d \in Queued' : d \in Queued /\ d # c
  BY <1>8, <1>10
<1>12. \A d \in Queued : d # c => d \in Queued'
  BY <1>2, <1>4, <1>9, <1>10
<1>13. Queued' = Queued \ {c}
  BY <1>11, <1>12
<1>14. holder # NoTask
  BY DEF LockOK, Queued
<1>15. LockOK'
  BY <1>6, <1>7, <1>13, <1>14 DEF LockOK, LockTypeOK
<1> QED
  BY <1>13, <1>15

-----------------------------------------------------------------------------
(* ValueCacher.                                                            *)

Working == {"fetching", "answered"}

CallsInv ==
  /\ LockOK
  /\ \A c \in Tasks : stage[c] = "waiting" <=> c \in Queued \/ (holder = c /\ inflight # c)
  /\ \A c \in Tasks : stage[c] \in Working <=> inflight = c
  /\ \A c \in Tasks : stage[c] \in Working => holder = c

CacherInv == CacherTypeOK /\ CallsInv

(* Giving the lock back keeps the book-keeping, whoever comes next.        *)
LEMMA CallHandsOver ==
  ASSUME CacherInv, NEW c \in Tasks, holder = c, ReleaseLock,
         inflight' = NoTask, stage' = [stage EXCEPT ![c] = "idle"]
  PROVE  /\ CallsInv'
         /\ LockTypeOK'
         /\ stage' \in [Tasks -> Stages]
         /\ \A d \in Tasks : stage'[d] \notin Working
<1> USE TasksAssumption
<1>1. /\ CacherTypeOK /\ CallsInv /\ LockOK /\ c # NoTask
      /\ stage' \in [Tasks -> Stages]
      /\ stage'[c] = "idle"
      /\ \A d \in Tasks : d # c => stage'[d] = stage[d]
  BY DEF CacherInv, CacherTypeOK, CallsInv, Stages
<1>2. /\ LockOK'
      /\ \/ holder' = NoTask /\ Queued = {} /\ Queued' = {}
         \/ holder' \in Queued /\ Queued' = Queued \ {holder'}
  BY <1>1, ReleaseKeepsLock
<1>3. \A d \in Tasks : stage'[d] \notin Working
  BY <1>1 DEF CallsInv, Working
<1>4. c \notin Queued
  BY <1>1 DEF LockOK
<1>5. \A d \in Tasks : d # c => (stage[d] = "waiting" <=> d \in Queued)
  BY <1>1 DEF CallsInv
<1>6. \A d \in Tasks : stage'[d] = "waiting" <=> d \in Queued' \/ (holder' = d /\ inflight' # d)
  BY <1>1, <1>2, <1>4, <1>5
<1>7. \A d \in Tasks : stage'[d] \in Working <=> inflight' = d
  BY <1>3
<1> QED
  BY <1>1, <1>2, <1>3, <1>6, <1>7 DEF CallsInv, LockOK

LEMMA InitCacherInv == CacherInit => CacherInv
<1> SUFFICES ASSUME CacherInit PROVE CacherInv
  OBVIOUS
<1> USE TasksAssumption, BoundsAssumption DEF CacherInit, LockInit
<1>1. CacherTypeOK
  <2>1. 0 \in Versions /\ 0 \in 0 .. MaxAge
    BY DEF Versions
  <2>3. /\ LockTypeOK
        /\ stage \in [Tasks -> Stages]
        /\ sample \in [Tasks -> Versions \cup {NoValue}]
    BY DEF Stages, LockTypeOK
  <2>4. asked \in [Tasks -> [source : Versions, floor : Versions]]
    BY <2>1
  <2>5. served \in [kind : Kinds, version : Versions \cup {NoValue},
                    asked : Versions, floor : Versions]
    BY <2>1 DEF Kinds
  <2> QED
    BY <2>1, <2>3, <2>4, <2>5 DEF CacherTypeOK
<1>2. CallsInv
  BY DEF CallsInv, LockOK, LockTypeOK, Queued, Working
<1> QED
  BY <1>1, <1>2 DEF CacherInv

(* One step of a caller keeps the invariant.                               *)
LEMMA CallerKeepsCacherInv ==
  ASSUME CacherInv, NEW c \in Tasks, Call(c) \/ Proceed(c) \/ CancelCall(c)
  PROVE  CacherInv'
<1> USE TasksAssumption, BoundsAssumption
<1>0. CacherTypeOK /\ CallsInv /\ LockOK /\ LockTypeOK
  BY DEF CacherInv, CallsInv, LockOK
<1>1. ASSUME UNCHANGED lock PROVE LockOK' /\ Queued' = Queued /\ LockTypeOK'
  BY <1>0, <1>1 DEF lock, LockOK, LockTypeOK, Queued
<1>2. CASE CallFast(c)
  <2>1. /\ Queued' = Queued /\ LockOK' /\ LockTypeOK' /\ UNCHANGED <<inflight, stage, holder>>
    BY <1>1, <1>2 DEF CallFast, lock
  <2>2. CallsInv'
    BY <1>0, <2>1 DEF CallsInv
  <2>3. CacherTypeOK'
    BY <1>0, <1>2, <2>1 DEF CacherTypeOK, CallFast, Serve, AsOfNow, cache, Kinds, IsFresh
  <2> QED
    BY <2>2, <2>3 DEF CacherInv
<1>3. CASE CallLocks(c)
  <2>1. LockOK' /\ Queued' = Queued /\ Queued = {} /\ LockTypeOK'
    BY <1>0, <1>3, TakeKeepsLock DEF CallLocks, LockOK
  <2>2. CacherTypeOK'
    BY <1>0, <1>3, <2>1 DEF CacherTypeOK, CallLocks, AsOfNow, cache, Stages
  <2>3. CallsInv'
    BY <1>0, <1>3, <2>1 DEF CacherTypeOK, CallsInv, CallLocks, TakeLock, Working
  <2> QED
    BY <2>2, <2>3 DEF CacherInv
<1>4. CASE CallWaits(c)
  <2>1. c \notin Queued /\ holder # c /\ holder # NoTask
    BY <1>0, <1>4 DEF CallWaits, CallsInv, Working
  <2>2. LockOK' /\ Queued' = Queued \cup {c} /\ LockTypeOK'
    BY <1>0, <1>4, <2>1, JoinKeepsLock DEF CallWaits, LockOK
  <2>3. CacherTypeOK'
    BY <1>0, <1>4, <2>2 DEF CacherTypeOK, CallWaits, AsOfNow, cache, Stages
  <2>4. CallsInv'
    BY <1>0, <1>4, <2>1, <2>2 DEF CacherTypeOK, CallsInv, CallWaits, JoinQueue, Working
  <2> QED
    BY <2>3, <2>4 DEF CacherInv
<1>5. CASE RecheckHits(c)
  <2>1. holder = c /\ inflight' = NoTask
    BY <1>0, <1>5 DEF RecheckHits, CallsInv, CacherTypeOK, Working
  <2>2. CallsInv' /\ LockTypeOK' /\ stage' \in [Tasks -> Stages]
    BY <1>5, <2>1, CallHandsOver DEF RecheckHits
  <2>3. CacherTypeOK'
    BY <1>0, <1>5, <2>1, <2>2 DEF CacherTypeOK, RecheckHits, Serve, cache, Kinds
  <2> QED
    BY <2>2, <2>3 DEF CacherInv
<1>6. CASE RecheckFetches(c)
  <2>1. Queued' = Queued /\ LockOK' /\ LockTypeOK' /\ holder' = holder /\ c \notin Queued
    BY <1>0, <1>1, <1>6 DEF RecheckFetches, lock, LockOK
  <2>2. CacherTypeOK'
    BY <1>0, <1>6, <2>1 DEF CacherTypeOK, RecheckFetches, cache, Stages
  <2>3. CallsInv'
    BY <1>0, <1>6, <2>1 DEF CacherTypeOK, CallsInv, RecheckFetches, Working
  <2> QED
    BY <2>2, <2>3 DEF CacherInv
<1>7. CASE CloudAnswers(c)
  <2>1. Queued' = Queued /\ LockOK' /\ LockTypeOK' /\ holder' = holder
    BY <1>1, <1>7 DEF CloudAnswers, lock
  <2>2. CacherTypeOK'
    BY <1>0, <1>7, <2>1 DEF CacherTypeOK, CloudAnswers, cache, Stages
  <2>3. CallsInv'
    BY <1>0, <1>7, <2>1 DEF CacherTypeOK, CallsInv, CloudAnswers, Working
  <2> QED
    BY <2>2, <2>3 DEF CacherInv
<1>8. CASE RefusalAnswersHeld(c)
  <2>1. Queued' = Queued /\ LockOK' /\ LockTypeOK' /\ holder' = holder
    BY <1>1, <1>8 DEF RefusalAnswersHeld, lock
  <2>2. CacherTypeOK'
    BY <1>0, <1>8, <2>1 DEF CacherTypeOK, RefusalAnswersHeld, cache, Stages
  <2>3. CallsInv'
    BY <1>0, <1>8, <2>1 DEF CacherTypeOK, CallsInv, RefusalAnswersHeld, Working
  <2> QED
    BY <2>2, <2>3 DEF CacherInv
<1>9. CASE FetchSucceeds(c)
  <2>1. holder = c /\ inflight' = NoTask
    BY <1>0, <1>9 DEF FetchSucceeds, CallsInv, Working
  <2>2. CallsInv' /\ LockTypeOK' /\ stage' \in [Tasks -> Stages]
    BY <1>9, <2>1, CallHandsOver DEF FetchSucceeds
  <2>3. /\ sample[c] \in Versions \cup {NoValue}
        /\ asked[c].source \in Versions /\ asked[c].floor \in Versions
    BY <1>0 DEF CacherTypeOK
  <2>4. served' \in [kind : Kinds, version : Versions \cup {NoValue},
                     asked : Versions, floor : Versions]
    BY <1>9, <2>3 DEF FetchSucceeds, Serve, Kinds
  <2>5. value' = sample[c] /\ age' = 0 /\ marked' = FALSE
    BY <1>9 DEF FetchSucceeds
  <2>6. UNCHANGED <<made, sample, source, asked, floor>>
    BY <1>9 DEF FetchSucceeds
  <2>7. value' \in Versions \cup {NoValue}
    BY <2>3, <2>5
  <2>8. age' \in 0 .. MaxAge
    BY <2>5
  <2>9. marked' \in BOOLEAN
    BY <2>5
  <2>10. CacherTypeOK'
    BY <1>0, <2>1, <2>2, <2>4, <2>6, <2>7, <2>8, <2>9 DEF CacherTypeOK
  <2> QED
    BY <2>2, <2>10 DEF CacherInv
<1>10. CASE FetchFails(c)
  <2>1. holder = c /\ inflight' = NoTask
    BY <1>0, <1>10 DEF FetchFails, CallsInv, Working
  <2>2. CallsInv' /\ LockTypeOK' /\ stage' \in [Tasks -> Stages]
    BY <1>10, <2>1, CallHandsOver DEF FetchFails
  <2>3. CacherTypeOK'
    BY <1>0, <1>10, <2>1, <2>2 DEF CacherTypeOK, FetchFails, Serve, cache, Kinds
  <2> QED
    BY <2>2, <2>3 DEF CacherInv
<1>11. CASE CancelQueued(c)
  <2>1. /\ stage[c] = "waiting" /\ AbandonLock(c) /\ stage' = [stage EXCEPT ![c] = "idle"]
        /\ inflight' = inflight
    BY <1>11 DEF CancelQueued
  <2>2. CASE holder = c
    <3>1. ReleaseLock /\ inflight' = NoTask
      BY <1>0, <2>1, <2>2 DEF AbandonLock, CallsInv, CacherTypeOK, Working
    <3>2. CallsInv' /\ LockTypeOK' /\ stage' \in [Tasks -> Stages]
      BY <2>1, <2>2, <3>1, CallHandsOver
    <3>3. CacherTypeOK'
      BY <1>0, <1>11, <3>1, <3>2 DEF CacherTypeOK, CancelQueued, cache
    <3> QED
      BY <3>2, <3>3 DEF CacherInv
  <2>3. CASE holder # c
    <3>1. c \in Queued /\ holder' = holder /\ queue' = Without(c)
      BY <1>0, <2>1, <2>3 DEF AbandonLock, CallsInv
    <3>2. LockOK' /\ Queued' = Queued \ {c} /\ LockTypeOK'
      BY <1>0, <3>1, LeaveKeepsLock DEF LockOK
    <3>3. CallsInv'
      BY <1>0, <2>1, <2>3, <3>1, <3>2 DEF CacherTypeOK, CallsInv, Working
    <3>4. CacherTypeOK'
      BY <1>0, <1>11, <3>2 DEF CacherTypeOK, CancelQueued, cache, Stages
    <3> QED
      BY <3>3, <3>4 DEF CacherInv
  <2> QED
    BY <2>2, <2>3
<1>12. CASE CancelFetching(c)
  <2>1. holder = c /\ inflight' = NoTask
    BY <1>0, <1>12 DEF CancelFetching, CallsInv, Working
  <2>2. CallsInv' /\ LockTypeOK' /\ stage' \in [Tasks -> Stages]
    BY <1>12, <2>1, CallHandsOver DEF CancelFetching
  <2>3. CacherTypeOK'
    BY <1>0, <1>12, <2>1, <2>2 DEF CacherTypeOK, CancelFetching, cache
  <2> QED
    BY <2>2, <2>3 DEF CacherInv
<1> QED
  BY <1>2, <1>3, <1>4, <1>5, <1>6, <1>7, <1>8, <1>9, <1>10, <1>11, <1>12
     DEF Call, Proceed, CancelCall

LEMMA StepKeepsCacherInv == CacherInv /\ [CacherNext]_cacherVars => CacherInv'
<1> SUFFICES ASSUME CacherInv, [CacherNext]_cacherVars PROVE CacherInv'
  OBVIOUS
<1> USE TasksAssumption, BoundsAssumption
<1>1. ASSUME NEW c \in Tasks, Call(c) \/ Proceed(c) \/ CancelCall(c) PROVE CacherInv'
  BY <1>1, CallerKeepsCacherInv
<1>2. ASSUME UNCHANGED <<lock, inflight, stage>> PROVE CallsInv' /\ LockTypeOK'
  <2>1. CallsInv /\ LockOK
    BY DEF CacherInv, CallsInv
  <2>2. Queued' = Queued /\ LockOK' /\ LockTypeOK'
    BY <1>2, <2>1 DEF lock, LockOK, LockTypeOK, Queued
  <2> QED
    BY <1>2, <2>1, <2>2 DEF CallsInv, lock
<1>3. CASE MarkStale
  BY <1>2, <1>3 DEF CacherInv, CacherTypeOK, MarkStale
<1>4. CASE SourceChanges
  BY <1>2, <1>4 DEF CacherInv, CacherTypeOK, SourceChanges, cache, Versions
<1>5. CASE Tick
  BY <1>2, <1>5 DEF CacherInv, CacherTypeOK, Tick
<1>6. CASE UNCHANGED cacherVars
  BY <1>2, <1>6 DEF CacherInv, CacherTypeOK, cacherVars, lock
<1> QED
  BY <1>1, <1>3, <1>4, <1>5, <1>6 DEF CacherNext

LEMMA CacherInvariant == CacherSpec => []CacherInv
BY InitCacherInv, StepKeepsCacherInv, PTL DEF CacherSpec

(* Every variable of the cache keeps its type.                             *)
THEOREM CacherTypeCorrect == CacherSpec => []CacherTypeOK
<1>1. CacherInv => CacherTypeOK
  BY DEF CacherInv
<1> QED
  BY <1>1, CacherInvariant, PTL

(* However many callers, at most one fetch is on its way and the caller    *)
(* that is handed the lock never finds one to join.                        *)
THEOREM SingleFetch == CacherSpec => []OneFetch
<1>1. CacherInv => OneFetch
  BY TasksAssumption DEF CacherInv, CacherTypeOK, CallsInv, OneFetch, Working
<1> QED
  BY <1>1, CacherInvariant, PTL

-----------------------------------------------------------------------------
(* What an answer promises.                                                *)

(* An answer on its way is no older than the value held.                   *)
SampleInv ==
  /\ value <= source
  /\ \A c \in Tasks :
       stage[c] = "answered" => sample[c] >= value /\ sample[c] <= source

(* While refusals raise: an answer on its way was read after its call and  *)
(* after the last quiet mark, and an unmarked value was read after it too. *)
ReadInv ==
  /\ floor <= source
  /\ \A c \in Tasks : /\ asked[c].source <= source
                        /\ asked[c].floor <= floor
  /\ \A c \in Tasks :
       stage[c] = "answered" => /\ sample[c] >= asked[c].source
                             /\ sample[c] >= floor
  /\ ~marked /\ value # NoValue => value >= floor

(* The types the comparisons below rest on.                                *)
LEMMA Numbers ==
  ASSUME CacherTypeOK
  PROVE  /\ value \in Int /\ source \in Int /\ floor \in Int /\ source >= 0
         /\ \A c \in Tasks : /\ sample[c] \in Int /\ asked[c].source \in Int
                               /\ asked[c].floor \in Int
<1>1. \A v \in Versions : v \in Int /\ v >= 0
  BY BoundsAssumption DEF Versions
<1>2. NoValue \in Int
  BY DEF NoValue
<1>3. value \in Versions \cup {NoValue} /\ source \in Versions /\ floor \in Versions
  BY DEF CacherTypeOK
<1>4. ASSUME NEW c \in Tasks
      PROVE  sample[c] \in Versions \cup {NoValue} /\ asked[c].source \in Versions
  BY DEF CacherTypeOK
<1>5. ASSUME NEW c \in Tasks
      PROVE  asked[c].floor \in Versions
  BY DEF CacherTypeOK
<1> QED
  BY <1>1, <1>2, <1>3, <1>4, <1>5

LEMMA SampleStep == CacherInv /\ SampleInv /\ [CacherNext]_cacherVars => SampleInv' /\ value' >= value
<1> SUFFICES ASSUME CacherInv, SampleInv, [CacherNext]_cacherVars PROVE SampleInv' /\ value' >= value
  OBVIOUS
<1> USE TasksAssumption
<1>0. CacherTypeOK /\ CallsInv
  BY DEF CacherInv
<1>1. /\ value \in Int /\ source \in Int
      /\ \A c \in Tasks : sample[c] \in Int
  BY <1>0, Numbers
<1>2. ASSUME NEW c \in Tasks, holder = c, ReleaseLock, inflight' = NoTask,
             stage' = [stage EXCEPT ![c] = "idle"],
             UNCHANGED <<sample, source>>, value' <= source, value' >= value
      PROVE  SampleInv'
  <2>1. \A d \in Tasks : stage'[d] \notin Working
    BY <1>2, CallHandsOver
  <2> QED
    BY <1>2, <2>1 DEF SampleInv, Working
<1>3. ASSUME NEW c \in Tasks, Call(c) PROVE SampleInv' /\ value' >= value
  BY <1>0, <1>1, <1>3
     DEF Call, CallFast, CallLocks, CallWaits, SampleInv, CacherTypeOK, cache, lock
<1>4. ASSUME NEW c \in Tasks, Proceed(c) PROVE SampleInv' /\ value' >= value
  <2>1. CASE RecheckHits(c)
    <3>1. holder = c /\ inflight' = NoTask
      BY <1>0, <2>1 DEF RecheckHits, CallsInv, CacherTypeOK, Working
    <3>2. value' = value /\ UNCHANGED <<sample, source>> /\ ReleaseLock /\ stage' = [stage EXCEPT ![c] = "idle"]
      BY <2>1 DEF RecheckHits, cache
    <3> QED
      BY <1>1, <1>2, <3>1, <3>2 DEF SampleInv
  <2>2. CASE RecheckFetches(c)
    BY <1>0, <1>1, <2>2 DEF RecheckFetches, SampleInv, CacherTypeOK, cache
  <2>3. CASE CloudAnswers(c)
    BY <1>0, <1>1, <2>3 DEF CloudAnswers, SampleInv, CacherTypeOK, cache
  <2>4. CASE RefusalAnswersHeld(c)
    BY <1>0, <1>1, <2>4 DEF RefusalAnswersHeld, SampleInv, CacherTypeOK, cache
  <2>5. CASE FetchSucceeds(c)
    <3>1. holder = c /\ inflight' = NoTask
      BY <1>0, <2>5 DEF FetchSucceeds, CallsInv, Working
    <3>2. value' = sample[c] /\ UNCHANGED <<sample, source>> /\ ReleaseLock /\ stage' = [stage EXCEPT ![c] = "idle"]
          /\ stage[c] = "answered"
      BY <2>5 DEF FetchSucceeds
    <3> QED
      BY <1>1, <1>2, <3>1, <3>2 DEF SampleInv
  <2>6. CASE FetchFails(c)
    <3>1. holder = c /\ inflight' = NoTask
      BY <1>0, <2>6 DEF FetchFails, CallsInv, Working
    <3>2. value' = value /\ UNCHANGED <<sample, source>> /\ ReleaseLock /\ stage' = [stage EXCEPT ![c] = "idle"]
      BY <2>6 DEF FetchFails, cache
    <3> QED
      BY <1>1, <1>2, <3>1, <3>2 DEF SampleInv
  <2> QED
    BY <1>4, <2>1, <2>2, <2>3, <2>4, <2>5, <2>6 DEF Proceed
<1>5. ASSUME NEW c \in Tasks, CancelCall(c) PROVE SampleInv' /\ value' >= value
  <2>1. CASE CancelQueued(c)
    BY <1>0, <1>1, <2>1 DEF CancelQueued, SampleInv, CacherTypeOK, cache
  <2>2. CASE CancelFetching(c)
    <3>1. holder = c /\ inflight' = NoTask
      BY <1>0, <2>2 DEF CancelFetching, CallsInv, Working
    <3>2. value' = value /\ UNCHANGED <<sample, source>> /\ ReleaseLock /\ stage' = [stage EXCEPT ![c] = "idle"]
      BY <2>2 DEF CancelFetching, cache
    <3> QED
      BY <1>1, <1>2, <3>1, <3>2 DEF SampleInv
  <2> QED
    BY <1>5, <2>1, <2>2 DEF CancelCall
<1>6. CASE MarkStale
  BY <1>1, <1>6 DEF MarkStale, SampleInv
<1>7. CASE SourceChanges
  BY <1>1, <1>7 DEF SourceChanges, SampleInv, cache
<1>8. CASE Tick
  BY <1>1, <1>8 DEF Tick, SampleInv
<1>9. CASE UNCHANGED cacherVars
  BY <1>1, <1>9 DEF cacherVars, SampleInv
<1> QED
  BY <1>3, <1>4, <1>5, <1>6, <1>7, <1>8, <1>9 DEF CacherNext

(* Whoever calls, marks, fails or is cancelled, the held value is never    *)
(* replaced by an older reading.                                           *)
THEOREM ValuesAdvance == CacherSpec => NeverBackwards
<1>1. CacherInit => SampleInv
  BY TasksAssumption DEF CacherInit, SampleInv, NoValue
<1>2. CacherInv /\ SampleInv /\ [CacherNext]_cacherVars => SampleInv' /\ [value' >= value]_cacherVars
  BY SampleStep
<1> QED
  BY <1>1, <1>2, CacherInvariant, PTL DEF CacherSpec, NeverBackwards

-----------------------------------------------------------------------------
(* The refinement of SharedCache.                                          *)

(* An answer on its way is a value.                                        *)
Sampled == \A c \in Tasks : stage[c] = "answered" => sample[c] \in Versions

LEMMA SampledStep == CacherInv /\ Sampled /\ [CacherNext]_cacherVars => Sampled'
<1> SUFFICES ASSUME CacherInv, Sampled, [CacherNext]_cacherVars PROVE Sampled'
  OBVIOUS
<1>0. CacherTypeOK
  BY DEF CacherInv
<1>1. ASSUME NEW c \in Tasks, CloudAnswers(c) \/ RefusalAnswersHeld(c)
      PROVE  Sampled'
  <2>1. /\ stage' = [stage EXCEPT ![c] = "answered"]
        /\ sample' = [sample EXCEPT ![c] = source] \/ sample' = [sample EXCEPT ![c] = value]
        /\ sample' = [sample EXCEPT ![c] = source] \/ value # NoValue
    BY <1>1 DEF CloudAnswers, RefusalAnswersHeld, IsKept
  <2>2. source \in Versions /\ (value # NoValue => value \in Versions)
    BY <1>0 DEF CacherTypeOK
  <2>3. \A d \in Tasks : d # c => stage'[d] = stage[d] /\ sample'[d] = sample[d]
    BY <1>0, <2>1 DEF CacherTypeOK
  <2>4. sample'[c] \in Versions
    BY <1>0, <2>1, <2>2 DEF CacherTypeOK
  <2> QED
    BY <2>3, <2>4 DEF Sampled
<1>2. ASSUME NEW c \in Tasks, NEW l \in {"idle", "waiting", "fetching"},
             stage' = stage \/ stage' = [stage EXCEPT ![c] = l], sample' = sample
      PROVE  Sampled'
  BY <1>0, <1>2 DEF CacherTypeOK, Sampled
<1>3. ASSUME UNCHANGED <<stage, sample>>
      PROVE  Sampled'
  BY <1>3 DEF Sampled
<1>4. ASSUME NEW c \in Tasks, Call(c) \/ Proceed(c) \/ CancelCall(c)
      PROVE  Sampled'
  BY <1>1, <1>2, <1>3, <1>4
  DEF Call, CallFast, CallLocks, CallWaits, Proceed, RecheckHits, RecheckFetches, FetchSucceeds,
      FetchFails, CancelCall, CancelQueued, CancelFetching
<1> QED
  BY <1>3, <1>4 DEF CacherNext, MarkStale, SourceChanges, Tick, cacherVars

(* Each step of the cache is one of SharedCache or leaves it alone.        *)
LEMMA CacheStep ==
  ASSUME CacherInv, SampleInv, Sampled, [CacherNext]_cacherVars
  PROVE  [Cache!Next]_<<value, InTime, marked, inflight, ToStore>>
<1> USE TasksAssumption
<1>0. /\ CacherTypeOK /\ CallsInv /\ stage \in [Tasks -> Stages]
      /\ sample \in [Tasks -> Versions \cup {NoValue}]
      /\ inflight \in Tasks \cup {NoTask}
      /\ \A c \in Tasks : stage[c] \in Working <=> inflight = c
      /\ \A v \in Versions : v \in Nat /\ v # NoValue
  BY BoundsAssumption DEF CacherInv, CacherTypeOK, CallsInv, Versions, NoValue
<1>1. ASSUME UNCHANGED <<made, cache, inflight>>, ToStore' = ToStore
      PROVE  UNCHANGED <<value, InTime, marked, inflight, ToStore>>
  BY <1>1 DEF cache, InTime, RefreshAfter
<1>2. ASSUME NEW c \in Tasks, stage[c] \notin Working, inflight' = inflight, sample' = sample,
             \/ stage' = stage
             \/ \E l \in {"idle", "waiting"} : stage' = [stage EXCEPT ![c] = l]
      PROVE  ToStore' = ToStore
  BY <1>0, <1>2 DEF ToStore
<1>3. CASE \E c \in Tasks : CallFast(c) \/ CallWaits(c) \/ RecheckHits(c) \/ CancelQueued(c)
  <2>1. PICK c \in Tasks : CallFast(c) \/ CallWaits(c) \/ RecheckHits(c) \/ CancelQueued(c)
    BY <1>3
  <2>2. ToStore' = ToStore
    BY <1>2, <2>1 DEF CallFast, CallWaits, RecheckHits, CancelQueued, Working
  <2> QED
    BY <1>1, <2>1, <2>2 DEF CallFast, CallWaits, RecheckHits, CancelQueued
<1>4. CASE \E c \in Tasks : CallLocks(c) \/ RecheckFetches(c)
  <2>1. PICK c \in Tasks : CallLocks(c) \/ RecheckFetches(c)
    BY <1>4
  <2>2. /\ inflight' = c /\ stage' = [stage EXCEPT ![c] = "fetching"] /\ ~IsFresh
        /\ UNCHANGED <<made, cache>>
    BY <2>1 DEF CallLocks, RecheckFetches
  <2>3. \A d \in Tasks : inflight = d => holder = d /\ stage[d] # "waiting"
    BY <1>0 DEF CallsInv, Working
  <2>4. inflight = NoTask
    BY <1>0, <2>1, <2>3 DEF CallLocks, RecheckFetches
  <2>5. ToStore = NoValue /\ ToStore' = NoValue
    BY <1>0, <2>2, <2>4 DEF ToStore
  <2>6. InTime' = InTime /\ marked' = marked /\ value' = value
    BY <2>2 DEF cache, InTime, RefreshAfter
  <2>7. ~Cache!Fresh(marked')
    BY <2>2, <2>6 DEF IsFresh, Cache!Fresh, Cache!None, NoValue
  <2>8. Cache!Fetch
    BY <2>2, <2>4, <2>5, <2>6, <2>7 DEF Cache!Fetch
  <2> QED
    BY <2>8 DEF Cache!Next
<1>5. CASE \E c \in Tasks : CloudAnswers(c) \/ RefusalAnswersHeld(c)
  <2>1. PICK c \in Tasks : CloudAnswers(c) \/ RefusalAnswersHeld(c)
    BY <1>5
  <2>2. PICK v \in Versions : v >= value /\ sample' = [sample EXCEPT ![c] = v]
    <3>1. value \in Int /\ source \in Int /\ source \in Versions
      BY <1>0, Numbers DEF CacherTypeOK
    <3>2. CASE CloudAnswers(c)
      BY <3>1, <3>2 DEF CloudAnswers, SampleInv
    <3>3. CASE RefusalAnswersHeld(c)
      <4>1. value # NoValue /\ sample' = [sample EXCEPT ![c] = value]
        BY <3>3 DEF RefusalAnswersHeld, IsKept
      <4>2. value \in Versions /\ value >= value
        BY <1>0, <3>1, <4>1 DEF CacherTypeOK
      <4> QED
        BY <4>1, <4>2
    <3> QED
      BY <2>1, <3>2, <3>3
  <2>3. /\ stage[c] = "fetching" /\ stage' = [stage EXCEPT ![c] = "answered"]
        /\ UNCHANGED <<made, cache, inflight>>
    BY <2>1 DEF CloudAnswers, RefusalAnswersHeld
  <2>4. inflight = c /\ c # NoTask
    BY <1>0, <2>3 DEF Working
  <2>5. ToStore = NoValue /\ ToStore' = v
    BY <1>0, <2>2, <2>3, <2>4 DEF ToStore
  <2>6. InTime' = InTime /\ marked' = marked /\ value' = value
    BY <2>3 DEF cache, InTime, RefreshAfter
  <2>7. Cache!Answer
    BY <1>0, <2>2, <2>3, <2>4, <2>5, <2>6 DEF Cache!Answer, Cache!None, NoValue
  <2> QED
    BY <2>7 DEF Cache!Next
<1>6. CASE \E c \in Tasks : FetchSucceeds(c)
  <2>1. PICK c \in Tasks : FetchSucceeds(c)
    BY <1>6
  <2>2. /\ stage[c] = "answered" /\ value' = sample[c] /\ marked' = FALSE /\ inflight' = NoTask
    BY <2>1 DEF FetchSucceeds
  <2>3. inflight = c /\ c # NoTask /\ sample[c] \in Versions
    BY <1>0, <2>2 DEF Working, Sampled
  <2>4. ToStore = sample[c] /\ ToStore' = NoValue /\ InTime' \in BOOLEAN
    BY <2>2, <2>3 DEF ToStore, InTime
  <2>5. Cache!Store
    BY <1>0, <2>2, <2>3, <2>4 DEF Cache!Store, Cache!None, NoValue
  <2> QED
    BY <2>5 DEF Cache!Next
<1>7. CASE \E c \in Tasks : FetchFails(c) \/ CancelFetching(c)
  <2>1. PICK c \in Tasks : FetchFails(c) \/ CancelFetching(c)
    BY <1>7
  <2>2. /\ stage[c] \in Working /\ inflight' = NoTask /\ UNCHANGED <<made, cache>>
    BY <2>1 DEF FetchFails, CancelFetching, Working
  <2>3. inflight # NoTask /\ ToStore' = NoValue
    BY <1>0, <2>2 DEF ToStore
  <2>4. InTime' = InTime /\ marked' = marked /\ value' = value
    BY <2>2 DEF cache, InTime, RefreshAfter
  <2>5. Cache!Fail
    BY <2>2, <2>3, <2>4 DEF Cache!Fail, Cache!None, NoValue
  <2> QED
    BY <2>5 DEF Cache!Next
<1>8. CASE MarkStale
  <2>1. /\ marked' = TRUE /\ UNCHANGED <<value, InTime, inflight, ToStore>>
    BY <1>8 DEF MarkStale, InTime, RefreshAfter, ToStore
  <2> QED
    BY <2>1 DEF Cache!Next, Cache!Mark
<1>9. CASE Tick
  <2>1. /\ age' = age + 1 /\ age \in Int
        /\ UNCHANGED <<made, value, marked, inflight, ToStore>>
    BY <1>0, <1>9 DEF Tick, ToStore, CacherTypeOK
  <2>2. RefreshAfter' = RefreshAfter /\ (RefreshAfter = NoLimit \/ RefreshAfter \in Nat)
    BY <1>0, <2>1, LimitsAssumption DEF RefreshAfter, CacherTypeOK
  <2>3. InTime' = FALSE \/ InTime' = InTime
    BY <2>1, <2>2 DEF InTime
  <2> QED
    BY <2>1, <2>3 DEF Cache!Next, Cache!Age
<1>10. CASE SourceChanges \/ UNCHANGED cacherVars
  <2>1. ToStore' = ToStore
    BY <1>10 DEF SourceChanges, cacherVars, ToStore
  <2> QED
    BY <1>1, <1>10, <2>1 DEF SourceChanges, cacherVars, cache
<1> QED
  BY <1>3, <1>4, <1>5, <1>6, <1>7, <1>8, <1>9, <1>10 DEF CacherNext, Call, Proceed, CancelCall

(* A cache, with its queue, its double check, answers that refuse and      *)
(* calls that are cancelled, is a SharedCache.                             *)
THEOREM CacherImplementsCache == CacherSpec => ImplementsCache
<1>1. CacherInit => SampleInv /\ Sampled
  BY TasksAssumption DEF CacherInit, SampleInv, Sampled, NoValue
<1>2. CacherInit => Cache!Init
  BY DEF CacherInit, Cache!Init, Cache!None, NoValue, ToStore, InTime
<1>3. CacherInv /\ SampleInv /\ [CacherNext]_cacherVars => SampleInv'
  BY SampleStep
<1>4. CacherInv /\ SampleInv /\ Sampled /\ [CacherNext]_cacherVars
        => [Cache!Next]_<<value, InTime, marked, inflight, ToStore>>
  BY CacheStep
<1> QED
  BY <1>1, <1>2, <1>3, <1>4, SampledStep, CacherInvariant, PTL
  DEF CacherSpec, ImplementsCache, Cache!Spec

-----------------------------------------------------------------------------
(* What answers say of their age.                                          *)

(* How a cache was made never changes.                                     *)
LEMMA MadeStays == [CacherNext]_cacherVars => made' = made
BY DEF CacherNext, cacherVars, Call, Proceed, CancelCall, CallFast, CallLocks, CallWaits, RecheckHits,
       RecheckFetches, CloudAnswers, RefusalAnswersHeld, FetchSucceeds, FetchFails,
       CancelQueued, CancelFetching, MarkStale, SourceChanges, Tick

(* The answer given last keeps the two promises about its age.             *)
AnswerInv == ZeroRefreshReadsAgain /\ QuietMarkHonoured

DataInv == SampleInv /\ ReadInv /\ AnswerInv

(* Only a cache whose refusals raise keeps them.                           *)
FaithfulInv == ~HeldOnRefusal => DataInv

LEMMA DataStep ==
  ASSUME CacherInv, CacherInv', ~HeldOnRefusal, DataInv, [CacherNext]_cacherVars
  PROVE  DataInv'
<1>made. made' = made
  BY MadeStays
<1>limits. UNCHANGED <<RefreshAfter, HeldOnRefusal>>
  BY <1>made DEF RefreshAfter, HeldOnRefusal
<1> USE TasksAssumption
<1>0. CacherTypeOK /\ CallsInv /\ CacherTypeOK'
  BY DEF CacherInv
<1>1. /\ value \in Int /\ source \in Int /\ source >= 0 /\ floor \in Int
      /\ \A c \in Tasks : /\ sample[c] \in Int /\ asked[c].source \in Int
                            /\ asked[c].floor \in Int
  BY <1>0, Numbers
<1>2. SampleInv'
  BY SampleStep DEF DataInv
<1>3. SampleInv /\ ReadInv /\ AnswerInv
  BY DEF DataInv
<1>4. ASSUME NEW c \in Tasks, holder = c, ReleaseLock, inflight' = NoTask,
             stage' = [stage EXCEPT ![c] = "idle"],
             UNCHANGED <<value, marked, source, asked, floor>>
      PROVE  ReadInv'
  <2>1. \A d \in Tasks : stage'[d] \notin Working
    BY <1>4, CallHandsOver
  <2> QED
    BY <1>3, <1>4, <2>1 DEF ReadInv, Working
<1>5. ASSUME NEW c \in Tasks, CallFast(c) PROVE DataInv'
  <2>1. ReadInv'
    BY <1>3, <1>5 DEF CallFast, ReadInv, cache, lock
  <2>2. value >= floor /\ RefreshAfter # 0
    BY <1>3, <1>5, <1>1, LimitsAssumption DEF CallFast, IsFresh, InTime, ReadInv
  <2>3. served' = [kind |-> "cached", version |-> value,
                   asked |-> source, floor |-> floor]
    BY <1>5 DEF CallFast, Serve, AsOfNow
  <2>4. AnswerInv'
    BY <1>limits, <2>2, <2>3 DEF AnswerInv, ZeroRefreshReadsAgain, QuietMarkHonoured
  <2> QED
    BY <1>2, <2>1, <2>4 DEF DataInv
<1>6. ASSUME NEW c \in Tasks, CallLocks(c) \/ CallWaits(c) PROVE DataInv'
  <2>0. asked' = [asked EXCEPT ![c] = [source |-> source, floor |-> floor]]
    BY <1>6 DEF CallLocks, CallWaits, AsOfNow
  <2>1. \A d \in Tasks : \/ asked'[d] = asked[d]
                         \/ asked'[d].source = source /\ asked'[d].floor = floor
    BY <1>0, <2>0 DEF CacherTypeOK
  <2>2. /\ UNCHANGED <<value, marked, sample, source, floor, served>>
        /\ \A d \in Tasks :
             stage'[d] = "answered" => stage[d] = "answered" /\ asked'[d] = asked[d]
    BY <1>0, <1>6 DEF CallLocks, CallWaits, cache, CacherTypeOK
  <2>3. ReadInv'
    BY <1>1, <1>3, <2>1, <2>2 DEF ReadInv
  <2> QED
    BY <1>limits, <1>2, <1>3, <2>2, <2>3
       DEF DataInv, AnswerInv, ZeroRefreshReadsAgain, QuietMarkHonoured
<1>7. ASSUME NEW c \in Tasks, RecheckHits(c) PROVE DataInv'
  <2>1. holder = c /\ inflight' = NoTask
    BY <1>0, <1>7 DEF RecheckHits, CallsInv, CacherTypeOK, Working
  <2>2. ReadInv'
    BY <1>4, <1>7, <2>1 DEF RecheckHits, cache
  <2>3. value >= floor /\ RefreshAfter # 0
    BY <1>3, <1>7, <1>1, LimitsAssumption DEF RecheckHits, IsFresh, InTime, ReadInv
  <2>4. served' = [kind |-> "cached", version |-> value,
                   asked |-> asked[c].source, floor |-> asked[c].floor]
    BY <1>7 DEF RecheckHits, Serve
  <2>5. value >= asked[c].floor
    BY <1>1, <1>3, <2>3 DEF ReadInv
  <2>6. AnswerInv'
    BY <1>limits, <2>3, <2>4, <2>5 DEF AnswerInv, ZeroRefreshReadsAgain, QuietMarkHonoured
  <2> QED
    BY <1>2, <2>2, <2>6 DEF DataInv
<1>8. ASSUME NEW c \in Tasks, RecheckFetches(c) \/ CloudAnswers(c) PROVE DataInv'
  <2>1. /\ UNCHANGED <<value, marked, source, asked, floor, served>>
        /\ \A d \in Tasks :
             stage'[d] = "answered" =>
               \/ stage[d] = "answered" /\ sample'[d] = sample[d]
               \/ sample'[d] = source
    BY <1>0, <1>8 DEF RecheckFetches, CloudAnswers, cache, CacherTypeOK
  <2>2. ReadInv'
    BY <1>1, <1>3, <2>1 DEF ReadInv
  <2> QED
    BY <1>limits, <1>2, <1>3, <2>1, <2>2
       DEF DataInv, AnswerInv, ZeroRefreshReadsAgain, QuietMarkHonoured
<1>9. ASSUME NEW c \in Tasks, FetchSucceeds(c) PROVE DataInv'
  <2>1. /\ holder = c /\ stage[c] = "answered" /\ inflight' = NoTask
        /\ ReleaseLock /\ stage' = [stage EXCEPT ![c] = "idle"]
    BY <1>0, <1>9 DEF FetchSucceeds, CallsInv, Working
  <2>2. \A d \in Tasks : stage'[d] \notin Working
    BY <2>1, CallHandsOver
  <2>3. sample[c] >= floor /\ sample[c] >= asked[c].source
        /\ asked[c].floor <= floor
    BY <1>3, <2>1 DEF ReadInv
  <2>4. value' = sample[c] /\ UNCHANGED <<sample, source, asked, floor>>
    BY <1>9 DEF FetchSucceeds
  <2>5. ReadInv'
    BY <1>3, <2>2, <2>3, <2>4 DEF ReadInv, Working
  <2>6. served' = [kind |-> "fetched", version |-> sample[c],
                   asked |-> asked[c].source, floor |-> asked[c].floor]
    BY <1>9 DEF FetchSucceeds, Serve
  <2>7. AnswerInv'
    BY <1>1, <1>limits, <2>3, <2>6 DEF AnswerInv, ZeroRefreshReadsAgain, QuietMarkHonoured
  <2> QED
    BY <1>2, <2>5, <2>7 DEF DataInv
<1>10. ASSUME NEW c \in Tasks, FetchFails(c) PROVE DataInv'
  <2>1. holder = c /\ inflight' = NoTask
    BY <1>0, <1>10 DEF FetchFails, CallsInv, Working
  <2>2. ReadInv'
    BY <1>4, <1>10, <2>1 DEF FetchFails, cache
  <2>3. served'.kind \in {"fallback", "error"}
    BY <1>10 DEF FetchFails, Serve
  <2>4. AnswerInv'
    BY <2>3 DEF AnswerInv, ZeroRefreshReadsAgain, QuietMarkHonoured
  <2> QED
    BY <1>2, <2>2, <2>4 DEF DataInv
<1>11. ASSUME NEW c \in Tasks, CancelQueued(c) PROVE DataInv'
  <2>1. /\ UNCHANGED <<value, marked, sample, source, asked, floor, served>>
        /\ \A d \in Tasks : stage'[d] = "answered" => stage[d] = "answered"
    BY <1>0, <1>11 DEF CancelQueued, cache, CacherTypeOK
  <2> QED
    BY <1>limits, <1>2, <1>3, <2>1
       DEF DataInv, ReadInv, AnswerInv, ZeroRefreshReadsAgain, QuietMarkHonoured
<1>12. ASSUME NEW c \in Tasks, CancelFetching(c) PROVE DataInv'
  <2>1. holder = c /\ inflight' = NoTask
    BY <1>0, <1>12 DEF CancelFetching, CallsInv, Working
  <2>2. ReadInv' /\ served' = served
    BY <1>4, <1>12, <2>1 DEF CancelFetching, cache
  <2> QED
    BY <1>limits, <1>2, <1>3, <2>2
       DEF DataInv, AnswerInv, ZeroRefreshReadsAgain, QuietMarkHonoured
<1>13. CASE MarkStale
  <2>1. /\ marked' = TRUE
        /\ UNCHANGED <<value, stage, sample, source, asked, inflight, served>>
    BY <1>13 DEF MarkStale
  <2>2. floor' = IF inflight = NoTask THEN source ELSE floor
    BY <1>13 DEF MarkStale
  <2>3. inflight = NoTask => \A c \in Tasks : stage[c] # "answered"
    BY <1>0 DEF CallsInv, Working
  <2>4. ReadInv'
    BY <1>1, <1>3, <2>1, <2>2, <2>3 DEF ReadInv
  <2> QED
    BY <1>limits, <1>2, <1>3, <2>1, <2>4
       DEF DataInv, AnswerInv, ZeroRefreshReadsAgain, QuietMarkHonoured
<1>14. CASE SourceChanges
  BY <1>limits, <1>1, <1>2, <1>3, <1>14
     DEF SourceChanges, DataInv, ReadInv, AnswerInv, ZeroRefreshReadsAgain,
         QuietMarkHonoured, cache
<1>15. CASE Tick
  BY <1>limits, <1>2, <1>3, <1>15
     DEF Tick, DataInv, ReadInv, AnswerInv, ZeroRefreshReadsAgain, QuietMarkHonoured
<1>16. CASE UNCHANGED cacherVars
  BY <1>limits, <1>2, <1>3, <1>16
     DEF cacherVars, DataInv, ReadInv, AnswerInv, ZeroRefreshReadsAgain, QuietMarkHonoured
<1>17. ASSUME NEW c \in Tasks, RefusalAnswersHeld(c) PROVE FALSE
  BY <1>17 DEF RefusalAnswersHeld
<1> QED
  BY <1>5, <1>6, <1>7, <1>8, <1>9, <1>10, <1>11, <1>12, <1>13, <1>14, <1>15, <1>16,
     <1>17 DEF CacherNext, Call, Proceed, CancelCall

LEMMA FaithfulInvariant == CacherSpec => []FaithfulInv
<1>1. CacherInit => FaithfulInv
  BY TasksAssumption
     DEF CacherInit, FaithfulInv, DataInv, SampleInv, ReadInv, AnswerInv, ZeroRefreshReadsAgain,
         QuietMarkHonoured, NoValue
<1>2. CacherInv /\ CacherInv' /\ FaithfulInv /\ [CacherNext]_cacherVars => FaithfulInv'
  <2>1. [CacherNext]_cacherVars => HeldOnRefusal' = HeldOnRefusal
    BY MadeStays DEF HeldOnRefusal
  <2> QED
    BY <2>1, DataStep DEF FaithfulInv
<1> QED
  BY <1>1, <1>2, CacherInvariant, PTL DEF CacherSpec

(* With refresh_after = 0 and refusals that raise (the properties caches)  *)
(* no caller is told, as read, a value older than its own call.            *)
THEOREM PropertiesReadAfterCall == CacherSpec => []ZeroRefreshReadsAgain
<1>1. FaithfulInv => ZeroRefreshReadsAgain
  BY DEF FaithfulInv, DataInv, AnswerInv, ZeroRefreshReadsAgain
<1> QED
  BY <1>1, FaithfulInvariant, PTL

(* While refusals raise, a mark made with no fetch in flight is honoured   *)
(* by every later call, whatever the limits.                               *)
THEOREM QuietMarksHold == CacherSpec => []QuietMarkHonoured
<1>1. FaithfulInv => QuietMarkHonoured
  BY DEF FaithfulInv, DataInv, AnswerInv, QuietMarkHonoured
<1> QED
  BY <1>1, FaithfulInvariant, PTL

-----------------------------------------------------------------------------
(* ApiManager.                                                             *)

SomeSigning == \E c \in Tasks : pc[c] \in Signing

LockInv ==
  /\ LockOK
  /\ \A c \in Tasks : pc[c] = "idle" <=> c \notin Queued /\ holder # c
  /\ \A c \in Tasks : pc[c] \in Signing => holder = c

(* A sign-in that is neither under way nor usable was lost and counted.    *)
Explained ==
  /\ SignInsAreExplained
  /\ ~Usable /\ ~SomeSigning => mints <= losses

IInv ==
  /\ TypeOK
  /\ LockInv
  /\ SigningAlone
  /\ RegisteredIsNewest
  /\ Explained
  /\ SomeSigning => mints # None

(* The arithmetic of the losses.                                           *)
LEMMA OneMore == \A m, l \in Nat : m <= l => m + 1 <= l + 1
OBVIOUS

LEMMA StillBounded == \A m, k, l \in Nat : m <= k + 1 /\ k <= l => m <= l + 1
OBVIOUS

(* Giving the lock back keeps the book-keeping and ends the sign-in.       *)
LEMMA HandOver ==
  ASSUME TypeOK, LockInv, NEW c \in Tasks, holder = c, ReleaseLock,
         pc' = [pc EXCEPT ![c] = "idle"]
  PROVE  /\ LockInv'
         /\ LockTypeOK'
         /\ pc' \in [Tasks -> Locations]
         /\ ~SomeSigning'
<1> USE TasksAssumption
<1>1. /\ LockOK /\ c # NoTask /\ c \notin Queued
      /\ pc'[c] = "idle"
      /\ \A d \in Tasks : d # c => pc'[d] = pc[d]
  BY DEF TypeOK, LockInv, LockOK
<1>2. pc' \in [Tasks -> Locations]
  BY DEF TypeOK, Locations
<1>3. /\ LockOK'
      /\ \/ holder' = NoTask /\ Queued = {} /\ Queued' = {}
         \/ holder' \in Queued /\ Queued' = Queued \ {holder'}
  BY <1>1, ReleaseKeepsLock
<1>4. \A d \in Tasks : pc'[d] \notin Signing
  BY <1>1 DEF LockInv, Signing
<1>5. \A d \in Tasks : d # c => (pc[d] = "idle" <=> d \notin Queued)
  BY DEF LockInv
<1>6. \A d \in Tasks : pc'[d] = "idle" <=> d \notin Queued' /\ holder' # d
  BY <1>1, <1>3, <1>5
<1> QED
  BY <1>2, <1>3, <1>4, <1>6 DEF LockInv, LockOK, SomeSigning

(* Joining the queue keeps the book-keeping.                               *)
LEMMA Joining ==
  ASSUME TypeOK, LockInv, NEW c \in Tasks, pc[c] = "idle", holder # NoTask,
         JoinQueue(c), pc' = [pc EXCEPT ![c] = "waiting"]
  PROVE  /\ LockInv'
         /\ LockTypeOK'
         /\ pc' \in [Tasks -> Locations]
         /\ \A d \in Tasks : pc'[d] \in Signing <=> pc[d] \in Signing
<1>1. LockOK /\ c \notin Queued /\ holder # c /\ holder' = holder
  BY DEF LockInv, JoinQueue
<1>2. LockOK' /\ Queued' = Queued \cup {c}
  BY <1>1, JoinKeepsLock
<1>3. pc'[c] = "waiting" /\ \A d \in Tasks : d # c => pc'[d] = pc[d]
  BY DEF TypeOK
<1>4. pc' \in [Tasks -> Locations]
  BY DEF TypeOK, Locations
<1>5. \A d \in Tasks : pc'[d] \in Signing <=> pc[d] \in Signing
  BY <1>3 DEF Signing
<1>6. \A d \in Tasks : pc'[d] = "idle" <=> d \notin Queued' /\ holder' # d
  BY <1>1, <1>2, <1>3 DEF LockInv
<1>7. \A d \in Tasks : pc'[d] \in Signing => holder' = d
  BY <1>1, <1>5 DEF LockInv
<1> QED
  BY <1>2, <1>4, <1>5, <1>6, <1>7 DEF LockInv, LockOK

(* Before a sign-in begins nobody signs in, and while it runs one task     *)
(* does.                                                                   *)
LEMMA Beginning ==
  ASSUME IInv, NEW c \in Tasks, Admitted(c), BeginSignIn(c), UNCHANGED <<live, logins>>,
         losses' \in 0 .. MaxLosses, mints <= losses'
  PROVE  IInv' /\ ~SomeSigning /\ SomeSigning'
<1> USE TasksAssumption, MaxLossesAssumption
<1>0. /\ TypeOK /\ LockInv /\ LockOK /\ mints \in Nat
      /\ mints' = mints + 1 /\ registered' = None
  BY DEF IInv, LockInv, TypeOK, BeginSignIn
<1>1. \A d \in Tasks : pc[d] \notin Signing
  BY <1>0 DEF Admitted, LockInv, Signing
<1>2. pc'[c] = "login" /\ \A d \in Tasks : d # c => pc'[d] = pc[d]
  BY <1>0 DEF BeginSignIn, TypeOK
<1>3. \A d \in Tasks : pc'[d] \in Signing <=> d = c
  BY <1>1, <1>2 DEF Signing
<1>4. LockOK' /\ Queued' = Queued /\ c \notin Queued
  <2>1. CASE holder = NoTask
    <3>1. LockOK' /\ Queued' = Queued /\ Queued = {}
      BY <1>0, <2>1, TakeKeepsLock DEF BeginSignIn, TakeLock
    <3> QED
      BY <3>1
  <2>2. CASE holder = c
    BY <1>0, <2>2 DEF BeginSignIn, LockOK, LockTypeOK, Queued
  <2> QED
    BY <2>1, <2>2 DEF Admitted
<1>5. LockInv'
  <2>1. holder' = c /\ (holder = NoTask \/ holder = c)
    BY DEF BeginSignIn, Admitted
  <2>2. \A d \in Tasks : pc'[d] = "idle" <=> d \notin Queued' /\ holder' # d
    BY <1>0, <1>2, <1>4, <2>1 DEF LockInv
  <2> QED
    BY <1>3, <1>4, <2>1, <2>2 DEF LockInv
<1>6. client' \in [Tasks -> 0 .. mints'] /\ client'[c] = mints'
  BY <1>0 DEF TypeOK, BeginSignIn
<1>7. TypeOK'
  <2>1. LockTypeOK'
    BY <1>4 DEF LockOK
  <2>2. registered' \in 0 .. mints' /\ live' \subseteq 1 .. mints' /\ mints' \in Nat
    BY <1>0 DEF TypeOK, None
  <2>3. pc' \in [Tasks -> Locations]
    BY <1>0 DEF TypeOK, BeginSignIn, Locations, Signing
  <2>4. first' \in [Tasks -> BOOLEAN]
    BY <1>0 DEF TypeOK, BeginSignIn
  <2>5. logins' \in Nat
    BY <1>0 DEF TypeOK, BeginSignIn
  <2> QED
    BY <1>6, <2>1, <2>2, <2>3, <2>4, <2>5 DEF TypeOK
<1>8. SigningAlone'
  BY <1>0, <1>3, <1>6 DEF SigningAlone
<1>9. RegisteredIsNewest'
  BY <1>0 DEF RegisteredIsNewest
<1>10. SomeSigning' /\ ~SomeSigning
  BY <1>1, <1>3 DEF SomeSigning
<1>11. mints' <= losses' + 1
  <2>1. losses' \in Nat /\ MaxLosses \in Nat
    OBVIOUS
  <2>2. mints + 1 <= losses' + 1
    BY <1>0, <2>1, OneMore
  <2> QED
    BY <1>0, <2>2
<1>12. Explained'
  BY <1>10, <1>11 DEF Explained, SignInsAreExplained
<1>13. mints' # None
  BY <1>0 DEF None
<1> QED
  BY <1>5, <1>7, <1>8, <1>9, <1>10, <1>12, <1>13 DEF IInv

LEMMA InitIInv == Init => IInv
<1> SUFFICES ASSUME Init PROVE IInv
  OBVIOUS
<1> USE TasksAssumption, MaxLossesAssumption DEF Init, LockInit
<1>1. TypeOK
  BY DEF TypeOK, LockTypeOK, Locations, None
<1>2. LockInv
  BY DEF LockInv, LockOK, LockTypeOK, Queued, Signing
<1>3. SigningAlone /\ RegisteredIsNewest /\ Explained /\ ~SomeSigning
  BY DEF SigningAlone, RegisteredIsNewest, Explained, SignInsAreExplained, Signing,
         SomeSigning, None
<1> QED
  BY <1>1, <1>2, <1>3 DEF IInv

(* What the refinement sees of a step: a sign-in begins, registers its     *)
(* client or fails, the registered client is forgotten, or nothing.        *)
Begins == ~SomeSigning /\ SomeSigning' /\ mints' = mints + 1 /\ registered' = None
Registers == SomeSigning /\ ~SomeSigning' /\ registered' = mints /\ mints' = mints
FailsToSign == SomeSigning /\ ~SomeSigning' /\ UNCHANGED <<registered, mints>>
Forgets == /\ registered # None /\ registered' = None
           /\ mints' = mints /\ (SomeSigning' <=> SomeSigning)
Stutters == UNCHANGED <<registered, mints>> /\ (SomeSigning' <=> SomeSigning)

Seen == Begins \/ Registers \/ FailsToSign \/ Forgets \/ Stutters

(* What the steps that leave the mints alone have to show.                 *)
LEMMA SameMints ==
  ASSUME IInv, UNCHANGED <<mints, client>>, LockInv', LockTypeOK',
         pc' \in [Tasks -> Locations], \A d \in Tasks : pc'[d] \in Signing => pc[d] \in Signing,
         registered' \in {registered, None} \/ (registered' = mints /\ ~SomeSigning'),
         live' \subseteq 1 .. mints, first' \in [Tasks -> BOOLEAN], logins' \in Nat,
         losses' \in 0 .. MaxLosses, losses <= losses',
         ~Usable' /\ ~SomeSigning' => mints <= losses'
  PROVE  IInv'
<1> USE MaxLossesAssumption
<1>0. TypeOK /\ mints \in Nat /\ losses \in Nat /\ losses' \in Nat
  BY DEF IInv, TypeOK
<1>1. registered' \in 0 .. mints'
  BY <1>0 DEF TypeOK, None
<1>2. TypeOK'
  BY <1>0, <1>1 DEF TypeOK
<1>3. SigningAlone'
  BY DEF IInv, SigningAlone, SomeSigning
<1>4. RegisteredIsNewest'
  BY DEF IInv, RegisteredIsNewest
<1>5. mints' <= losses' + 1
  <2>1. mints <= losses + 1
    BY DEF IInv, Explained, SignInsAreExplained
  <2> QED
    BY <1>0, <2>1, StillBounded
<1>6. Explained'
  BY <1>5 DEF Explained, SignInsAreExplained, Usable, SomeSigning
<1>7. SomeSigning' => mints' # None
  BY DEF IInv, SomeSigning
<1> QED
  BY <1>2, <1>3, <1>4, <1>6, <1>7 DEF IInv

(* Nobody signs in while the lock is free or handed to a waiter.           *)
LEMMA NobodySigns ==
  ASSUME IInv, NEW c \in Tasks, Admitted(c)
  PROVE  ~SomeSigning
BY TasksAssumption DEF IInv, LockInv, Admitted, SomeSigning, Signing

(* A client that is lost is counted.                                       *)
LEMMA Losing ==
  ASSUME IInv, ~SomeSigning, IF Usable THEN Lose ELSE UNCHANGED losses
  PROVE  mints <= losses' /\ losses <= losses' /\ losses' \in 0 .. MaxLosses
<1> USE MaxLossesAssumption
<1>0. mints \in Nat /\ losses \in 0 .. MaxLosses
  BY DEF IInv, TypeOK
<1>1. CASE Usable
  <2>1. losses' = losses + 1 /\ losses < MaxLosses /\ mints <= losses + 1
    BY <1>1 DEF Lose, IInv, Explained, SignInsAreExplained
  <2> QED
    BY <1>0, <2>1
<1>2. CASE ~Usable
  <2>1. losses' = losses /\ mints <= losses
    BY <1>2 DEF IInv, Explained
  <2> QED
    BY <1>0, <2>1
<1> QED
  BY <1>1, <1>2

LEMMA AskKeepsIInv ==
  ASSUME IInv, NEW c \in Tasks, Ask(c)
  PROVE  IInv' /\ Seen
<1> USE MaxLossesAssumption
<1>0. /\ TypeOK /\ LockInv /\ losses \in 0 .. MaxLosses /\ losses <= losses
  BY DEF IInv, TypeOK
<1>1. CASE AskWaits(c)
  <2>1. /\ LockInv' /\ LockTypeOK' /\ pc' \in [Tasks -> Locations]
        /\ \A d \in Tasks : pc'[d] \in Signing <=> pc[d] \in Signing
    BY <1>0, <1>1, Joining DEF AskWaits
  <2>2. UNCHANGED <<registered, live, mints, client, first, logins, losses>>
    BY <1>1 DEF AskWaits
  <2>3. (SomeSigning' <=> SomeSigning) /\ (Usable' <=> Usable)
    BY <2>1, <2>2 DEF SomeSigning, Usable
  <2>4. ~Usable' /\ ~SomeSigning' => mints <= losses'
    BY <2>2, <2>3 DEF IInv, Explained
  <2>5. /\ live' \subseteq 1 .. mints /\ first' \in [Tasks -> BOOLEAN]
        /\ logins' \in Nat /\ losses' \in 0 .. MaxLosses
    BY <1>0, <2>2 DEF TypeOK
  <2>6. IInv'
    BY <1>0, <2>1, <2>2, <2>4, <2>5, SameMints
  <2> QED
    BY <2>2, <2>3, <2>6 DEF Seen, Stutters
<1>2. CASE ForceSignsIn(c)
  <2>1. Admitted(c) /\ BeginSignIn(c) /\ UNCHANGED <<live, logins>>
    BY <1>2 DEF ForceSignsIn, Admitted
  <2>2. mints <= losses' /\ losses' \in 0 .. MaxLosses
    BY <1>2, <2>1, NobodySigns, Losing DEF ForceSignsIn
  <2>3. IInv' /\ ~SomeSigning /\ SomeSigning'
    BY <2>1, <2>2, Beginning
  <2> QED
    BY <2>1, <2>3 DEF Seen, Begins, BeginSignIn
<1>3. CASE ForceWaits(c)
  <2>1. /\ LockInv' /\ LockTypeOK' /\ pc' \in [Tasks -> Locations]
        /\ \A d \in Tasks : pc'[d] \in Signing <=> pc[d] \in Signing
    BY <1>0, <1>3, Joining DEF ForceWaits
  <2>2. /\ UNCHANGED <<live, mints, client, first, logins>>
        /\ registered' = None
        /\ IF Usable THEN Lose ELSE UNCHANGED losses
    BY <1>3 DEF ForceWaits
  <2>3. SomeSigning' <=> SomeSigning
    BY <2>1 DEF SomeSigning
  <2>4. /\ losses <= losses' /\ losses' \in 0 .. MaxLosses
        /\ ~SomeSigning' => mints <= losses'
    <3>1. CASE SomeSigning
      <4>1. ~Usable
        BY <3>1 DEF IInv, SigningAlone, SomeSigning, Usable
      <4> QED
        BY <1>0, <2>2, <2>3, <3>1, <4>1
    <3>2. CASE ~SomeSigning
      BY <2>2, <3>2, Losing
    <3> QED
      BY <3>1, <3>2
  <2>5. /\ live' \subseteq 1 .. mints /\ first' \in [Tasks -> BOOLEAN]
        /\ logins' \in Nat
    BY <1>0, <2>2 DEF TypeOK
  <2>6. IInv'
    BY <2>1, <2>2, <2>4, <2>5, SameMints
  <2> QED
    BY <2>2, <2>3, <2>6 DEF Seen, Forgets, Stutters
<1> QED
  BY <1>1, <1>2, <1>3 DEF Ask

LEMMA EnterKeepsIInv ==
  ASSUME IInv, NEW c \in Tasks, Enter(c)
  PROVE  IInv' /\ Seen
<1> USE MaxLossesAssumption, TasksAssumption
<1>0. /\ TypeOK /\ LockInv /\ LockOK /\ losses \in 0 .. MaxLosses /\ losses <= losses
  BY DEF IInv, TypeOK, LockInv
<1>1. CASE Reuse(c)
  <2>1. /\ Admitted(c) /\ Usable /\ ReleaseLock /\ pc' = [pc EXCEPT ![c] = "idle"]
        /\ client' = [client EXCEPT ![c] = registered]
        /\ UNCHANGED <<registered, live, mints, first, logins, losses>>
    BY <1>1 DEF Reuse
  <2>2. ~SomeSigning /\ Usable'
    BY <2>1, NobodySigns DEF Usable
  <2>3. /\ LockInv' /\ LockTypeOK' /\ pc' \in [Tasks -> Locations] /\ ~SomeSigning'
    <3>1. CASE holder = c
      BY <1>0, <2>1, <3>1, HandOver
    <3>2. CASE pc[c] = "idle" /\ holder = NoTask
      <4>1. queue = <<>> /\ UNCHANGED lock
        BY <1>0, <2>1, <3>2 DEF LockOK, ReleaseLock, lock
      <4>2. pc' = pc
        BY <1>0, <2>1, <3>2 DEF TypeOK
      <4> QED
        BY <1>0, <2>2, <4>1, <4>2
        DEF LockInv, LockOK, LockTypeOK, Queued, lock, TypeOK, SomeSigning
    <3> QED
      BY <2>1, <3>1, <3>2 DEF Admitted
  <2>4. TypeOK'
    <3>1. client' \in [Tasks -> 0 .. mints]
      BY <1>0, <2>1 DEF TypeOK
    <3> QED
      BY <1>0, <2>1, <2>3, <3>1 DEF TypeOK
  <2>5. SigningAlone' /\ RegisteredIsNewest'
    BY <2>1, <2>3 DEF IInv, SigningAlone, RegisteredIsNewest, SomeSigning
  <2>6. Explained'
    BY <2>1, <2>2 DEF IInv, Explained, SignInsAreExplained
  <2> QED
    BY <2>1, <2>2, <2>3, <2>4, <2>5, <2>6 DEF IInv, Seen, Stutters
<1>2. CASE SignIn(c)
  <2>1. Admitted(c) /\ ~Usable /\ BeginSignIn(c) /\ UNCHANGED <<live, logins, losses>>
    BY <1>2 DEF SignIn
  <2>2. mints <= losses' /\ losses' \in 0 .. MaxLosses
    BY <2>1, NobodySigns, Losing
  <2>3. IInv' /\ ~SomeSigning /\ SomeSigning'
    BY <2>1, <2>2, Beginning
  <2> QED
    BY <2>1, <2>3 DEF Seen, Begins, BeginSignIn
<1> QED
  BY <1>1, <1>2 DEF Enter

(* A sign-in that ends without a client is a loss.                         *)
LEMMA FailingKeepsIInv ==
  ASSUME IInv, NEW c \in Tasks, pc[c] \in Signing, Lose, ReleaseLock, logins' \in Nat,
         pc' = [pc EXCEPT ![c] = "idle"],
         UNCHANGED <<registered, live, mints, client, first>>
  PROVE  IInv' /\ Seen
<1> USE MaxLossesAssumption
<1>0. /\ TypeOK /\ LockInv /\ holder = c /\ SomeSigning /\ mints \in Nat
      /\ losses \in 0 .. MaxLosses
  BY DEF IInv, TypeOK, LockInv, SomeSigning
<1>1. LockInv' /\ LockTypeOK' /\ pc' \in [Tasks -> Locations] /\ ~SomeSigning'
  BY <1>0, HandOver
<1>2. losses <= losses' /\ losses' \in 0 .. MaxLosses /\ mints <= losses'
  <2>1. losses' = losses + 1 /\ losses < MaxLosses /\ mints <= losses + 1
    BY DEF Lose, IInv, Explained, SignInsAreExplained
  <2> QED
    BY <1>0, <2>1
<1>3. live' \subseteq 1 .. mints /\ first' \in [Tasks -> BOOLEAN]
  BY <1>0 DEF TypeOK
<1>4. IInv'
  BY <1>1, <1>2, <1>3, SameMints DEF SomeSigning
<1> QED
  BY <1>0, <1>1, <1>4 DEF Seen, FailsToSign

(* A step of a sign-in that goes on.                                       *)
LEMMA GoingOnKeepsIInv ==
  ASSUME IInv, NEW c \in Tasks, pc[c] \in Signing, NEW l \in Signing,
         pc' = [pc EXCEPT ![c] = l], logins' \in Nat, first' \in [Tasks -> BOOLEAN],
         UNCHANGED <<lock, registered, live, mints, client, losses>>
  PROVE  IInv' /\ Seen
<1>0. TypeOK /\ LockInv /\ LockOK
  BY DEF IInv, LockInv
<1>1. /\ pc' \in [Tasks -> Locations]
      /\ \A d \in Tasks : pc'[d] \in Signing <=> pc[d] \in Signing
      /\ \A d \in Tasks : pc'[d] = "idle" <=> pc[d] = "idle"
  BY <1>0 DEF TypeOK, Locations, Signing
<1>2. LockOK' /\ LockTypeOK' /\ Queued' = Queued /\ holder' = holder
  BY <1>0 DEF LockOK, LockTypeOK, Queued, lock
<1>3. LockInv'
  BY <1>0, <1>1, <1>2 DEF LockInv
<1>4. (SomeSigning' <=> SomeSigning) /\ (Usable' <=> Usable)
  BY <1>1 DEF SomeSigning, Usable
<1>5. TypeOK'
  BY <1>0, <1>1, <1>2 DEF TypeOK
<1>6. SigningAlone' /\ RegisteredIsNewest'
  BY <1>1 DEF IInv, SigningAlone, RegisteredIsNewest
<1>7. Explained'
  BY <1>4 DEF IInv, Explained, SignInsAreExplained
<1> QED
  BY <1>3, <1>4, <1>5, <1>6, <1>7 DEF IInv, Seen, Stutters

LEMMA ConnectKeepsIInv ==
  ASSUME IInv, NEW c \in Tasks, Connect(c)
  PROVE  IInv' /\ Seen
<1> USE MaxLossesAssumption
<1>0. /\ TypeOK /\ LockInv /\ SigningAlone /\ logins \in Nat
      /\ losses \in 0 .. MaxLosses /\ losses <= losses
  BY DEF IInv, TypeOK
<1>1. CASE Login(c)
  <2>1. logins' \in Nat /\ first' \in [Tasks -> BOOLEAN]
    BY <1>0, <1>1 DEF Login, TypeOK
  <2> QED
    BY <1>0, <1>1, <2>1, GoingOnKeepsIInv DEF Login, Signing
<1>2. CASE ExchangeAccepted(c)
  <2>1. /\ live' = live \cup {client[c]} /\ registered' = client[c]
        /\ ReleaseLock /\ pc' = [pc EXCEPT ![c] = "idle"]
        /\ UNCHANGED <<mints, client, first, logins, losses>>
    BY <1>2 DEF ExchangeAccepted
  <2>2. pc[c] \in Signing /\ SomeSigning /\ holder = c /\ client[c] = mints
    BY <1>0, <1>2 DEF ExchangeAccepted, Signing, SomeSigning, SigningAlone, LockInv
  <2>3. LockInv' /\ LockTypeOK' /\ pc' \in [Tasks -> Locations] /\ ~SomeSigning'
    BY <1>0, <2>1, <2>2, HandOver
  <2>4. mints # None /\ registered' = mints /\ Usable'
    BY <1>0, <2>1, <2>2 DEF IInv, Usable
  <2>5. live' \subseteq 1 .. mints
    BY <1>0, <2>1, <2>2, <2>4 DEF TypeOK, None
  <2>6. IInv'
    BY <1>0, <2>1, <2>3, <2>4, <2>5, SameMints DEF TypeOK, SomeSigning
  <2> QED
    BY <2>1, <2>2, <2>3, <2>4, <2>6 DEF Seen, Registers
<1>3. CASE ExchangeRefused(c)
  <2>1. first' \in [Tasks -> BOOLEAN]
    BY <1>0, <1>3 DEF ExchangeRefused, TypeOK
  <2> QED
    BY <1>0, <1>3, <2>1, GoingOnKeepsIInv DEF ExchangeRefused, Signing
<1>4. CASE ConnectFails(c)
  <2>1. logins' \in Nat
    BY <1>0, <1>4 DEF ConnectFails
  <2> QED
    BY <1>4, <2>1, FailingKeepsIInv DEF ConnectFails
<1> QED
  BY <1>1, <1>2, <1>3, <1>4 DEF Connect

LEMMA CancelKeepsIInv ==
  ASSUME IInv, NEW c \in Tasks, Cancel(c)
  PROVE  IInv' /\ Seen
<1> USE TasksAssumption
<1>0. /\ TypeOK /\ LockInv /\ LockOK /\ logins \in Nat
      /\ losses \in 0 .. MaxLosses /\ losses <= losses
  BY DEF IInv, TypeOK, LockInv
<1>1. CASE CancelWaiting(c)
  <2>1. /\ pc[c] = "waiting" /\ AbandonLock(c) /\ pc' = [pc EXCEPT ![c] = "idle"]
        /\ UNCHANGED <<registered, live, mints, client, first, logins, losses>>
    BY <1>1 DEF CancelWaiting
  <2>2. pc'[c] = "idle" /\ \A d \in Tasks : d # c => pc'[d] = pc[d]
    BY <1>0, <2>1 DEF TypeOK
  <2>3. \A d \in Tasks : pc'[d] \in Signing <=> pc[d] \in Signing
    BY <2>1, <2>2 DEF Signing
  <2>4. /\ LockInv' /\ LockTypeOK' /\ pc' \in [Tasks -> Locations]
    <3>1. CASE holder = c
      <4>1. ReleaseLock
        BY <2>1, <3>1 DEF AbandonLock
      <4> QED
        BY <1>0, <2>1, <3>1, <4>1, HandOver
    <3>2. CASE holder # c
      <4>1. c \in Queued /\ holder' = holder /\ queue' = Without(c)
        BY <1>0, <2>1, <3>2 DEF LockInv, AbandonLock
      <4>2. LockOK' /\ Queued' = Queued \ {c}
        BY <1>0, <4>1, LeaveKeepsLock
      <4>3. \A d \in Tasks : pc'[d] = "idle" <=> d \notin Queued' /\ holder' # d
        BY <1>0, <2>2, <3>2, <4>1, <4>2 DEF LockInv
      <4>4. pc' \in [Tasks -> Locations]
        BY <1>0, <2>1 DEF TypeOK, Locations
      <4> QED
        BY <1>0, <2>3, <4>1, <4>2, <4>3, <4>4 DEF LockInv, LockOK
    <3> QED
      BY <3>1, <3>2
  <2>5. (SomeSigning' <=> SomeSigning) /\ (Usable' <=> Usable)
    BY <2>1, <2>3 DEF SomeSigning, Usable
  <2>6. ~Usable' /\ ~SomeSigning' => mints <= losses'
    BY <2>1, <2>5 DEF IInv, Explained
  <2>7. live' \subseteq 1 .. mints /\ first' \in [Tasks -> BOOLEAN]
    BY <1>0, <2>1 DEF TypeOK
  <2>8. IInv'
    BY <1>0, <2>1, <2>3, <2>4, <2>6, <2>7, SameMints
  <2> QED
    BY <2>1, <2>5, <2>8 DEF Seen, Stutters
<1>2. CASE CancelSigning(c)
  BY <1>0, <1>2, FailingKeepsIInv DEF CancelSigning
<1> QED
  BY <1>1, <1>2 DEF Cancel

(* Losing or clearing a client touches neither the lock nor the tasks.     *)
LEMMA OutsideKeepsIInv ==
  ASSUME IInv, UNCHANGED <<lock, mints, pc, client, first, logins>>,
         registered' \in {registered, None}, live' \subseteq live,
         Usable /\ ~Usable' => Lose, Usable' \/ ~Usable => losses' = losses
  PROVE  IInv' /\ Seen
<1> USE MaxLossesAssumption
<1>0. /\ TypeOK /\ LockInv /\ LockOK /\ mints \in Nat /\ losses \in 0 .. MaxLosses
  BY DEF IInv, TypeOK, LockInv
<1>1. LockInv' /\ LockTypeOK' /\ pc' \in [Tasks -> Locations]
  BY <1>0 DEF LockInv, LockOK, LockTypeOK, Queued, lock, TypeOK
<1>2. SomeSigning' <=> SomeSigning
  BY DEF SomeSigning
<1>3. /\ losses <= losses' /\ losses' \in 0 .. MaxLosses
      /\ ~Usable' /\ ~SomeSigning' => mints <= losses'
  <2>1. CASE Usable /\ ~Usable'
    <3>1. losses' = losses + 1 /\ losses < MaxLosses /\ mints <= losses + 1
      BY <2>1 DEF Lose, IInv, Explained, SignInsAreExplained
    <3> QED
      BY <1>0, <3>1
  <2>2. CASE ~Usable
    <3>1. losses' = losses /\ (~SomeSigning => mints <= losses)
      BY <2>2 DEF IInv, Explained
    <3> QED
      BY <1>0, <1>2, <3>1
  <2>3. CASE Usable'
    BY <1>0, <2>3
  <2> QED
    BY <2>1, <2>2, <2>3
<1>4. live' \subseteq 1 .. mints /\ first' \in [Tasks -> BOOLEAN] /\ logins' \in Nat
  BY <1>0 DEF TypeOK
<1>5. IInv'
  BY <1>1, <1>3, <1>4, SameMints
<1> QED
  BY <1>2, <1>5 DEF Seen, Forgets, Stutters

LEMMA DisconnectKeepsIInv ==
  ASSUME IInv, NEW c \in Tasks, Disconnect(c)
  PROVE  IInv' /\ Seen
<1>1. /\ client[c] \in live /\ live' = live \ {client[c]}
      /\ UNCHANGED <<lock, registered, mints, pc, client, first, logins>>
      /\ IF client[c] = registered THEN Lose ELSE UNCHANGED losses
  BY DEF Disconnect
<1>2. Usable /\ ~Usable' => client[c] = registered
  BY <1>1 DEF Usable
<1>3. Usable' \/ ~Usable => client[c] # registered
  <2>1. mints \in Nat /\ live \subseteq 1 .. mints /\ client[c] # None
    BY <1>1 DEF IInv, TypeOK, None
  <2> QED
    BY <1>1, <2>1 DEF Usable
<1> QED
  BY <1>1, <1>2, <1>3, OutsideKeepsIInv

LEMMA ClearKeepsIInv ==
  ASSUME IInv, Clear
  PROVE  IInv' /\ Seen
<1>1. /\ registered' = None /\ UNCHANGED <<lock, live, mints, pc, client, first, logins>>
      /\ IF Usable THEN Lose ELSE UNCHANGED losses
  BY DEF Clear
<1>2. ~Usable'
  BY <1>1 DEF Usable
<1> QED
  BY <1>1, <1>2, OutsideKeepsIInv

(* Every step keeps the invariant and is a step of SharedClient.           *)
LEMMA StepKeepsIInv ==
  ASSUME IInv, [Next]_vars
  PROVE  IInv' /\ Seen
<1>1. CASE UNCHANGED vars
  <2>1. UNCHANGED <<lock, mints, pc, client, first, logins, registered, live, losses>>
    BY <1>1 DEF vars, lock
  <2>2. Usable' <=> Usable
    BY <2>1 DEF Usable
  <2> QED
    BY <2>1, <2>2, OutsideKeepsIInv
<1>2. ASSUME NEW c \in Tasks, Ask(c) \/ Enter(c) \/ Connect(c) \/ Cancel(c) \/ Disconnect(c)
      PROVE  IInv' /\ Seen
  BY <1>2, AskKeepsIInv, EnterKeepsIInv, ConnectKeepsIInv, CancelKeepsIInv, DisconnectKeepsIInv
<1> QED
  BY <1>1, <1>2, ClearKeepsIInv DEF Next

LEMMA InvariantHolds == Spec => []IInv
<1>1. Init => IInv
  BY InitIInv
<1>2. IInv /\ [Next]_vars => IInv'
  BY StepKeepsIInv
<1> QED
  BY <1>1, <1>2, PTL DEF Spec

(* Every variable of the registry keeps its type: _shared_clients holds a  *)
(* client that was signed in by this process, and so on.                   *)
THEOREM TypeCorrect == Spec => []TypeOK
<1>1. IInv => TypeOK
  BY DEF IInv
<1> QED
  BY <1>1, InvariantHolds, PTL

(* Sign-ins are serial and leave nothing registered while they run,        *)
(* although force_reconnect_api and clear_shared_api pop without the lock. *)
THEOREM OneSignInAtATime == Spec => []SigningAlone
<1>1. IInv => SigningAlone
  BY DEF IInv
<1> QED
  BY <1>1, InvariantHolds, PTL

(* get_shared_api hands out the client of the newest sign-in.              *)
THEOREM NewestIsShared == Spec => []RegisteredIsNewest
<1>1. IInv => RegisteredIsNewest
  BY DEF IInv
<1> QED
  BY <1>1, InvariantHolds, PTL

(* Tasks that call get_shared_api together cost one sign-in: each further  *)
(* one follows a loss.                                                     *)
THEOREM NoNeedlessSignIn == Spec => []SignInsAreExplained
<1>1. IInv => SignInsAreExplained
  BY DEF IInv, Explained
<1> QED
  BY <1>1, InvariantHolds, PTL

(* What a sign-in may still send: two logins before the first run's, one   *)
(* before the second run's or while its first exchange may be refused.     *)
Left(c) == IF pc[c] = "login" /\ first[c] THEN 2
           ELSE IF pc[c] = "login" \/ (pc[c] = "exchange" /\ first[c]) THEN 1 ELSE 0

LoginsInv ==
  /\ TwoLoginsAtMost
  /\ \A c \in Tasks : logins + Left(c) <= 2 * mints

(* A task that is not signing in has nothing left to send.                 *)
LEMMA NothingLeft == \A c \in Tasks : pc[c] \notin Signing => Left(c) = 0
BY DEF Left, Signing

LEMMA StepKeepsLogins ==
  ASSUME IInv, LoginsInv, [Next]_vars
  PROVE  LoginsInv'
<1>0. /\ mints \in Nat /\ logins \in Nat
      /\ pc \in [Tasks -> Locations] /\ first \in [Tasks -> BOOLEAN]
  BY DEF IInv, TypeOK
<1>1. \A c \in Tasks : Left(c) \in 0 .. 2
  BY DEF Left
<1>2. ASSUME UNCHANGED <<mints, logins, first>>,
             \A c \in Tasks : pc'[c] = pc[c] \/ pc'[c] \notin Signing
      PROVE  LoginsInv'
  <2>1. \A c \in Tasks : Left(c)' = Left(c) \/ Left(c)' = 0
    BY <1>2 DEF Left, Signing
  <2> QED
    BY <1>0, <1>1, <1>2, <2>1 DEF LoginsInv, TwoLoginsAtMost
<1>3. CASE UNCHANGED vars \/ Clear
  BY <1>2, <1>3 DEF vars, Clear, lock
<1>4. ASSUME NEW c \in Tasks, Ask(c) \/ Enter(c) \/ Connect(c) \/ Cancel(c) \/ Disconnect(c)
      PROVE  LoginsInv'
  <2>1. CASE AskWaits(c) \/ ForceWaits(c) \/ Reuse(c) \/ ExchangeAccepted(c)
             \/ CancelWaiting(c) \/ CancelSigning(c) \/ Disconnect(c)
    <3>1. /\ UNCHANGED <<mints, logins, first>>
          /\ \/ pc' = pc
             \/ pc' = [pc EXCEPT ![c] = "waiting"]
             \/ pc' = [pc EXCEPT ![c] = "idle"]
      BY <2>1 DEF AskWaits, ForceWaits, Reuse, ExchangeAccepted, CancelWaiting,
                  CancelSigning, Disconnect
    <3> QED
      BY <1>0, <1>2, <3>1 DEF Signing
  <2>2. CASE SignIn(c) \/ ForceSignsIn(c)
    <3>1. /\ mints' = mints + 1 /\ logins' = logins
          /\ pc' = [pc EXCEPT ![c] = "login"]
          /\ first' = [first EXCEPT ![c] = TRUE]
      BY <2>2 DEF SignIn, ForceSignsIn, BeginSignIn
    <3>2. \A d \in Tasks : Left(d)' \in 0 .. 2
      BY DEF Left
    <3>3. logins <= 2 * mints
      BY DEF LoginsInv, TwoLoginsAtMost
    <3> QED
      BY <1>0, <3>1, <3>2, <3>3 DEF LoginsInv, TwoLoginsAtMost
  <2>3. CASE Login(c) \/ ConnectFails(c) \/ ExchangeRefused(c)
    <3>1. pc[c] \in Signing
      BY <2>3 DEF Login, ConnectFails, ExchangeRefused, Signing
    <3>2. \A d \in Tasks \ {c} : pc[d] \notin Signing
      BY <3>1 DEF IInv, SigningAlone
    <3>3. mints' = mints
      BY <2>3 DEF Login, ConnectFails, ExchangeRefused
    <3>4. \A d \in Tasks \ {c} : pc'[d] = pc[d]
      BY <1>0, <2>3 DEF Login, ConnectFails, ExchangeRefused
    <3>5. \A d \in Tasks \ {c} : Left(d)' = 0
      BY <3>2, <3>4 DEF Left, Signing
    <3>6. logins' \in Nat /\ logins' + Left(c)' <= logins + Left(c)
      <4>1. CASE Login(c)
        BY <1>0, <4>1 DEF Login, Left
      <4>2. CASE ConnectFails(c)
        <5>1. Left(c)' = 0
          BY <1>0, <4>2 DEF ConnectFails, Left
        <5>2. \/ logins' = logins
              \/ pc[c] = "login" /\ logins' = logins + 1
          BY <4>2 DEF ConnectFails
        <5>3. pc[c] = "login" => Left(c) >= 1
          BY DEF Left
        <5> QED
          BY <1>0, <1>1, <5>1, <5>2, <5>3
      <4>3. CASE ExchangeRefused(c)
        BY <1>0, <4>3 DEF ExchangeRefused, Left
      <4> QED
        BY <2>3, <4>1, <4>2, <4>3
    <3>8. Left(c)' \in 0 .. 2
      BY DEF Left
    <3>7. logins' + Left(c)' <= 2 * mints'
      <4>1. logins + Left(c) <= 2 * mints
        BY DEF LoginsInv
      <4> QED
        BY <1>0, <1>1, <3>3, <3>6, <3>8, <4>1
    <3> QED
      BY <1>0, <3>3, <3>5, <3>6, <3>7, <3>8 DEF LoginsInv, TwoLoginsAtMost
  <2> QED
    BY <1>4, <2>1, <2>2, <2>3 DEF Ask, Enter, Connect, Cancel
<1> QED
  BY <1>3, <1>4 DEF Next

(* A counted sign-in sends at most two logins, the second because connect  *)
(* repeats its chain once after a refused exchange.                        *)
THEOREM LoginsAreBounded == Spec => []TwoLoginsAtMost
<1>1. Init => LoginsInv
  <2> SUFFICES ASSUME Init PROVE LoginsInv
    OBVIOUS
  <2>1. mints = 0 /\ logins = 0 /\ \A c \in Tasks : pc[c] = "idle"
    BY DEF Init
  <2>2. \A c \in Tasks : Left(c) = 0
    BY <2>1 DEF Left
  <2> QED
    BY <2>1, <2>2 DEF LoginsInv, TwoLoginsAtMost
<1>2. IInv /\ LoginsInv /\ [Next]_vars => LoginsInv'
  BY StepKeepsLogins
<1>3. LoginsInv => TwoLoginsAtMost
  BY DEF LoginsInv
<1> QED
  BY <1>1, <1>2, <1>3, InvariantHolds, PTL DEF Spec

(* The registry implements the sequential sign-in of SharedClient.         *)
THEOREM RegistryImplementsShared == Spec => ImplementsShared
<1>1. Init => Shared!Init
  BY DEF Init, Shared!Init, Shared!None, None, Signing
<1>2. ASSUME IInv, [Next]_vars
      PROVE  [Shared!Next]_<<registered, mints, \E c \in Tasks : pc[c] \in Signing>>
  <2> DEFINE signs == \E c \in Tasks : pc[c] \in Signing
  <2>1. Seen
    BY <1>2, StepKeepsIInv
  <2>2. CASE Begins
    BY <2>2 DEF Begins, SomeSigning, Shared!Next, Shared!Begin, Shared!None, None
  <2>3. CASE Registers
    BY <2>3 DEF Registers, SomeSigning, Shared!Next, Shared!Register
  <2>4. CASE FailsToSign
    BY <2>4 DEF FailsToSign, SomeSigning, Shared!Next, Shared!Fail
  <2>5. CASE Forgets
    BY <2>5 DEF Forgets, SomeSigning, Shared!Next, Shared!Forget, Shared!None, None
  <2>6. CASE Stutters
    BY <2>6 DEF Stutters, SomeSigning
  <2> QED
    BY <2>1, <2>2, <2>3, <2>4, <2>5, <2>6 DEF Seen
<1> QED
  BY <1>1, <1>2, InvariantHolds, PTL DEF Spec, ImplementsShared, Shared!Spec

=============================================================================
