---------------------------- MODULE DeviceReadProofs ----------------------------
(***************************************************************************)
(* Proofs about DeviceRead, for any tasks and bounds: typing, that a noted *)
(* use is held or marked, and that the records are kept as a SharedCache   *)
(* keeps its value.                                                        *)
(***************************************************************************)
EXTENDS DeviceRead, TLAPS

(* A last use that is known anywhere is one the machine has had.           *)
KnownUses ==
  /\ props <= use
  /\ noted <= use
  /\ \A t \in Tasks : seen[t] <= use

(* Who is fetching holds the lock, and what it will store is as new as the *)
(* last use noted.                                                         *)
Fetching ==
  \A t \in Tasks :
    /\ pc[t] \in {"reading", "answered"} => holder = t
    /\ pc[t] = "answered" => excused \/ sample[t] >= noted

IInv == TypeOK /\ KnownUses /\ Fetching /\ NoUseMissed

LEMMA InitInv == Init => IInv
<1> SUFFICES ASSUME Init PROVE IInv
  OBVIOUS
<1>1. /\ use \in Uses /\ refusals = 0 /\ props = None /\ noted = None /\ held = None
      /\ age = "young" /\ marked = FALSE /\ holder = NoTask /\ kind \in Kinds
      /\ pc = [t \in Tasks |-> "idle"] /\ seen = [t \in Tasks |-> None]
      /\ sample = [t \in Tasks |-> None] /\ excused = FALSE
  BY DEF Init
<1>2. TypeOK
  <2>1. refusals \in 0 .. MaxRefusals
    BY <1>1, BoundsAssumption
  <2>2. pc \in [Tasks -> Locations]
    BY <1>1 DEF Locations
  <2>3. /\ seen \in [Tasks -> Uses \cup {None}]
        /\ sample \in [Tasks -> Uses \cup {None}]
    BY <1>1
  <2> QED
    BY <1>1, <2>1, <2>2, <2>3 DEF TypeOK, Ages
<1>3. KnownUses /\ NoUseMissed
  BY <1>1 DEF KnownUses, NoUseMissed, Uses, None
<1>4. Fetching
  BY <1>1 DEF Fetching
<1> QED
  BY <1>2, <1>3, <1>4 DEF IInv

(* What the properties state has happened.                                 *)
LEMMA StatedTyped == ASSUME TypeOK PROVE StatedUse \in Uses /\ StatedUse <= use
BY BoundsAssumption DEF TypeOK, StatedUse, Uses

(* Asking for the records moves the task and, at most, the lock to it.     *)
LEMMA AskMoves ==
  ASSUME TypeOK, Fetching, NEW t \in Tasks, NEW m \in BOOLEAN, Ask(t, m)
  PROVE  /\ pc' \in [Tasks -> Locations]
         /\ holder' \in Tasks \cup {NoTask}
         /\ \A u \in Tasks : pc'[u] \in {"reading", "answered"} => holder' = u
         /\ \A u \in Tasks : pc'[u] = "answered" => pc[u] = "answered"
BY TasksAssumption DEF TypeOK, Fetching, Ask, Goto, Locations

LEMMA StepInv == ASSUME IInv, [Next]_vars PROVE IInv'
<1> USE DEF IInv
<1> SUFFICES ASSUME Next PROVE IInv'
  BY DEF vars, records, task, TypeOK, KnownUses, Fetching, NoUseMissed, Kept
<1>1. ASSUME NEW t \in Tasks, Begin(t) \/ PropsFail(t) \/ Weighed(t) \/ WeighingFails(t)
      PROVE  IInv'
  <2>1. /\ UNCHANGED <<kind, use, refusals, props, noted, records, sample, excused>>
        /\ \/ seen' = seen
           \/ seen' = [seen EXCEPT ![t] = None]
        /\ \E l \in {"asking", "idle", "seen"} : pc' = [pc EXCEPT ![t] = l]
    BY <1>1 DEF Begin, PropsFail, Weighed, WeighingFails, Goto
  <2>2. pc' \in [Tasks -> Locations]
    BY <2>1 DEF TypeOK, Locations
  <2>3. seen' \in [Tasks -> Uses \cup {None}]
    BY <2>1 DEF TypeOK
  <2>4. TypeOK'
    BY <2>1, <2>2, <2>3 DEF TypeOK, records
  <2>5. KnownUses'
    BY <2>1 DEF KnownUses, TypeOK, Uses, None
  <2>6. Fetching' /\ NoUseMissed'
    BY <2>1 DEF Fetching, NoUseMissed, TypeOK, records
  <2> QED
    BY <2>4, <2>5, <2>6
<1>2. ASSUME NEW t \in Tasks, PropsAnswered(t) \/ PropsKept(t)
      PROVE  IInv'
  <2>1. PICK u \in Uses : /\ u <= use
                          /\ seen' = [seen EXCEPT ![t] = u]
                          /\ props' = u
    BY <1>2, StatedTyped DEF PropsAnswered, PropsKept, KnownUses, TypeOK
  <2>2. /\ UNCHANGED <<kind, use, refusals, noted, records, sample, excused>>
        /\ \E l \in {"weighing", "seen"} : pc' = [pc EXCEPT ![t] = l]
    BY <1>2 DEF PropsAnswered, PropsKept, Goto, AfterProps
  <2>3. pc' \in [Tasks -> Locations]
    BY <2>2 DEF TypeOK, Locations
  <2>4. TypeOK'
    BY <2>1, <2>2, <2>3 DEF TypeOK, records
  <2>5. KnownUses'
    BY <2>1, <2>2 DEF KnownUses, TypeOK
  <2>6. Fetching' /\ NoUseMissed'
    BY <2>2 DEF Fetching, NoUseMissed, TypeOK, records
  <2> QED
    BY <2>4, <2>5, <2>6
<1>3. ASSUME NEW t \in Tasks, TakeBack(t)
      PROVE  IInv'
  <2>1. /\ UNCHANGED <<kind, use, refusals, props, noted, held, age, holder, seen, sample>>
        /\ marked' = TRUE /\ excused' = (holder # NoTask)
        /\ pc[t] = "idle" /\ pc' = [pc EXCEPT ![t] = "asking"]
    BY <1>3 DEF TakeBack, Goto
  <2>2. TypeOK'
    BY <2>1 DEF TypeOK, Locations
  <2>3. KnownUses' /\ NoUseMissed'
    BY <2>1 DEF KnownUses, NoUseMissed
  <2>4. Fetching'
    BY <2>1, TasksAssumption DEF Fetching, TypeOK
  <2> QED
    BY <2>2, <2>3, <2>4
<1>4. ASSUME NEW t \in Tasks, NoteUse(t)
      PROVE  IInv'
  <2>1. /\ UNCHANGED <<kind, use, refusals, props, held, age, sample>>
        /\ marked' = (marked \/ noted # seen[t])
        /\ noted' = seen[t]
        /\ Ask(t, marked')
        /\ excused' = IF noted # seen[t] THEN holder # NoTask ELSE excused
        /\ seen' = [seen EXCEPT ![t] = None]
    BY <1>4 DEF NoteUse
  <2>2. marked' \in BOOLEAN /\ excused' \in BOOLEAN
    BY <2>1 DEF TypeOK
  <2>3. /\ pc' \in [Tasks -> Locations]
        /\ holder' \in Tasks \cup {NoTask}
        /\ \A u \in Tasks : pc'[u] \in {"reading", "answered"} => holder' = u
        /\ \A u \in Tasks : pc'[u] = "answered" => pc[u] = "answered"
    BY <2>1, <2>2, AskMoves
  <2>4. seen' \in [Tasks -> Uses \cup {None}] /\ noted' \in Uses \cup {None}
    BY <2>1 DEF TypeOK
  <2>5. TypeOK'
    BY <2>1, <2>2, <2>3, <2>4 DEF TypeOK
  <2>6. KnownUses'
    BY <2>1 DEF KnownUses, TypeOK, Uses, None
  <2>7. Fetching'
    BY <2>1, <2>3, TasksAssumption DEF Fetching, TypeOK
  <2>8. NoUseMissed'
    BY <2>1 DEF NoUseMissed, TypeOK
  <2> QED
    BY <2>5, <2>6, <2>7, <2>8
<1>5. ASSUME NEW t \in Tasks, Recheck(t)
      PROVE  IInv'
  <2>1. /\ UNCHANGED <<kind, use, refusals, props, noted, held, age, marked, seen, sample,
                       excused>>
        /\ holder = NoTask
        /\ \/ holder' = holder /\ pc' = [pc EXCEPT ![t] = "idle"]
           \/ holder' = t /\ pc' = [pc EXCEPT ![t] = "reading"]
    BY <1>5 DEF Recheck, Goto
  <2>2. TypeOK'
    BY <2>1 DEF TypeOK, Locations
  <2>3. KnownUses' /\ NoUseMissed'
    BY <2>1 DEF KnownUses, NoUseMissed
  <2>4. Fetching'
    BY <2>1, TasksAssumption DEF Fetching, TypeOK
  <2> QED
    BY <2>2, <2>3, <2>4
<1>6. ASSUME NEW t \in Tasks, RecordsAnswered(t) \/ RecordsRefused(t)
      PROVE  IInv'
  <2>1. /\ UNCHANGED <<kind, use, props, noted, records, seen>>
        /\ pc[t] = "reading" /\ pc' = [pc EXCEPT ![t] = "answered"]
        /\ \/ sample' = [sample EXCEPT ![t] = use] /\ UNCHANGED <<excused, refusals>>
           \/ /\ sample' = [sample EXCEPT ![t] = held] /\ excused' = TRUE
              /\ refusals < MaxRefusals /\ refusals' = refusals + 1
    BY <1>6 DEF RecordsAnswered, RecordsRefused, Goto
  <2>2. refusals' \in 0 .. MaxRefusals
    BY <2>1, BoundsAssumption DEF TypeOK
  <2>3. sample' \in [Tasks -> Uses \cup {None}]
    BY <2>1 DEF TypeOK, records
  <2>4. TypeOK'
    BY <2>1, <2>2, <2>3 DEF TypeOK, records, Locations
  <2>5. KnownUses' /\ NoUseMissed'
    BY <2>1 DEF KnownUses, NoUseMissed, records
  <2>6. Fetching'
    BY <2>1 DEF Fetching, TypeOK, records, KnownUses, Uses, None
  <2> QED
    BY <2>4, <2>5, <2>6
<1>7. ASSUME NEW t \in Tasks, RecordsExpired(t) \/ RecordsFail(t)
      PROVE  IInv'
  <2>1. /\ UNCHANGED <<kind, use, props, noted, held, age, marked, seen, sample, excused>>
        /\ pc[t] = "reading" /\ pc' = [pc EXCEPT ![t] = "idle"]
        /\ holder' = NoTask
        /\ \/ refusals' = refusals
           \/ refusals < MaxRefusals /\ refusals' = refusals + 1
    BY <1>7 DEF RecordsExpired, RecordsFail, Goto
  <2>2. refusals' \in 0 .. MaxRefusals
    BY <2>1, BoundsAssumption DEF TypeOK
  <2>3. TypeOK'
    BY <2>1, <2>2 DEF TypeOK, Locations
  <2>4. KnownUses' /\ NoUseMissed'
    BY <2>1 DEF KnownUses, NoUseMissed
  <2>5. Fetching'
    BY <2>1, TasksAssumption DEF Fetching, TypeOK
  <2> QED
    BY <2>3, <2>4, <2>5
<1>8. ASSUME NEW t \in Tasks, Store(t)
      PROVE  IInv'
  <2>1. /\ UNCHANGED <<kind, use, refusals, props, noted, seen, excused>>
        /\ pc[t] = "answered" /\ pc' = [pc EXCEPT ![t] = "idle"]
        /\ held' = sample[t] /\ age' = "young" /\ marked' = FALSE /\ holder' = NoTask
        /\ sample' = [sample EXCEPT ![t] = None]
    BY <1>8 DEF Store, Goto
  <2>2. TypeOK'
    BY <2>1 DEF TypeOK, Locations, Ages
  <2>3. KnownUses'
    BY <2>1 DEF KnownUses
  <2>4. NoUseMissed'
    BY <2>1 DEF NoUseMissed, Fetching
  <2>5. Fetching'
    BY <2>1, TasksAssumption DEF Fetching, TypeOK
  <2> QED
    BY <2>2, <2>3, <2>4, <2>5
<1>9. CASE PropsDiscarded \/ Age
  <2>1. /\ UNCHANGED <<kind, use, refusals, noted, held, marked, holder, task, excused>>
        /\ props' \in {props, None} /\ age' \in Ages
    BY <1>9 DEF PropsDiscarded, Age, records, TypeOK, Ages
  <2>2. TypeOK'
    BY <2>1 DEF TypeOK, task
  <2>3. KnownUses'
    BY <2>1 DEF KnownUses, task, TypeOK, Uses, None
  <2>4. Fetching' /\ NoUseMissed'
    BY <2>1 DEF Fetching, NoUseMissed, task
  <2> QED
    BY <2>2, <2>3, <2>4
<1>10. CASE Used
  <2>1. /\ UNCHANGED <<kind, refusals, props, noted, records, task, excused>>
        /\ use < MaxUses /\ use' = use + 1
    BY <1>10 DEF Used
  <2>2. use' \in Uses /\ use \in Int /\ use <= use'
    BY <2>1, BoundsAssumption DEF TypeOK, Uses
  <2>3. TypeOK'
    BY <2>1, <2>2 DEF TypeOK, task, records
  <2>4. KnownUses'
    BY <2>1, <2>2 DEF KnownUses, task, TypeOK, Uses, None
  <2>5. Fetching' /\ NoUseMissed'
    BY <2>1 DEF Fetching, NoUseMissed, task, records
  <2> QED
    BY <2>3, <2>4, <2>5
<1> QED
  BY <1>1, <1>2, <1>3, <1>4, <1>5, <1>6, <1>7, <1>8, <1>9, <1>10
     DEF Next, Answer, Proceed

(* Every reachable state is one of the typed ones.                         *)
THEOREM TypeCorrect == Spec => []TypeOK
<1>1. IInv => TypeOK
  BY DEF IInv
<1> QED
  BY <1>1, InitInv, StepInv, PTL DEF Spec

(* Unless it is excused, a noted use is in the cache or will be asked for: *)
(* failing reads, and the two tasks crossing each other, lose none.        *)
THEOREM NotedUsesAreRead == Spec => []NoUseMissed
<1>1. IInv => NoUseMissed
  BY DEF IInv
<1> QED
  BY <1>1, InitInv, StepInv, PTL DEF Spec

-----------------------------------------------------------------------------
(* The refinement of SharedCache.                                          *)

(* The records held and those on their way are of uses the machine had,    *)
(* and what is on its way is no older than what is held.                   *)
RecordsInv ==
  /\ held <= use
  /\ \A t \in Tasks :
       pc[t] = "answered" => sample[t] \in Uses /\ held <= sample[t] /\ sample[t] <= use

LEMMA Numbers ==
  ASSUME TypeOK
  PROVE  /\ use \in Nat /\ held \in Int /\ \A t \in Tasks : sample[t] \in Int
         /\ \A u \in Uses : u \in Nat /\ u # None
BY BoundsAssumption DEF TypeOK, Uses, None

LEMMA RecordsStep ==
  ASSUME IInv, RecordsInv, [Next]_vars
  PROVE  RecordsInv'
<1>0. /\ TypeOK /\ pc \in [Tasks -> Locations] /\ sample \in [Tasks -> Uses \cup {None}]
      /\ \A t \in Tasks : pc[t] \in {"reading", "answered"} => holder = t
  BY DEF IInv, TypeOK, Fetching
<1>1. ASSUME UNCHANGED <<use, held, sample>>,
             \A t \in Tasks : pc'[t] = "answered" => pc[t] = "answered"
      PROVE  RecordsInv'
  BY <1>1 DEF RecordsInv
<1>2. ASSUME NEW t \in Tasks, RecordsAnswered(t) \/ RecordsRefused(t)
      PROVE  RecordsInv'
  <2>1. /\ UNCHANGED <<use, held>> /\ pc' = [pc EXCEPT ![t] = "answered"]
        /\ \/ sample' = [sample EXCEPT ![t] = use]
           \/ sample' = [sample EXCEPT ![t] = held] /\ held # None
    BY <1>2 DEF RecordsAnswered, RecordsRefused, Goto, records, Kept
  <2>2. \A u \in Tasks \ {t} : pc'[u] = pc[u] /\ sample'[u] = sample[u]
    BY <1>0, <2>1
  <2>3. sample'[t] \in Uses /\ held <= sample'[t] /\ sample'[t] <= use
    BY <1>0, <2>1, Numbers DEF RecordsInv, TypeOK
  <2> QED
    BY <2>1, <2>2, <2>3 DEF RecordsInv
<1>3. ASSUME NEW t \in Tasks, Store(t)
      PROVE  RecordsInv'
  <2>1. /\ pc[t] = "answered" /\ pc' = [pc EXCEPT ![t] = "idle"] /\ held' = sample[t]
        /\ use' = use
    BY <1>3 DEF Store, Goto
  <2>2. \A u \in Tasks : pc'[u] # "answered"
    BY <1>0, <2>1
  <2> QED
    BY <2>1, <2>2 DEF RecordsInv
<1>4. CASE Used
  <2>1. UNCHANGED <<held, sample, pc>> /\ use' = use + 1
    BY <1>4 DEF Used, records, task
  <2> QED
    BY <1>0, <2>1, Numbers DEF RecordsInv
<1>5. ASSUME NEW t \in Tasks, NEW l \in Locations \ {"answered"}, pc' = [pc EXCEPT ![t] = l],
             UNCHANGED <<use, held, sample>>
      PROVE  RecordsInv'
  BY <1>0, <1>1, <1>5
<1>6. ASSUME NEW t \in Tasks,
             \/ Begin(t) \/ TakeBack(t) \/ PropsAnswered(t) \/ PropsKept(t) \/ PropsFail(t)
             \/ Weighed(t) \/ WeighingFails(t)
      PROVE  RecordsInv'
  BY <1>5, <1>6
  DEF Begin, TakeBack, PropsAnswered, PropsKept, PropsFail, Weighed, WeighingFails, Goto, AfterProps,
      records, Locations
<1>7. ASSUME NEW t \in Tasks, NoteUse(t) \/ Recheck(t) \/ RecordsExpired(t) \/ RecordsFail(t)
      PROVE  RecordsInv'
  BY <1>5, <1>7 DEF NoteUse, Ask, Recheck, RecordsExpired, RecordsFail, Goto, Locations
<1>8. CASE PropsDiscarded \/ Age \/ UNCHANGED vars
  BY <1>1, <1>8 DEF PropsDiscarded, Age, vars, records, task
<1> QED
  BY <1>2, <1>3, <1>4, <1>6, <1>7, <1>8 DEF Next, Answer, Proceed

(* Each step of a read is one of SharedCache or leaves it alone.           *)
LEMMA CacheStep ==
  ASSUME IInv, RecordsInv, [Next]_vars
  PROVE  [Cache!Next]_<<held, InTime, marked, holder, ToStore>>
<1> USE TasksAssumption
<1>0. /\ TypeOK /\ pc \in [Tasks -> Locations] /\ sample \in [Tasks -> Uses \cup {None}]
      /\ marked \in BOOLEAN
      /\ \A t \in Tasks : pc[t] \in {"reading", "answered"} => holder = t
      /\ \A u \in Uses : u \in Nat /\ u # None
  BY Numbers DEF IInv, TypeOK, Fetching
<1>1. ASSUME UNCHANGED <<kind, age>>
      PROVE  InTime' = InTime
  BY <1>1 DEF InTime
<1>2. ASSUME NEW t \in Tasks, pc[t] \notin {"reading", "answered"}, UNCHANGED <<holder, sample>>,
             NEW l \in Locations \ {"answered"}, pc' = [pc EXCEPT ![t] = l]
      PROVE  ToStore' = ToStore
  BY <1>0, <1>2 DEF ToStore
(* The properties, and a mark.                                             *)
<1>3. ASSUME NEW t \in Tasks,
             \/ Begin(t) \/ PropsAnswered(t) \/ PropsKept(t) \/ PropsFail(t)
             \/ Weighed(t) \/ WeighingFails(t) \/ TakeBack(t)
      PROVE  [Cache!Next]_<<held, InTime, marked, holder, ToStore>>
  <2>1. /\ UNCHANGED <<kind, held, age, holder, sample>> /\ marked' \in {marked, TRUE}
        /\ pc[t] \in {"idle", "asking", "weighing"}
        /\ \E l \in {"asking", "weighing", "seen", "idle"} : pc' = [pc EXCEPT ![t] = l]
    BY <1>3 DEF Begin, PropsAnswered, PropsKept, PropsFail, Weighed, WeighingFails, TakeBack, Goto,
                AfterProps, records
  <2>2. ToStore' = ToStore /\ InTime' = InTime
    BY <1>1, <1>2, <2>1 DEF Locations
  <2> QED
    BY <2>1, <2>2 DEF Cache!Next, Cache!Mark
(* The records are asked for, at once or once the lock is free.            *)
<1>4. ASSUME NEW t \in Tasks, NoteUse(t) \/ Recheck(t)
      PROVE  [Cache!Next]_<<held, InTime, marked, holder, ToStore>>
  <2>1. /\ UNCHANGED <<kind, held, age, sample>> /\ marked' \in {marked, TRUE}
        /\ pc[t] \in {"seen", "waiting"}
    BY <1>0, <1>4 DEF NoteUse, Recheck, Goto, Ask
  <2>2. \/ /\ holder = NoTask /\ holder' = t /\ ~Fresh(marked')
           /\ pc' = [pc EXCEPT ![t] = "reading"]
        \/ holder' = holder /\ \E l \in {"idle", "waiting"} : pc' = [pc EXCEPT ![t] = l]
    BY <1>4 DEF NoteUse, Recheck, Goto, Ask
  <2>3. CASE holder' = holder /\ \E l \in {"idle", "waiting"} : pc' = [pc EXCEPT ![t] = l]
    <3>1. ToStore' = ToStore /\ InTime' = InTime
      BY <1>1, <1>2, <2>1, <2>3 DEF Locations
    <3> QED
      BY <2>1, <2>3, <3>1 DEF Cache!Next, Cache!Mark
  <2>4. CASE /\ holder = NoTask /\ holder' = t /\ ~Fresh(marked')
             /\ pc' = [pc EXCEPT ![t] = "reading"]
    <3>1. ToStore = None /\ ToStore' = None /\ InTime' = InTime
      BY <1>0, <1>1, <2>1, <2>4 DEF ToStore
    <3>2. ~Cache!Fresh(marked')
      BY <2>4 DEF Fresh, Cache!Fresh, Cache!None, None
    <3> QED
      BY <2>1, <2>4, <3>1, <3>2 DEF Cache!Next, Cache!Fetch
  <2> QED
    BY <2>2, <2>3, <2>4
<1>5. ASSUME NEW t \in Tasks, RecordsAnswered(t) \/ RecordsRefused(t)
      PROVE  Cache!Next
  <2>1. /\ UNCHANGED <<kind, records>>
        /\ pc[t] = "reading" /\ pc' = [pc EXCEPT ![t] = "answered"]
        /\ \/ sample' = [sample EXCEPT ![t] = use]
           \/ sample' = [sample EXCEPT ![t] = held] /\ held # None
    BY <1>5 DEF RecordsAnswered, RecordsRefused, Goto, Kept
  <2>2. holder = t /\ t # NoTask
    BY <1>0, <2>1
  <2>3. ToStore = None /\ ToStore' = sample'[t]
    BY <1>0, <2>1, <2>2 DEF ToStore, records
  <2>4. sample'[t] \in Nat /\ sample'[t] >= held
    BY <1>0, <2>1, Numbers DEF RecordsInv, TypeOK
  <2>5. InTime' = InTime /\ UNCHANGED <<held, marked, holder>>
    BY <1>1, <2>1 DEF records
  <2> QED
    BY <2>2, <2>3, <2>4, <2>5 DEF Cache!Next, Cache!Answer, Cache!None, None
<1>6. ASSUME NEW t \in Tasks, RecordsExpired(t) \/ RecordsFail(t)
      PROVE  Cache!Next
  <2>1. /\ UNCHANGED <<kind, held, age, marked>> /\ pc[t] = "reading" /\ holder' = NoTask
    BY <1>6 DEF RecordsExpired, RecordsFail, Goto
  <2>2. holder # NoTask /\ ToStore' = None /\ InTime' = InTime
    BY <1>0, <1>1, <2>1 DEF ToStore
  <2> QED
    BY <2>1, <2>2 DEF Cache!Next, Cache!Fail, Cache!None, None
<1>7. ASSUME NEW t \in Tasks, Store(t)
      PROVE  Cache!Next
  <2>1. /\ pc[t] = "answered" /\ held' = sample[t] /\ marked' = FALSE /\ holder' = NoTask
    BY <1>7 DEF Store, Goto
  <2>2. holder = t /\ t # NoTask /\ sample[t] \in Uses
    BY <1>0, <2>1 DEF RecordsInv
  <2>3. ToStore = sample[t] /\ ToStore' = None /\ InTime' \in BOOLEAN
    BY <2>1, <2>2 DEF ToStore, InTime
  <2> QED
    BY <1>0, <2>1, <2>2, <2>3 DEF Cache!Next, Cache!Store, Cache!None, None
<1>8. CASE Age
  <2>1. UNCHANGED <<kind, held, marked, holder, ToStore>> /\ age' # "young"
    BY <1>8 DEF Age, task, ToStore
  <2>2. InTime' = InTime \/ InTime' = FALSE
    BY <2>1 DEF InTime
  <2> QED
    BY <2>1, <2>2 DEF Cache!Next, Cache!Age
<1>9. CASE PropsDiscarded \/ Used \/ UNCHANGED vars
  <2>1. UNCHANGED <<held, InTime, marked, holder, ToStore>>
    BY <1>9 DEF PropsDiscarded, Used, vars, records, task, InTime, ToStore
  <2> QED
    BY <2>1
<1> QED
  BY <1>3, <1>4, <1>5, <1>6, <1>7, <1>8, <1>9 DEF Next, Answer, Proceed

(* The records of a device, read by scans and presses that cross, are kept *)
(* as a SharedCache keeps its value.                                       *)
THEOREM RecordsFollowCache == Spec => FollowsCache
<1>1. Init => RecordsInv /\ Cache!Init
  <2> SUFFICES ASSUME Init PROVE RecordsInv /\ Cache!Init
    OBVIOUS
  <2>1. /\ use \in Uses /\ held = None /\ marked = FALSE /\ holder = NoTask
        /\ pc = [t \in Tasks |-> "idle"]
    BY DEF Init
  <2>2. RecordsInv
    BY <2>1, BoundsAssumption DEF RecordsInv, Uses, None
  <2>3. Cache!Init
    BY <2>1 DEF Cache!Init, Cache!None, None, ToStore, InTime
  <2> QED
    BY <2>2, <2>3
<1>2. IInv /\ RecordsInv /\ [Next]_vars => RecordsInv'
  BY RecordsStep
<1>3. IInv /\ RecordsInv /\ [Next]_vars => [Cache!Next]_<<held, InTime, marked, holder, ToStore>>
  BY CacheStep
<1> QED
  BY <1>1, <1>2, <1>3, InitInv, StepInv, PTL DEF Spec, FollowsCache, Cache!Spec
=============================================================================
