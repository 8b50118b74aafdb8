--------------------------- MODULE DeviceWritesProofs ---------------------------
(***************************************************************************)
(* Proofs about DeviceWrites, for any presses, updates, fields and bounds. *)
(***************************************************************************)
EXTENDS DeviceWrites, FiniteSetTheorems, FunctionTheorems, TLAPS

(* The presses under way, which bound the bumps to come.                   *)
Active == {q \in Presses : pc[q] # "idle"}

(* What a task holds where it waits.                                       *)
Working ==
  /\ \A t \in Tasks : pc[t] = "read" => fresh[t] \in Configs
  /\ \A p \in Presses :
       pc[p] # "idle" => value[p] \in Configs /\ wanted[p] \in Values
  /\ bumps + Cardinality(Active) <= MaxBumps

IInv == TypeOK /\ Working

-----------------------------------------------------------------------------
(* There is a snapshot that no press holds: presses are fewer.             *)
LEMMA FreeIsFree ==
  ASSUME snap \in [Presses -> SnapIds \cup {NoSnap}]
  PROVE  Free \in SnapIds /\ Free \notin Held
<1>1. snap \in Surjection(Presses, Held)
  BY DEF Surjection, Held
<1>2. IsFiniteSet(Held) /\ Cardinality(Held) <= Cardinality(Presses)
  BY <1>1, FS_Surjection, TasksAssumption
<1>3. Cardinality(Presses) \in Nat /\ Cardinality(Held) \in Nat
  BY <1>2, FS_CardinalityType, TasksAssumption
<1>4. Cardinality(SnapIds) = Cardinality(Presses) + 1
  <2>1. 1 \in Int /\ Cardinality(Presses) + 1 \in Int
    BY <1>3
  <2>2. Cardinality(1 .. Cardinality(Presses) + 1) = Cardinality(Presses) + 1
    BY <1>3, <2>1, FS_Interval
  <2> QED
    BY <2>2 DEF SnapIds
<1>5. \E i \in SnapIds : i \notin Held
  <2>1. ASSUME SnapIds \subseteq Held
        PROVE  FALSE
    <3>1. Cardinality(SnapIds) <= Cardinality(Held)
      BY <1>2, <2>1, FS_Subset
    <3> QED
      BY <1>2, <1>3, <1>4, <3>1
  <2> QED
    BY <2>1
<1> QED
  BY <1>5 DEF Free

(* A press that begins makes one more active, one that ends one less.      *)
LEMMA ActiveChanges ==
  ASSUME NEW A \in SUBSET Presses, NEW p \in Presses
  PROVE  /\ Cardinality(A) \in Nat
         /\ p \notin A => Cardinality(A \cup {p}) = Cardinality(A) + 1
         /\ p \in A => Cardinality(A \ {p}) + 1 = Cardinality(A)
<1>1. IsFiniteSet(A)
  BY FS_Subset, TasksAssumption
<1>2. Cardinality(A) \in Nat
  BY <1>1, FS_CardinalityType
<1>3. Cardinality(A \cup {p}) = IF p \in A THEN Cardinality(A) ELSE Cardinality(A) + 1
  BY <1>1, FS_AddElement
<1>4. Cardinality(A \ {p}) = IF p \in A THEN Cardinality(A) - 1 ELSE Cardinality(A)
  BY <1>1, FS_RemoveElement
<1> QED
  BY <1>2, <1>3, <1>4

(* A task that goes on where it is no press, or where it neither begins    *)
(* nor ends, leaves the active presses as they were.                       *)
LEMMA ActiveStays ==
  ASSUME IInv, NEW t \in Tasks, NEW to, pc' = [pc EXCEPT ![t] = to],
         t \in Updates \/ (pc[t] # "idle" /\ to # "idle")
  PROVE  Active' = Active
<1>1. pc \in [Tasks -> Locations]
  BY DEF IInv, TypeOK
<1>2. \A q \in Presses : q \in Tasks /\ (t \in Updates => q # t)
  BY TasksAssumption DEF Tasks
<1>3. \A q \in Presses : pc'[q] # "idle" <=> pc[q] # "idle"
  BY <1>1, <1>2
<1> QED
  BY <1>3 DEF Active

(* Initially no press is under way.                                        *)
LEMMA InitIInv == Init => IInv
<1> SUFFICES ASSUME Init
             PROVE  IInv
  OBVIOUS
<1>1. /\ machine \in Configs /\ sets = 0 /\ cached = machine
      /\ snaps = [i \in SnapIds |-> IF i = 1 THEN machine ELSE Nothing]
      /\ data = 1 /\ success = TRUE /\ stamp = [props |-> machine, bump |-> 0]
      /\ bumps = 0 /\ entity = [state |-> machine, stamp |-> stamp]
      /\ mover = Scan /\ ahead = FALSE /\ sound = TRUE
  BY DEF Init
<1>2. /\ pc = [t \in Tasks |-> "idle"] /\ fresh = [t \in Tasks |-> Nothing]
      /\ wanted = [p \in Presses |-> Nothing] /\ value = [p \in Presses |-> Nothing]
      /\ snap = [p \in Presses |-> NoSnap] /\ alone = [p \in Presses |-> TRUE]
  BY DEF Init
<1>3. 1 \in SnapIds
  BY FS_CardinalityType, TasksAssumption DEF SnapIds
<1>4. /\ snaps \in [SnapIds -> Configs \cup {Nothing}]
      /\ data \in SnapIds \cup {NoSnap}
      /\ \A i \in {data} \cup Held : i = NoSnap \/ snaps[i] \in Configs
  BY <1>1, <1>2, <1>3 DEF Held
<1>5. stamp \in Stamps /\ bumps \in 0 .. MaxBumps /\ sets \in 0 .. MaxSets
  BY <1>1, BoundsAssumption DEF Stamps
<1>6. entity \in [state : Configs \cup {Nothing}, stamp : Stamps \cup {Nothing}]
  BY <1>1, <1>5
<1>7. /\ pc \in [Tasks -> Locations]
      /\ fresh \in [Tasks -> Configs \cup {Nothing}]
      /\ wanted \in [Presses -> Values \cup {Nothing}]
      /\ value \in [Presses -> Configs \cup {Nothing}]
      /\ snap \in [Presses -> SnapIds \cup {NoSnap}]
      /\ alone \in [Presses -> BOOLEAN]
  BY <1>2 DEF Locations
<1>8. mover \in Updates /\ ahead \in BOOLEAN /\ sound \in BOOLEAN /\ success \in BOOLEAN
  BY <1>1 DEF Updates
<1>9. TypeOK
  BY <1>1, <1>4, <1>5, <1>6, <1>7, <1>8 DEF TypeOK
<1>10. Active = {}
  BY <1>2 DEF Active, Tasks
<1>11. Working
  <2>1. Cardinality(Active) = 0
    BY <1>10, FS_EmptySet
  <2>2. bumps + Cardinality(Active) <= MaxBumps
    BY <1>1, <2>1, BoundsAssumption
  <2> QED
    BY <1>2, <2>2 DEF Working, Tasks
<1> QED
  BY <1>9, <1>11 DEF IInv

(* A press that returns drops what it held; the snapshots still held stay. *)
LEMMA ReturnKeepsTypes ==
  ASSUME TypeOK, NEW p \in Presses, NEW held \in [SnapIds -> Configs \cup {Nothing}],
         \A i \in {data} \cup Held : i = NoSnap \/ held[i] \in Configs,
         Return(p, held), data' = data
  PROVE  /\ wanted' \in [Presses -> Values \cup {Nothing}]
         /\ value' \in [Presses -> Configs \cup {Nothing}]
         /\ snap' \in [Presses -> SnapIds \cup {NoSnap}]
         /\ fresh' \in [Tasks -> Configs \cup {Nothing}]
         /\ snaps' \in [SnapIds -> Configs \cup {Nothing}]
         /\ \A i \in {data'} \cup Held' : i = NoSnap \/ snaps'[i] \in Configs
         /\ \A i \in SnapIds \cap ({data'} \cup Held') : snaps'[i] = held[i]
         /\ Held' \subseteq Held \cup {NoSnap}
<1>1. /\ wanted \in [Presses -> Values \cup {Nothing}]
      /\ value \in [Presses -> Configs \cup {Nothing}]
      /\ snap \in [Presses -> SnapIds \cup {NoSnap}]
      /\ fresh \in [Tasks -> Configs \cup {Nothing}]
      /\ data \in SnapIds \cup {NoSnap}
  BY DEF TypeOK
<1>2. /\ wanted' = [wanted EXCEPT ![p] = Nothing]
      /\ value' = [value EXCEPT ![p] = Nothing]
      /\ snap' = [snap EXCEPT ![p] = NoSnap]
      /\ fresh' = [fresh EXCEPT ![p] = Nothing]
      /\ snaps' = [i \in SnapIds |-> IF i = data \/ \E q \in Presses : snap'[q] = i
                                     THEN held[i] ELSE Nothing]
  BY DEF Return
<1>3. /\ wanted' \in [Presses -> Values \cup {Nothing}]
      /\ value' \in [Presses -> Configs \cup {Nothing}]
      /\ snap' \in [Presses -> SnapIds \cup {NoSnap}]
      /\ fresh' \in [Tasks -> Configs \cup {Nothing}]
  BY <1>1, <1>2
<1>4. snaps' \in [SnapIds -> Configs \cup {Nothing}]
  BY <1>2
<1>5. Held' \subseteq Held \cup {NoSnap}
  BY <1>1, <1>2 DEF Held
<1>6. \A i \in SnapIds \cap ({data'} \cup Held') : snaps'[i] = held[i]
  BY <1>2 DEF Held
<1>7. {data'} \cup Held' \subseteq SnapIds \cup {NoSnap}
  BY <1>1, <1>3 DEF Held
<1>8. \A i \in {data'} \cup Held' : i = NoSnap \/ snaps'[i] \in Configs
  BY <1>5, <1>6, <1>7
<1> QED
  BY <1>3, <1>4, <1>5, <1>6, <1>8

(* When a press ends, what the others wait for stays and a bump is spent.  *)
LEMMA ReturnKeepsWorking ==
  ASSUME IInv, NEW p \in Presses, NEW held, Return(p, held), pc[p] # "idle",
         pc' = [pc EXCEPT ![p] = "idle"], bumps' \in {bumps, bumps + 1}
  PROVE  Working' /\ bumps' \in 0 .. MaxBumps
<1>1. /\ pc \in [Tasks -> Locations] /\ bumps \in Nat
      /\ wanted \in [Presses -> Values \cup {Nothing}]
      /\ value \in [Presses -> Configs \cup {Nothing}]
      /\ fresh \in [Tasks -> Configs \cup {Nothing}]
  BY BoundsAssumption DEF IInv, TypeOK
<1>2. /\ wanted' = [wanted EXCEPT ![p] = Nothing]
      /\ value' = [value EXCEPT ![p] = Nothing]
      /\ fresh' = [fresh EXCEPT ![p] = Nothing]
  BY DEF Return
<1>3. Presses \subseteq Tasks
  BY DEF Tasks
<1>4. \A t \in Tasks : pc'[t] = "read" => fresh'[t] \in Configs
  BY <1>1, <1>2, <1>3 DEF IInv, Working
<1>5. \A q \in Presses : pc'[q] # "idle" => value'[q] \in Configs /\ wanted'[q] \in Values
  BY <1>1, <1>2, <1>3 DEF IInv, Working
<1>6. Active' = Active \ {p} /\ p \in Active /\ Active \in SUBSET Presses
  BY <1>1, <1>3 DEF Active
<1>7. Cardinality(Active) \in Nat /\ Cardinality(Active') + 1 = Cardinality(Active)
  BY <1>6, ActiveChanges
<1>8. Cardinality(Active') \in Nat
  BY <1>6, ActiveChanges
<1>9. bumps + Cardinality(Active) <= MaxBumps
  BY DEF IInv, Working
<1>10. bumps' + Cardinality(Active') <= MaxBumps /\ bumps' \in 0 .. MaxBumps
  BY <1>1, <1>7, <1>8, <1>9, BoundsAssumption
<1> QED
  BY <1>4, <1>5, <1>10 DEF Working

(* What an entity reports is a model or nothing, with the stamp it saw.    *)
LEMMA PushKeepsTypes ==
  ASSUME TypeOK, NEW all \in [SnapIds -> Configs \cup {Nothing}],
         NEW id \in SnapIds \cup {NoSnap}, NEW available \in BOOLEAN,
         NEW now \in Stamps, NEW early \in BOOLEAN, Push(all, id, available, now, early)
  PROVE  /\ entity' \in [state : Configs \cup {Nothing}, stamp : Stamps \cup {Nothing}]
         /\ sound' \in BOOLEAN
<1>1. Reported(id, now) \in Stamps \cup {Nothing}
  BY DEF Reported
<1>2. Shown(all, id, available) \in Configs \cup {Nothing}
  BY DEF Shown
<1>3. /\ entity \in [state : Configs \cup {Nothing}, stamp : Stamps \cup {Nothing}]
      /\ sound \in BOOLEAN
  BY DEF TypeOK
<1>4. CASE Skip
  BY <1>3, <1>4 DEF Skip
<1>5. CASE /\ entity' = [state |-> Shown(all, id, available), stamp |-> Reported(id, now)]
           /\ sound' = ~early
  BY <1>1, <1>2, <1>5
<1>6. \/ Skip
      \/ /\ entity' = [state |-> Shown(all, id, available), stamp |-> Reported(id, now)]
         /\ sound' = ~early
  BY DEF Push
<1> QED
  BY <1>4, <1>5, <1>6

(* An action that only moves a task and what the task holds: the model and *)
(* the bumps stay, and no task comes to a read it has no answer for.       *)
LEMMA MovesKeepIInv ==
  ASSUME IInv, NEW t \in Tasks, NEW to \in Locations,
         pc' = [pc EXCEPT ![t] = to],
         t \in Updates \/ (pc[t] # "idle" /\ to # "idle"),
         UNCHANGED <<model, sets, wanted, alone>>,
         machine' \in Configs,
         cached' \in Configs \cup {Nothing},
         fresh' \in [Tasks -> Configs \cup {Nothing}],
         \A x \in Tasks : x # t => fresh'[x] = fresh[x],
         to = "read" => fresh'[t] \in Configs,
         value' \in [Presses -> Configs \cup {Nothing}],
         \A p \in Presses : pc'[p] # "idle" => value'[p] \in Configs,
         snap' \in [Presses -> SnapIds \cup {NoSnap}],
         Held' \subseteq Held \cup {data}
  PROVE  IInv'
<1>1. pc \in [Tasks -> Locations]
  BY DEF IInv, TypeOK
<1>2. /\ UNCHANGED <<snaps, data, success, stamp, bumps, mover, ahead>>
      /\ UNCHANGED <<entity, sound, sets, wanted, alone>>
  BY DEF model, shown
<1>3. pc' \in [Tasks -> Locations]
  BY <1>1
<1>4. \A i \in {data'} \cup Held' : i = NoSnap \/ snaps'[i] \in Configs
  <2>1. \A i \in {data} \cup Held : i = NoSnap \/ snaps[i] \in Configs
    BY DEF IInv, TypeOK
  <2> QED
    BY <1>2, <2>1
<1>5. TypeOK'
  <2>1. TypeOK
    BY DEF IInv
  <2> QED
    BY <1>2, <1>3, <1>4, <2>1 DEF TypeOK
<1>6. Active' = Active
  BY ActiveStays
<1>7. \A x \in Tasks : pc'[x] = "read" => fresh'[x] \in Configs
  BY <1>1 DEF IInv, Working
<1>8. \A p \in Presses : pc'[p] # "idle" => value'[p] \in Configs /\ wanted'[p] \in Values
  <2>1. \A p \in Presses : p \in Tasks /\ (pc'[p] # "idle" => pc[p] # "idle")
    BY <1>1, TasksAssumption DEF Tasks
  <2> QED
    BY <1>2, <2>1 DEF IInv, Working
<1>9. bumps' + Cardinality(Active') <= MaxBumps
  BY <1>2, <1>6 DEF IInv, Working
<1>10. Working'
  BY <1>7, <1>8, <1>9 DEF Working
<1> QED
  BY <1>5, <1>10 DEF IInv

(* The value of a config with one field changed is a config.               *)
LEMMA ChangedConfig ==
  ASSUME NEW c \in Configs, NEW f \in Fields, NEW v \in Values
  PROVE  [c EXCEPT ![f] = v] \in Configs
BY DEF Configs

(* Each thing a press does keeps the invariant.                            *)
LEMMA PressKeepsIInv ==
  ASSUME IInv, NEW p \in Presses,
         (\E v \in Values : Press(p, v)) \/ ProceedPress(p)
  PROVE  IInv'
<1> p \in Tasks
  BY DEF Tasks
<1>1. /\ TypeOK /\ pc \in [Tasks -> Locations]
      /\ snaps \in [SnapIds -> Configs \cup {Nothing}]
      /\ snap \in [Presses -> SnapIds \cup {NoSnap}]
      /\ value \in [Presses -> Configs \cup {Nothing}]
      /\ wanted \in [Presses -> Values \cup {Nothing}]
      /\ fresh \in [Tasks -> Configs \cup {Nothing}]
      /\ alone \in [Presses -> BOOLEAN]
      /\ data \in SnapIds \cup {NoSnap}
      /\ machine \in Configs /\ cached \in Configs \cup {Nothing}
      /\ bumps \in Nat /\ stamp \in Stamps /\ success \in BOOLEAN /\ ahead \in BOOLEAN
  BY BoundsAssumption DEF IInv, TypeOK
<1>2. \A i \in {data} \cup Held : i = NoSnap \/ snaps[i] \in Configs
  BY <1>1 DEF TypeOK
<1>3. \A q \in Presses : pc[q] # "idle" => value[q] \in Configs /\ wanted[q] \in Values
  BY DEF IInv, Working
<1>4. ASSUME NEW v \in Values, Press(p, v)
      PROVE  IInv'
  <2>1. /\ pc[p] = "idle" /\ pc' = [pc EXCEPT ![p] = "client"]
        /\ data # NoSnap
        /\ bumps + Cardinality(Active) < MaxBumps
        /\ wanted' = [wanted EXCEPT ![p] = v]
        /\ value' = [value EXCEPT ![p] = [snaps[data] EXCEPT ![Own[p]] = v]]
        /\ UNCHANGED <<machine, sets, cached, fresh, snap, alone>>
        /\ UNCHANGED <<snaps, data, success, stamp, bumps, mover, ahead, entity, sound>>
    BY <1>4 DEF Press, At, Active, model, shown
  <2>2. Own[p] \in Fields /\ snaps[data] \in Configs
    BY <1>2, <2>1, OwnAssumption
  <2>3. [snaps[data] EXCEPT ![Own[p]] = v] \in Configs
    BY <2>2, ChangedConfig
  <2>4. /\ pc' \in [Tasks -> Locations]
        /\ wanted' \in [Presses -> Values \cup {Nothing}]
        /\ value' \in [Presses -> Configs \cup {Nothing}]
    BY <1>1, <2>1, <2>3 DEF Locations
  <2>5. Held' = Held
    BY <2>1 DEF Held
  <2>6. TypeOK'
    BY <1>1, <2>1, <2>4, <2>5 DEF TypeOK
  <2>7. \A t \in Tasks : pc'[t] = "read" => fresh'[t] \in Configs
    BY <1>1, <2>1 DEF IInv, Working
  <2>8. \A q \in Presses : pc'[q] # "idle" => value'[q] \in Configs /\ wanted'[q] \in Values
    <3>1. value'[p] \in Configs /\ wanted'[p] \in Values
      BY <1>1, <2>1, <2>3
    <3>2. \A q \in Presses : q # p => value'[q] = value[q] /\ wanted'[q] = wanted[q]
                                    /\ pc'[q] = pc[q]
      BY <1>1, <2>1 DEF Tasks
    <3> QED
      BY <1>3, <3>1, <3>2
  <2>9. Active' = Active \cup {p} /\ p \notin Active /\ Active \in SUBSET Presses
    BY <1>1, <2>1 DEF Active, Tasks
  <2>10. Cardinality(Active') = Cardinality(Active) + 1 /\ Cardinality(Active) \in Nat
    BY <2>9, ActiveChanges
  <2>11. bumps' + Cardinality(Active') <= MaxBumps
    BY <1>1, <2>1, <2>10, BoundsAssumption
  <2> QED
    BY <2>6, <2>7, <2>8, <2>11 DEF IInv, Working
<1>5. CASE TakeSnap(p)
  <2>1. /\ pc[p] = "client" /\ pc' = [pc EXCEPT ![p] = "reading"]
        /\ snap' = [snap EXCEPT ![p] = data]
        /\ UNCHANGED <<model, machine, sets, cached, fresh, wanted, value, alone>>
    BY <1>5 DEF TakeSnap, At
  <2>2. snap' \in [Presses -> SnapIds \cup {NoSnap}] /\ Held' \subseteq Held \cup {data}
    BY <1>1, <2>1 DEF Held
  <2>3. \A q \in Presses : pc'[q] # "idle" => value'[q] \in Configs
    BY <1>1, <1>3, <2>1 DEF Tasks
  <2>4. "reading" \in Locations
    BY DEF Locations
  <2> QED
    BY <1>1, <2>1, <2>2, <2>3, <2>4, MovesKeepIInv
<1>6. CASE Send(p)
  <2>1. /\ pc[p] = "read" /\ pc' = [pc EXCEPT ![p] = "writing"]
        /\ value' = [value EXCEPT ![p] = Merged(p)]
        /\ UNCHANGED <<model, machine, sets, cached, fresh, wanted, snap, alone>>
    BY <1>6 DEF Send, At
  <2>2. fresh[p] \in Configs /\ value[p] \in Configs
    BY <1>3, <2>1 DEF IInv, Working
  <2>3. Merged(p) \in Configs
    BY <2>2 DEF Merged, Configs
  <2>4. value' \in [Presses -> Configs \cup {Nothing}]
    BY <1>1, <2>1, <2>3
  <2>5. \A q \in Presses : pc'[q] # "idle" => value'[q] \in Configs
    BY <1>1, <1>3, <2>1, <2>3 DEF Tasks
  <2>6. Held' \subseteq Held \cup {data} /\ "writing" \in Locations
    BY <2>1 DEF Held, Locations
  <2> QED
    BY <1>1, <2>1, <2>4, <2>5, <2>6, MovesKeepIInv
<1>7. CASE Written(p)
  <2>1. /\ pc[p] = "writing" /\ pc' = [pc EXCEPT ![p] = "written"]
        /\ machine' = value[p]
        /\ UNCHANGED <<model, sets, cached, fresh, wanted, value, snap, alone>>
    BY <1>7 DEF Written, At, press
  <2>2. machine' \in Configs
    BY <1>3, <2>1
  <2>3. \A q \in Presses : pc'[q] # "idle" => value'[q] \in Configs
    BY <1>1, <1>3, <2>1 DEF Tasks
  <2>4. Held' \subseteq Held \cup {data} /\ "written" \in Locations
    BY <2>1 DEF Held, Locations
  <2> QED
    BY <1>1, <2>1, <2>2, <2>3, <2>4, MovesKeepIInv
<1>8. CASE PressUnread(p) \/ WriteFails(p) \/ NoteNothing(p)
  <2>1. /\ pc[p] # "idle" /\ pc' = [pc EXCEPT ![p] = "idle"]
        /\ alone' = [alone EXCEPT ![p] = TRUE]
        /\ Return(p, snaps)
        /\ UNCHANGED <<sets, cached, data, success, stamp, bumps, mover, ahead, entity, sound>>
    BY <1>8 DEF PressUnread, WriteFails, NoteNothing, At, shown
  <2>2. machine' \in {machine, value[p]}
    BY <1>8 DEF PressUnread, WriteFails, NoteNothing
  <2>3. machine' \in Configs
    BY <1>1, <1>3, <2>1, <2>2
  <2>4. /\ wanted' \in [Presses -> Values \cup {Nothing}]
        /\ value' \in [Presses -> Configs \cup {Nothing}]
        /\ snap' \in [Presses -> SnapIds \cup {NoSnap}]
        /\ fresh' \in [Tasks -> Configs \cup {Nothing}]
        /\ snaps' \in [SnapIds -> Configs \cup {Nothing}]
        /\ \A i \in {data'} \cup Held' : i = NoSnap \/ snaps'[i] \in Configs
    BY <1>1, <1>2, <2>1, ReturnKeepsTypes
  <2>5. pc' \in [Tasks -> Locations] /\ alone' \in [Presses -> BOOLEAN]
    BY <1>1, <2>1 DEF Locations
  <2>6. TypeOK'
    BY <1>1, <2>1, <2>3, <2>4, <2>5 DEF TypeOK
  <2>7. Working'
    BY <2>1, ReturnKeepsWorking
  <2> QED
    BY <2>6, <2>7 DEF IInv
<1>9. CASE Note(p)
  <2> DEFINE held == [snaps EXCEPT ![snap[p]] = value[p]]
  <2>1. /\ pc[p] = "written" /\ pc' = [pc EXCEPT ![p] = "idle"]
        /\ snap[p] # NoSnap
        /\ Return(p, held)
        /\ bumps' = bumps + 1
        /\ stamp' = [stamp EXCEPT !.bump = bumps + 1]
        /\ success' = TRUE
        /\ Push(snaps', data, success', stamp', ahead)
        /\ alone' = [q \in Presses |-> q = p \/ pc[q] = "idle"]
        /\ UNCHANGED <<machine, sets, cached, data, mover, ahead>>
    BY <1>9 DEF Note, At, Bump
  <2>2. held \in [SnapIds -> Configs \cup {Nothing}]
    BY <1>1, <1>3, <2>1
  <2>3. \A i \in {data} \cup Held : i = NoSnap \/ held[i] \in Configs
    <3>1. {data} \cup Held \subseteq SnapIds \cup {NoSnap} /\ value[p] \in Configs
      BY <1>1, <1>3, <2>1 DEF Held
    <3> QED
      BY <1>1, <1>2, <3>1
  <2>4. /\ wanted' \in [Presses -> Values \cup {Nothing}]
        /\ value' \in [Presses -> Configs \cup {Nothing}]
        /\ snap' \in [Presses -> SnapIds \cup {NoSnap}]
        /\ fresh' \in [Tasks -> Configs \cup {Nothing}]
        /\ snaps' \in [SnapIds -> Configs \cup {Nothing}]
        /\ \A i \in {data'} \cup Held' : i = NoSnap \/ snaps'[i] \in Configs
    <3> HIDE DEF held
    <3> QED
      BY <1>1, <2>1, <2>2, <2>3, ReturnKeepsTypes
  <2>5. Working' /\ bumps' \in 0 .. MaxBumps
    <3> HIDE DEF held
    <3> QED
      BY <2>1, ReturnKeepsWorking
  <2>6. stamp' \in Stamps
    BY <1>1, <2>1, <2>5 DEF Stamps
  <2>7. /\ entity' \in [state : Configs \cup {Nothing}, stamp : Stamps \cup {Nothing}]
        /\ sound' \in BOOLEAN
    <3>1. Push(snaps', data, success', stamp', ahead)
      BY <2>1
    <3>2. snaps' \in [SnapIds -> Configs \cup {Nothing}] /\ success' \in BOOLEAN
      BY <2>1, <2>4
    <3> HIDE DEF held
    <3> QED
      BY <1>1, <2>6, <3>1, <3>2, PushKeepsTypes
  <2>8. pc' \in [Tasks -> Locations] /\ alone' \in [Presses -> BOOLEAN]
    BY <1>1, <2>1 DEF Locations
  <2>9. machine' = machine /\ sets' = sets /\ cached' = cached /\ data' = data
        /\ mover' = mover /\ ahead' = ahead
    BY <2>1
  <2>10. TypeOK'
    BY <1>1, <2>1, <2>4, <2>5, <2>6, <2>7, <2>8, <2>9 DEF TypeOK
  <2> QED
    BY <2>5, <2>10 DEF IInv
<1> QED
  BY <1>4, <1>5, <1>6, <1>7, <1>8, <1>9 DEF ProceedPress

(* An update only changes what updates hold, and no press begins or ends.  *)
LEMMA UpdateKeepsWorking ==
  ASSUME IInv, NEW u \in Updates, NEW to, to # "read",
         pc' = [pc EXCEPT ![u] = to],
         \A t \in Tasks : t # u => fresh'[t] = fresh[t],
         UNCHANGED <<value, wanted, bumps>>
  PROVE  Working'
<1>1. u \in Tasks /\ pc \in [Tasks -> Locations]
  BY DEF IInv, TypeOK, Tasks
<1>2. Active' = Active
  BY <1>1, ActiveStays
<1>3. \A t \in Tasks : pc'[t] = "read" => fresh'[t] \in Configs
  BY <1>1 DEF IInv, Working
<1>4. \A p \in Presses : pc'[p] = pc[p]
  BY <1>1, TasksAssumption DEF Tasks
<1> QED
  BY <1>2, <1>3, <1>4 DEF IInv, Working

(* Each thing an update does keeps the invariant.                          *)
LEMMA UpdateKeepsIInv ==
  ASSUME IInv, NEW u \in Updates, Begin(u) \/ ProceedUpdate(u)
  PROVE  IInv'
<1> u \in Tasks
  BY DEF Tasks
<1>1. /\ TypeOK /\ pc \in [Tasks -> Locations]
      /\ snaps \in [SnapIds -> Configs \cup {Nothing}]
      /\ snap \in [Presses -> SnapIds \cup {NoSnap}]
      /\ value \in [Presses -> Configs \cup {Nothing}]
      /\ fresh \in [Tasks -> Configs \cup {Nothing}]
      /\ data \in SnapIds \cup {NoSnap}
      /\ machine \in Configs /\ cached \in Configs \cup {Nothing}
      /\ stamp \in Stamps /\ success \in BOOLEAN /\ ahead \in BOOLEAN
  BY DEF IInv, TypeOK
<1>2. \A i \in {data} \cup Held : i = NoSnap \/ snaps[i] \in Configs
  BY <1>1 DEF TypeOK
<1>3. \A q \in Presses : pc[q] # "idle" => value[q] \in Configs
  BY DEF IInv, Working
<1>4. ASSUME NEW to \in {"idle", "reading", "marked"}, pc' = [pc EXCEPT ![u] = to]
      PROVE  /\ pc' \in [Tasks -> Locations]
             /\ \A q \in Presses : pc'[q] = pc[q]
  BY <1>1, <1>4, TasksAssumption DEF Locations, Tasks
<1>5. CASE Begin(u) \/ UpdateUnread(u) \/ UpdateAgain(u)
  <2>1. PICK to \in {"reading", "marked"} : pc' = [pc EXCEPT ![u] = to]
    BY <1>5 DEF Begin, UpdateUnread, UpdateAgain, At
  <2>2. /\ UNCHANGED <<model, machine, sets, cached, wanted, value, snap, alone>>
        /\ fresh' \in {fresh, [fresh EXCEPT ![u] = Nothing]}
    BY <1>5 DEF Begin, UpdateUnread, UpdateAgain, press
  <2>3. /\ fresh' \in [Tasks -> Configs \cup {Nothing}]
        /\ \A t \in Tasks : t # u => fresh'[t] = fresh[t]
    BY <1>1, <2>2
  <2>4. Held' \subseteq Held \cup {data} /\ to \in Locations /\ to # "read"
    BY <2>2 DEF Held, Locations
  <2>5. \A q \in Presses : pc'[q] # "idle" => value'[q] \in Configs
    BY <1>3, <1>4, <2>1, <2>2
  <2> QED
    BY <1>1, <2>1, <2>2, <2>3, <2>4, <2>5, MovesKeepIInv
<1>6. CASE Mark(u)
  <2>1. /\ pc[u] = "read" /\ pc' = [pc EXCEPT ![u] = "marked"]
        /\ stamp' = [props |-> fresh[u], bump |-> 0]
        /\ mover' = u /\ ahead' = TRUE
        /\ UNCHANGED <<machine, sets, cached, snaps, data, success, bumps, entity, sound>>
        /\ UNCHANGED <<fresh, wanted, value, snap, alone>>
    BY <1>6 DEF Mark, At, press
  <2>2. stamp' \in Stamps
    <3>1. fresh[u] \in Configs
      BY <2>1 DEF IInv, Working
    <3> QED
      BY <2>1, <3>1, BoundsAssumption DEF Stamps
  <2>3. Held' = Held
    BY <2>1 DEF Held
  <2>4. pc' \in [Tasks -> Locations]
    BY <1>4, <2>1
  <2>5. TypeOK'
    BY <1>1, <2>1, <2>2, <2>3, <2>4 DEF TypeOK
  <2>6. Working'
    BY <2>1, UpdateKeepsWorking
  <2> QED
    BY <2>5, <2>6 DEF IInv
<1>7. CASE Finish(u)
  <2>1. /\ pc[u] = "marked" /\ pc' = [pc EXCEPT ![u] = "idle"]
        /\ data' = Replacement(u)
        /\ snaps' = [i \in SnapIds |-> IF i \in Held THEN snaps[i]
                                       ELSE IF i = data' THEN fresh[u] ELSE Nothing]
        /\ success' = TRUE
        /\ ahead' = (ahead /\ mover # u)
        /\ Push(snaps', data', success', stamp, ahead')
        /\ alone' = [p \in Presses |-> pc[p] = "idle"]
        /\ fresh' = [fresh EXCEPT ![u] = Nothing]
        /\ UNCHANGED <<machine, sets, cached, stamp, bumps, mover, wanted, value, snap>>
    BY <1>7 DEF Finish, At
  <2>2. Free \in SnapIds /\ Free \notin Held
    BY <1>1, FreeIsFree
  <2>3. /\ data' \in SnapIds \cup {NoSnap}
        /\ data' # NoSnap => data' = Free /\ fresh[u] \in Configs
    BY <1>1, <2>1, <2>2 DEF Replacement
  <2>4. Held' = Held /\ Held \subseteq SnapIds \cup {NoSnap}
    BY <1>1, <2>1 DEF Held
  <2>5. snaps' \in [SnapIds -> Configs \cup {Nothing}]
    BY <1>1, <2>1
  <2>6. \A i \in {data'} \cup Held' : i = NoSnap \/ snaps'[i] \in Configs
    <3>1. data' # NoSnap => snaps'[data'] \in Configs
      BY <2>1, <2>2, <2>3
    <3>2. \A i \in Held : i = NoSnap \/ snaps'[i] \in Configs
      BY <1>2, <2>1, <2>4
    <3> QED
      BY <2>4, <3>1, <3>2
  <2>7. ahead' \in BOOLEAN /\ success' \in BOOLEAN
    BY <2>1
  <2>8. /\ entity' \in [state : Configs \cup {Nothing}, stamp : Stamps \cup {Nothing}]
        /\ sound' \in BOOLEAN
    <3>1. Push(snaps', data', success', stamp, ahead')
      BY <2>1
    <3> QED
      BY <1>1, <2>3, <2>5, <2>7, <3>1, PushKeepsTypes
  <2>9. /\ pc' \in [Tasks -> Locations]
        /\ alone' \in [Presses -> BOOLEAN]
        /\ fresh' \in [Tasks -> Configs \cup {Nothing}]
    BY <1>1, <1>4, <2>1
  <2>10. TypeOK'
    BY <1>1, <2>1, <2>3, <2>5, <2>6, <2>7, <2>8, <2>9 DEF TypeOK
  <2>11. Working'
    BY <1>1, <2>1, UpdateKeepsWorking
  <2> QED
    BY <2>10, <2>11 DEF IInv
<1>8. CASE UpdateFails(u)
  <2>1. /\ pc' = [pc EXCEPT ![u] = "idle"]
        /\ fresh' = [fresh EXCEPT ![u] = Nothing]
        /\ success' = (success /\ u # Scan)
        /\ Skip \/ Push(snaps, data, success', stamp, ahead)
        /\ UNCHANGED <<machine, sets, cached, snaps, data, stamp, bumps, mover, ahead>>
        /\ UNCHANGED <<wanted, value, snap, alone>>
    BY <1>8 DEF UpdateFails, At, press
  <2>2. success' \in BOOLEAN
    BY <2>1
  <2>3. /\ entity' \in [state : Configs \cup {Nothing}, stamp : Stamps \cup {Nothing}]
        /\ sound' \in BOOLEAN
    <3>1. CASE Skip
      BY <1>1, <3>1 DEF Skip, TypeOK
    <3>2. CASE Push(snaps, data, success', stamp, ahead)
      BY <1>1, <2>2, <3>2, PushKeepsTypes
    <3> QED
      BY <2>1, <3>1, <3>2
  <2>4. Held' = Held
    BY <2>1 DEF Held
  <2>5. pc' \in [Tasks -> Locations] /\ fresh' \in [Tasks -> Configs \cup {Nothing}]
    BY <1>1, <1>4, <2>1
  <2>6. TypeOK'
    BY <1>1, <2>1, <2>2, <2>3, <2>4, <2>5 DEF TypeOK
  <2>7. Working'
    BY <1>1, <2>1, UpdateKeepsWorking
  <2> QED
    BY <2>6, <2>7 DEF IInv
<1> QED
  BY <1>5, <1>6, <1>7, <1>8 DEF ProceedUpdate

(* The rest keeps it too: the answers to a read, the app and the cache.    *)
LEMMA StepKeepsIInv == IInv /\ [Next]_vars => IInv'
<1> SUFFICES ASSUME IInv, [Next]_vars
             PROVE  IInv'
  OBVIOUS
<1>1. /\ TypeOK /\ pc \in [Tasks -> Locations]
      /\ snap \in [Presses -> SnapIds \cup {NoSnap}]
      /\ value \in [Presses -> Configs \cup {Nothing}]
      /\ fresh \in [Tasks -> Configs \cup {Nothing}]
      /\ machine \in Configs /\ cached \in Configs \cup {Nothing}
  BY DEF IInv, TypeOK
<1>2. Presses \subseteq Tasks
  BY DEF Tasks
<1>3. ASSUME NEW t \in Tasks, Read(t) \/ ReadKept(t)
      PROVE  IInv'
  <2>1. PICK answer \in Configs : fresh' = [fresh EXCEPT ![t] = answer]
    BY <1>1, <1>3 DEF Read, ReadKept
  <2>2. /\ pc[t] = "reading" /\ pc' = [pc EXCEPT ![t] = "read"]
        /\ UNCHANGED <<model, machine, sets, wanted, value, snap, alone>>
    BY <1>3 DEF Read, ReadKept, At, press
  <2>3. cached' \in Configs \cup {Nothing}
    BY <1>1, <1>3 DEF Read, ReadKept
  <2>4. /\ fresh' \in [Tasks -> Configs \cup {Nothing}]
        /\ \A x \in Tasks : x # t => fresh'[x] = fresh[x]
        /\ fresh'[t] \in Configs
    BY <1>1, <2>1
  <2>5. Held' \subseteq Held \cup {data} /\ "read" \in Locations
    BY <2>2 DEF Held, Locations
  <2>6. \A q \in Presses : pc'[q] # "idle" => value'[q] \in Configs
    BY <1>1, <1>2, <2>2 DEF IInv, Working
  <2> QED
    BY <1>1, <2>2, <2>3, <2>4, <2>5, <2>6, MovesKeepIInv
<1>4. ASSUME /\ UNCHANGED <<model, pc, fresh, press>>
             /\ machine' \in Configs /\ cached' \in Configs \cup {Nothing}
             /\ sets' \in 0 .. MaxSets
      PROVE  IInv'
  <2>1. /\ UNCHANGED <<snaps, data, success, stamp, bumps, mover, ahead, entity, sound>>
        /\ UNCHANGED <<pc, fresh, wanted, value, snap, alone>>
    BY <1>4 DEF model, shown, press
  <2>2. Held' = Held /\ Active' = Active
    BY <2>1 DEF Held, Active
  <2>3. TypeOK'
    BY <1>1, <1>4, <2>1, <2>2 DEF TypeOK
  <2>4. Working'
    BY <2>1, <2>2 DEF IInv, Working
  <2> QED
    BY <2>3, <2>4 DEF IInv
<1>5. ASSUME NEW f \in Fields, NEW v \in Values, AppSets(f, v)
      PROVE  IInv'
  <2>1. machine' \in Configs
    BY <1>1, <1>5, ChangedConfig DEF AppSets
  <2>2. sets' \in 0 .. MaxSets
    BY <1>1, <1>5, BoundsAssumption DEF AppSets, TypeOK
  <2> QED
    BY <1>1, <1>4, <1>5, <2>1, <2>2 DEF AppSets
<1>6. CASE Discard
  BY <1>1, <1>4, <1>6 DEF Discard, TypeOK
<1>7. CASE UNCHANGED vars
  BY <1>1, <1>4, <1>7 DEF vars, TypeOK
<1> QED
  BY <1>3, <1>5, <1>6, <1>7, PressKeepsIInv, UpdateKeepsIInv DEF Next

(* TypeOK, of the coordinator's state for one device: in particular every  *)
(* snapshot that is shown or held by a press holds a whole config object,  *)
(* for any number of presses and updates at once.                          *)
THEOREM TypeCorrect == Spec => []TypeOK
<1>1. IInv => TypeOK
  BY DEF IInv
<1> QED
  BY InitIInv, StepKeepsIInv, <1>1, PTL DEF Spec

-----------------------------------------------------------------------------
(* What a press that no other push has disturbed knows at each await: the  *)
(* object it was asked to write is the snapshot with its own field set.    *)
Undisturbed(p) ==
  alone[p] =>
    /\ pc[p] = "client" =>
         /\ data # NoSnap
         /\ value[p] = [snaps[data] EXCEPT ![Own[p]] = wanted[p]]
    /\ pc[p] \in {"reading", "read", "writing"} => snap[p] # NoSnap
    /\ pc[p] \in {"reading", "read"} =>
         value[p] = [snaps[snap[p]] EXCEPT ![Own[p]] = wanted[p]]
    /\ pc[p] = "writing" /\ wanted[p] # snaps[snap[p]][Own[p]] =>
         value[p] = [fresh[p] EXCEPT ![Own[p]] = wanted[p]]

AllUndisturbed == \A p \in Presses : Undisturbed(p)

(* A press keeps what it knows while others leave alone what it holds.     *)
LEMMA OthersKeepUndisturbed ==
  ASSUME NEW p \in Presses, Undisturbed(p), pc'[p] = pc[p],
         pc[p] = "idle" \/
           (alone'[p] =>
              /\ alone[p]
              /\ data' = data /\ snap'[p] = snap[p]
              /\ data # NoSnap => snaps'[data] = snaps[data]
              /\ snap[p] # NoSnap => snaps'[snap[p]] = snaps[snap[p]]),
         value'[p] = value[p] /\ wanted'[p] = wanted[p] /\ fresh'[p] = fresh[p]
  PROVE  Undisturbed(p)'
<1>1. CASE pc[p] = "idle"
  BY <1>1 DEF Undisturbed
<1>2. CASE alone'[p] /\ pc[p] # "idle"
  <2>1. /\ alone[p]
        /\ data' = data /\ snap'[p] = snap[p]
        /\ data # NoSnap => snaps'[data] = snaps[data]
        /\ snap[p] # NoSnap => snaps'[snap[p]] = snaps[snap[p]]
    BY <1>2
  <2>2. pc[p] = "client" =>
           /\ data' # NoSnap
           /\ value'[p] = [snaps'[data'] EXCEPT ![Own[p]] = wanted'[p]]
    BY <1>2, <2>1 DEF Undisturbed
  <2>3. pc[p] \in {"reading", "read", "writing"} =>
          snap'[p] # NoSnap /\ snaps'[snap'[p]] = snaps[snap[p]]
    BY <1>2, <2>1 DEF Undisturbed
  <2>4. pc[p] \in {"reading", "read"} =>
          value'[p] = [snaps'[snap'[p]] EXCEPT ![Own[p]] = wanted'[p]]
    BY <1>2, <2>1, <2>3 DEF Undisturbed
  <2>5. pc[p] = "writing" /\ wanted'[p] # snaps'[snap'[p]][Own[p]] =>
          value'[p] = [fresh'[p] EXCEPT ![Own[p]] = wanted'[p]]
    BY <1>2, <2>1, <2>3 DEF Undisturbed
  <2> QED
    BY <2>2, <2>3, <2>4, <2>5 DEF Undisturbed
<1>3. CASE ~alone'[p]
  BY <1>3 DEF Undisturbed
<1> QED
  BY <1>1, <1>2, <1>3

(* The merge of an undisturbed press changes the one field of the answer.  *)
LEMMA MergedIsExact ==
  ASSUME NEW p \in Presses, snap[p] # NoSnap, fresh[p] \in Configs,
         snaps[snap[p]] \in Configs, wanted[p] \in Values,
         value[p] = [snaps[snap[p]] EXCEPT ![Own[p]] = wanted[p]],
         wanted[p] # snaps[snap[p]][Own[p]]
  PROVE  Merged(p) = [fresh[p] EXCEPT ![Own[p]] = wanted[p]]
<1>1. Own[p] \in Fields
  BY OwnAssumption
<1> DEFINE s == snaps[snap[p]]
           exact == [fresh[p] EXCEPT ![Own[p]] = wanted[p]]
<1>2. exact \in [Fields -> Values]
  BY <1>1, ChangedConfig DEF Configs
<1>3. \A f \in Fields : Merged(p)[f] = exact[f]
  <2> SUFFICES ASSUME NEW f \in Fields
               PROVE  Merged(p)[f] = exact[f]
    OBVIOUS
  <2>1. Merged(p)[f] = IF value[p][f] # s[f] THEN value[p][f] ELSE fresh[p][f]
    BY DEF Merged
  <2>2. CASE f = Own[p]
    BY <1>1, <2>1, <2>2 DEF Configs
  <2>3. CASE f # Own[p]
    BY <1>1, <2>1, <2>3 DEF Configs
  <2> QED
    BY <2>2, <2>3
<1>4. Merged(p) = [f \in Fields |-> Merged(p)[f]]
  BY DEF Merged
<1>5. exact = [f \in Fields |-> exact[f]]
  BY <1>2
<1> HIDE DEF exact
<1>6. Merged(p) = exact
  BY <1>3, <1>4, <1>5
<1> QED
  BY <1>6 DEF exact

(* A press that begins, goes on or ends keeps what it knows itself.        *)
LEMMA OwnStepKeepsUndisturbed ==
  ASSUME IInv, NEW p \in Presses, Undisturbed(p),
         (\E v \in Values : Press(p, v)) \/ ProceedPress(p) \/ Read(p) \/ ReadKept(p)
  PROVE  Undisturbed(p)'
<1> p \in Tasks
  BY DEF Tasks
<1>1. /\ TypeOK /\ pc \in [Tasks -> Locations]
      /\ snap \in [Presses -> SnapIds \cup {NoSnap}]
      /\ value \in [Presses -> Configs \cup {Nothing}]
      /\ wanted \in [Presses -> Values \cup {Nothing}]
      /\ fresh \in [Tasks -> Configs \cup {Nothing}]
      /\ \A i \in {data} \cup Held : i = NoSnap \/ snaps[i] \in Configs
  BY DEF IInv, TypeOK
<1>2. ASSUME NEW v \in Values, Press(p, v)
      PROVE  Undisturbed(p)'
  <2>1. /\ pc' = [pc EXCEPT ![p] = "client"] /\ data # NoSnap
        /\ wanted' = [wanted EXCEPT ![p] = v]
        /\ value' = [value EXCEPT ![p] = [snaps[data] EXCEPT ![Own[p]] = v]]
        /\ snaps' = snaps /\ data' = data
    BY <1>2 DEF Press, At, model, shown
  <2>2. pc'[p] = "client" /\ wanted'[p] = v
        /\ value'[p] = [snaps'[data'] EXCEPT ![Own[p]] = v]
    BY <1>1, <2>1
  <2> QED
    BY <2>1, <2>2 DEF Undisturbed
<1>3. CASE TakeSnap(p)
  <2>1. /\ pc[p] = "client" /\ pc' = [pc EXCEPT ![p] = "reading"]
        /\ snap' = [snap EXCEPT ![p] = data]
        /\ UNCHANGED <<snaps, data, fresh, wanted, value, alone>>
    BY <1>3 DEF TakeSnap, At, model, shown
  <2>2. pc'[p] = "reading" /\ snap'[p] = data
    BY <1>1, <2>1
  <2> QED
    BY <2>1, <2>2 DEF Undisturbed
<1>4. CASE Read(p) \/ ReadKept(p)
  <2>1. /\ pc[p] = "reading" /\ pc' = [pc EXCEPT ![p] = "read"]
        /\ UNCHANGED <<snaps, data, wanted, value, snap, alone>>
    BY <1>4 DEF Read, ReadKept, At, model, shown, press
  <2>2. pc'[p] = "read"
    BY <1>1, <2>1
  <2> QED
    BY <2>1, <2>2 DEF Undisturbed
<1>5. CASE Send(p)
  <2>1. /\ pc[p] = "read" /\ pc' = [pc EXCEPT ![p] = "writing"]
        /\ value' = [value EXCEPT ![p] = Merged(p)]
        /\ UNCHANGED <<snaps, data, fresh, wanted, snap, alone>>
    BY <1>5 DEF Send, At, model, shown
  <2>2. pc'[p] = "writing" /\ value'[p] = Merged(p)
    BY <1>1, <2>1
  <2>3. fresh[p] \in Configs /\ wanted[p] \in Values
    BY <2>1 DEF IInv, Working
  <2>4. ASSUME alone[p]
        PROVE  /\ snap[p] # NoSnap
               /\ wanted[p] # snaps[snap[p]][Own[p]] =>
                    Merged(p) = [fresh[p] EXCEPT ![Own[p]] = wanted[p]]
    <3>1. /\ snap[p] # NoSnap
          /\ value[p] = [snaps[snap[p]] EXCEPT ![Own[p]] = wanted[p]]
      BY <2>1, <2>4 DEF Undisturbed
    <3>2. snaps[snap[p]] \in Configs
      BY <1>1, <3>1 DEF Held
    <3> QED
      BY <2>3, <3>1, <3>2, MergedIsExact
  <2> QED
    BY <2>1, <2>2, <2>4 DEF Undisturbed
<1>6. CASE Written(p) \/ PressUnread(p) \/ WriteFails(p) \/ Note(p) \/ NoteNothing(p)
  <2>1. pc' = [pc EXCEPT ![p] = "written"] \/ pc' = [pc EXCEPT ![p] = "idle"]
    BY <1>6 DEF Written, PressUnread, WriteFails, Note, NoteNothing, At
  <2>2. pc'[p] \in {"written", "idle"}
    BY <1>1, <2>1
  <2> QED
    BY <2>2 DEF Undisturbed
<1> QED
  BY <1>2, <1>3, <1>4, <1>5, <1>6 DEF ProceedPress

(* A press keeps what it knows when another task goes on: a write or an    *)
(* update that touches its snapshot or the model says so in alone.         *)
LEMMA OtherStepKeepsUndisturbed ==
  ASSUME IInv, NEW p \in Presses, Undisturbed(p), NEW t \in Tasks, t # p,
         \/ t \in Presses /\ ((\E v \in Values : Press(t, v)) \/ ProceedPress(t))
         \/ t \in Updates /\ (Begin(t) \/ ProceedUpdate(t))
         \/ Read(t) \/ ReadKept(t)
  PROVE  Undisturbed(p)'
<1> p \in Tasks
  BY DEF Tasks
<1>1. /\ TypeOK /\ pc \in [Tasks -> Locations]
      /\ snap \in [Presses -> SnapIds \cup {NoSnap}]
      /\ value \in [Presses -> Configs \cup {Nothing}]
      /\ wanted \in [Presses -> Values \cup {Nothing}]
      /\ fresh \in [Tasks -> Configs \cup {Nothing}]
      /\ snaps \in [SnapIds -> Configs \cup {Nothing}]
      /\ alone \in [Presses -> BOOLEAN]
      /\ data \in SnapIds \cup {NoSnap}
      /\ \A i \in {data} \cup Held : i = NoSnap \/ snaps[i] \in Configs
  BY DEF IInv, TypeOK
<1>2. ASSUME NEW to, pc' = [pc EXCEPT ![t] = to]
      PROVE  pc'[p] = pc[p]
  BY <1>1, <1>2
<1>3. ASSUME t \in Presses, \E v \in Values : Press(t, v)
      PROVE  Undisturbed(p)'
  <2>1. PICK v \in Values : Press(t, v)
    BY <1>3
  <2>2. /\ pc' = [pc EXCEPT ![t] = "client"]
        /\ wanted' = [wanted EXCEPT ![t] = v]
        /\ value' = [value EXCEPT ![t] = [snaps[data] EXCEPT ![Own[t]] = v]]
        /\ UNCHANGED <<snaps, data, fresh, snap, alone>>
    BY <2>1 DEF Press, At, model, shown
  <2>3. wanted'[p] = wanted[p] /\ value'[p] = value[p] /\ pc'[p] = pc[p]
    BY <1>1, <1>2, <2>2
  <2> QED
    BY <2>2, <2>3, OthersKeepUndisturbed
<1>4. ASSUME t \in Presses, TakeSnap(t) \/ Send(t) \/ Written(t)
      PROVE  Undisturbed(p)'
  <2>1. /\ \E to \in Locations : pc' = [pc EXCEPT ![t] = to]
        /\ snap' \in {snap, [snap EXCEPT ![t] = data]}
        /\ value' \in {value, [value EXCEPT ![t] = Merged(t)]}
        /\ UNCHANGED <<snaps, data, fresh, wanted, alone>>
    BY <1>4 DEF TakeSnap, Send, Written, At, Locations, model, shown, press
  <2>2. pc'[p] = pc[p] /\ snap'[p] = snap[p] /\ value'[p] = value[p]
    BY <1>1, <1>2, <2>1
  <2> QED
    BY <2>1, <2>2, OthersKeepUndisturbed
<1>5. ASSUME t \in Presses, PressUnread(t) \/ WriteFails(t) \/ NoteNothing(t)
      PROVE  Undisturbed(p)'
  <2>1. /\ pc' = [pc EXCEPT ![t] = "idle"]
        /\ alone' = [alone EXCEPT ![t] = TRUE]
        /\ Return(t, snaps)
        /\ data' = data
    BY <1>5 DEF PressUnread, WriteFails, NoteNothing, At, shown
  <2>2. /\ wanted' = [wanted EXCEPT ![t] = Nothing]
        /\ value' = [value EXCEPT ![t] = Nothing]
        /\ snap' = [snap EXCEPT ![t] = NoSnap]
        /\ fresh' = [fresh EXCEPT ![t] = Nothing]
    BY <2>1 DEF Return
  <2>3. /\ wanted'[p] = wanted[p] /\ value'[p] = value[p] /\ snap'[p] = snap[p]
        /\ fresh'[p] = fresh[p] /\ alone'[p] = alone[p] /\ pc'[p] = pc[p]
    BY <1>1, <1>2, <2>1, <2>2
  <2>4. \A i \in SnapIds \cap ({data'} \cup Held') : snaps'[i] = snaps[i]
    BY <1>1, <1>5, <2>1, ReturnKeepsTypes
  <2>5. /\ data # NoSnap => snaps'[data] = snaps[data]
        /\ snap[p] # NoSnap => snaps'[snap[p]] = snaps[snap[p]]
    <3>1. data \in {data'} \cup Held' /\ snap[p] \in {data'} \cup Held'
      BY <2>1, <2>3 DEF Held
    <3>2. snap[p] \in SnapIds \cup {NoSnap}
      BY <1>1
    <3> QED
      BY <1>1, <2>4, <3>1, <3>2
  <2> QED
    BY <2>1, <2>3, <2>5, OthersKeepUndisturbed
<1>6. ASSUME t \in Presses, Note(t)
      PROVE  Undisturbed(p)'
  <2>1. /\ pc' = [pc EXCEPT ![t] = "idle"]
        /\ alone' = [q \in Presses |-> q = t \/ pc[q] = "idle"]
    BY <1>6 DEF Note, At
  <2>2. alone'[p] = (pc[p] = "idle") /\ pc'[p] = pc[p]
    BY <1>2, <2>1
  <2> QED
    BY <2>2 DEF Undisturbed
<1>7. ASSUME t \in Updates, Finish(t)
      PROVE  Undisturbed(p)'
  <2>1. /\ pc' = [pc EXCEPT ![t] = "idle"]
        /\ alone' = [q \in Presses |-> pc[q] = "idle"]
    BY <1>7 DEF Finish, At
  <2>2. alone'[p] = (pc[p] = "idle") /\ pc'[p] = pc[p]
    BY <1>2, <2>1
  <2> QED
    BY <2>2 DEF Undisturbed
<1>8. ASSUME \/ Read(t) \/ ReadKept(t)
             \/ t \in Updates /\ (\/ Begin(t) \/ UpdateUnread(t) \/ Mark(t)
                                  \/ UpdateAgain(t) \/ UpdateFails(t))
      PROVE  Undisturbed(p)'
  <2>1. /\ \E to \in Locations : pc' = [pc EXCEPT ![t] = to]
        /\ UNCHANGED <<snaps, data, wanted, value, snap, alone>>
    BY <1>8 DEF Read, ReadKept, Begin, UpdateUnread, Mark, UpdateAgain, UpdateFails,
                At, Locations, model, shown, press
  <2>2. \/ fresh' = fresh
        \/ \E answer \in Configs \cup {Nothing} : fresh' = [fresh EXCEPT ![t] = answer]
    BY <1>1, <1>8 DEF Read, ReadKept, Begin, UpdateUnread, Mark, UpdateAgain, UpdateFails,
                      press, TypeOK
  <2>3. pc'[p] = pc[p] /\ fresh'[p] = fresh[p]
    BY <1>1, <1>2, <2>1, <2>2
  <2> QED
    BY <2>1, <2>3, OthersKeepUndisturbed
<1> QED
  BY <1>3, <1>4, <1>5, <1>6, <1>7, <1>8 DEF ProceedPress, ProceedUpdate

(* No press is under way at first.                                         *)
LEMMA InitUndisturbed == Init => AllUndisturbed
<1> SUFFICES ASSUME Init, NEW p \in Presses
             PROVE  Undisturbed(p)
  BY DEF AllUndisturbed
<1>1. pc[p] = "idle"
  BY DEF Init, Tasks
<1> QED
  BY <1>1 DEF Undisturbed

(* Every step of every task keeps what each press knows.                   *)
LEMMA StepKeepsUndisturbed == IInv /\ AllUndisturbed /\ [Next]_vars => AllUndisturbed'
<1> SUFFICES ASSUME IInv, AllUndisturbed, [Next]_vars, NEW p \in Presses
             PROVE  Undisturbed(p)'
  BY DEF AllUndisturbed
<1>1. Undisturbed(p)
  BY DEF AllUndisturbed
<1>2. ASSUME UNCHANGED <<snaps, data, pc, fresh, wanted, value, snap, alone>>
      PROVE  Undisturbed(p)'
  BY <1>1, <1>2, OthersKeepUndisturbed
<1>3. CASE \/ Discard \/ UNCHANGED vars
           \/ \E f \in Fields, v \in Values : AppSets(f, v)
  BY <1>2, <1>3 DEF Discard, AppSets, vars, model, shown, press
<1>4. ASSUME NEW q \in Presses, (\E v \in Values : Press(q, v)) \/ ProceedPress(q)
      PROVE  Undisturbed(p)'
  <2>1. q \in Tasks
    BY DEF Tasks
  <2>2. CASE q = p
    BY <1>1, <1>4, <2>2, OwnStepKeepsUndisturbed
  <2>3. CASE q # p
    BY <1>1, <1>4, <2>1, <2>3, OtherStepKeepsUndisturbed
  <2> QED
    BY <2>2, <2>3
<1>5. ASSUME NEW u \in Updates, Begin(u) \/ ProceedUpdate(u)
      PROVE  Undisturbed(p)'
  <2>1. u \in Tasks /\ u # p
    BY TasksAssumption DEF Tasks
  <2> QED
    BY <1>1, <1>5, <2>1, OtherStepKeepsUndisturbed
<1>6. ASSUME NEW t \in Tasks, Read(t) \/ ReadKept(t)
      PROVE  Undisturbed(p)'
  <2>1. CASE t = p
    BY <1>1, <1>6, <2>1, OwnStepKeepsUndisturbed
  <2>2. CASE t # p
    BY <1>1, <1>6, <2>2, OtherStepKeepsUndisturbed
  <2> QED
    BY <2>1, <2>2
<1> QED
  BY <1>3, <1>4, <1>5, <1>6 DEF Next

(* PressAloneIsExact: with any number of presses, scans and refreshes, a   *)
(* press that no other write and no finished update came across writes     *)
(* what it read with its one field changed.                                *)
THEOREM AlonePressIsExact == Spec => []PressAloneIsExact
<1>1. AllUndisturbed => PressAloneIsExact
  BY DEF AllUndisturbed, Undisturbed, PressAloneIsExact
<1> QED
  BY InitIInv, StepKeepsIInv, InitUndisturbed, StepKeepsUndisturbed, <1>1, PTL DEF Spec

-----------------------------------------------------------------------------
(* How the stamp, the data and the entity relate while only scans update:  *)
(* a stamp that is not ahead is the one the entity noted, a sound report   *)
(* under a stamp that no press moved shows what the stamp was read with,   *)
(* a press that moves a stamp that is ahead makes the report unsound, a    *)
(* scan about to finish is what put the stamp ahead, and the bumps noted   *)
(* are bumps made.                                                         *)
Orderly ==
  /\ ~ahead => entity.stamp = Reported(data, stamp)
  /\ sound /\ entity.stamp # Nothing /\ entity.stamp.bump = 0
       => entity.state = entity.stamp.props
  /\ ahead /\ stamp.bump # 0 => ~sound
  /\ pc[Scan] = "marked" /\ fresh[Scan] # Nothing => ahead /\ stamp.props = fresh[Scan]
  /\ stamp.bump <= bumps
  /\ entity.stamp # Nothing => entity.stamp.bump <= bumps

(* An action that leaves the model alone keeps it in order, unless it is   *)
(* a read of the scan that comes to be marked.                             *)
LEMMA OrderlyStays ==
  ASSUME Orderly,
         UNCHANGED <<stamp, data, entity, sound, ahead, bumps>>,
         pc'[Scan] = "marked" /\ fresh'[Scan] # Nothing =>
           pc[Scan] = "marked" /\ fresh'[Scan] = fresh[Scan]
  PROVE  Orderly'
BY DEF Orderly, Reported

(* What a push leaves: the stamp is noted, and either it was before or the *)
(* entity reports anew.                                                    *)
LEMMA PushNotes ==
  ASSUME NEW all, NEW id, NEW available, NEW now, NEW early,
         Push(all, id, available, now, early),
         entity \in [state : Configs \cup {Nothing}, stamp : Stamps \cup {Nothing}]
  PROVE  /\ entity'.stamp = Reported(id, now)
         /\ \/ entity' = entity /\ sound' = sound /\ entity.stamp # Nothing
            \/ /\ entity' = [state |-> Shown(all, id, available), stamp |-> Reported(id, now)]
               /\ sound' = ~early
BY DEF Push, Skip

(* Home Assistant has just shown what it read.                             *)
LEMMA InitOrderly == Init => Orderly
<1> SUFFICES ASSUME Init
             PROVE  Orderly
  OBVIOUS
<1>1. /\ data = 1 /\ stamp = [props |-> machine, bump |-> 0] /\ bumps = 0
      /\ entity = [state |-> machine, stamp |-> stamp] /\ ahead = FALSE
  BY DEF Init
<1>2. pc[Scan] = "idle"
  BY DEF Init, Tasks, Updates
<1>3. entity.stamp = stamp /\ entity.state = machine /\ stamp.bump = 0 /\ stamp.props = machine
  BY <1>1
<1>4. Reported(data, stamp) = stamp
  BY <1>1 DEF Reported, NoSnap
<1> QED
  BY <1>1, <1>2, <1>3, <1>4 DEF Orderly

(* A press that is written bumps the stamp past all that were noted.       *)
LEMMA NoteKeepsOrderly ==
  ASSUME IInv, Orderly, NEW p \in Presses, Note(p)
  PROVE  Orderly'
<1> USE DEF NoSnap
<1>1. /\ pc \in [Tasks -> Locations] /\ fresh \in [Tasks -> Configs \cup {Nothing}]
      /\ stamp \in Stamps /\ bumps \in Nat /\ ahead \in BOOLEAN /\ sound \in BOOLEAN
      /\ entity \in [state : Configs \cup {Nothing}, stamp : Stamps \cup {Nothing}]
  BY BoundsAssumption DEF IInv, TypeOK
<1>2. /\ pc' = [pc EXCEPT ![p] = "idle"]
      /\ fresh' = [fresh EXCEPT ![p] = Nothing]
      /\ bumps' = bumps + 1
      /\ stamp' = [stamp EXCEPT !.bump = bumps + 1]
      /\ Push(snaps', data, success', stamp', ahead)
      /\ data' = data /\ ahead' = ahead
  BY DEF Note, At, Bump, Return
<1>3. p \in Tasks /\ Scan \in Tasks /\ Scan # p
  BY TasksAssumption DEF Tasks, Updates
<1>4. pc'[Scan] = pc[Scan] /\ fresh'[Scan] = fresh[Scan]
  BY <1>1, <1>2, <1>3
<1>5. stamp'.bump = bumps + 1 /\ stamp'.props = stamp.props
  BY <1>1, <1>2 DEF Stamps
<1>6. /\ entity'.stamp = Reported(data, stamp')
      /\ \/ entity' = entity /\ sound' = sound /\ entity.stamp # Nothing
         \/ /\ entity' = [state |-> Shown(snaps', data, success'),
                          stamp |-> Reported(data, stamp')]
            /\ sound' = ~ahead
  BY <1>1, <1>2, PushNotes
<1>7. entity.stamp # Nothing => entity.stamp.bump \in Nat /\ entity.stamp.bump <= bumps
  BY <1>1, BoundsAssumption DEF Stamps, Orderly
<1>8. entity'.stamp # Nothing => entity'.stamp = stamp'
  BY <1>6 DEF Reported
<1>9. sound' = ~ahead
  BY <1>1, <1>5, <1>6, <1>7, <1>8
<1>10. entity'.stamp # Nothing => entity'.stamp.bump = bumps + 1
  BY <1>5, <1>8
<1>11. bumps + 1 # 0
  BY <1>1
<1>12. ~ahead' => entity'.stamp = Reported(data', stamp')
  BY <1>2, <1>6
<1>13. pc'[Scan] = "marked" /\ fresh'[Scan] # Nothing => ahead' /\ stamp'.props = fresh'[Scan]
  BY <1>2, <1>4, <1>5 DEF Orderly
<1>14. stamp'.bump <= bumps' /\ (entity'.stamp # Nothing => entity'.stamp.bump <= bumps')
  BY <1>1, <1>2, <1>5, <1>10
<1> QED
  BY <1>1, <1>2, <1>9, <1>10, <1>11, <1>12, <1>13, <1>14 DEF Orderly

(* What the end of the only scan pushes: with a stamp that the entity      *)
(* noted it showed the very answer the scan read.                          *)
LEMMA FinishShows ==
  ASSUME IInv, Orderly, Refreshes = {}, Finish(Scan)
  PROVE  /\ sound => EntityShows'
         /\ Orderly'
<1> USE DEF NoSnap
<1>1. /\ pc \in [Tasks -> Locations] /\ fresh \in [Tasks -> Configs \cup {Nothing}]
      /\ stamp \in Stamps /\ bumps \in Nat /\ ahead \in BOOLEAN /\ sound \in BOOLEAN
      /\ entity \in [state : Configs \cup {Nothing}, stamp : Stamps \cup {Nothing}]
      /\ snap \in [Presses -> SnapIds \cup {NoSnap}]
      /\ mover = Scan
  BY BoundsAssumption DEF IInv, TypeOK, Updates
<1>2. /\ pc[Scan] = "marked" /\ pc' = [pc EXCEPT ![Scan] = "idle"]
      /\ data' = Replacement(Scan)
      /\ snaps' = [i \in SnapIds |-> IF i \in Held THEN snaps[i]
                                     ELSE IF i = data' THEN fresh[Scan] ELSE Nothing]
      /\ success' = TRUE
      /\ ahead' = (ahead /\ mover # Scan)
      /\ Push(snaps', data', success', stamp, ahead')
      /\ stamp' = stamp /\ bumps' = bumps
  BY DEF Finish, At
<1>3. Free \in SnapIds /\ Free \notin Held
  BY <1>1, FreeIsFree
<1>4. ahead' = FALSE /\ Scan \in Tasks
  BY <1>1, <1>2 DEF Tasks, Updates
<1>5. pc'[Scan] = "idle"
  BY <1>1, <1>2, <1>4
<1>6. data' # NoSnap => /\ fresh[Scan] # Nothing /\ ahead /\ stamp.props = fresh[Scan]
                        /\ snaps'[data'] = fresh[Scan]
                        /\ Shown(snaps', data', success') = stamp.props
                        /\ Reported(data', stamp') = stamp
  <2> SUFFICES ASSUME data' # NoSnap
               PROVE  /\ fresh[Scan] # Nothing /\ ahead /\ stamp.props = fresh[Scan]
                      /\ snaps'[data'] = fresh[Scan]
                      /\ Shown(snaps', data', success') = stamp.props
                      /\ Reported(data', stamp') = stamp
    OBVIOUS
  <2>1. fresh[Scan] # Nothing /\ data' = Free
    BY <1>2 DEF Replacement
  <2>2. ahead /\ stamp.props = fresh[Scan]
    BY <1>2, <2>1 DEF Orderly
  <2>3. snaps'[data'] = fresh[Scan]
    BY <1>2, <1>3, <2>1
  <2> QED
    BY <1>2, <2>1, <2>2, <2>3 DEF Shown, Reported
<1>7. /\ entity'.stamp = Reported(data', stamp)
      /\ \/ entity' = entity /\ sound' = sound /\ entity.stamp # Nothing
         \/ /\ entity' = [state |-> Shown(snaps', data', success'),
                          stamp |-> Reported(data', stamp)]
            /\ sound' = ~ahead'
  BY <1>1, <1>2, PushNotes
<1>8. CASE entity' = entity /\ sound' = sound /\ entity.stamp # Nothing
  <2>1. data' # NoSnap /\ entity.stamp = stamp
    BY <1>7, <1>8 DEF Reported
  <2>2. sound => stamp.bump = 0 /\ entity.state = stamp.props
    BY <1>6, <2>1, <1>8 DEF Orderly
  <2>3. sound => EntityShows'
    BY <1>6, <1>8, <2>1, <2>2 DEF EntityShows
  <2>4. Orderly'
    BY <1>2, <1>4, <1>5, <1>6, <1>8, <2>1, <2>2 DEF Orderly
  <2> QED
    BY <2>3, <2>4
<1>9. CASE /\ entity' = [state |-> Shown(snaps', data', success'),
                         stamp |-> Reported(data', stamp)]
           /\ sound' = ~ahead'
  <2>1. entity'.state = Shown(snaps', data', success') /\ entity'.stamp = Reported(data', stamp')
    BY <1>2, <1>9
  <2>2. EntityShows'
    BY <2>1 DEF EntityShows
  <2>3. entity'.stamp # Nothing => entity'.stamp = stamp /\ entity'.state = stamp.props
    BY <1>6, <2>1 DEF Reported
  <2>4. Orderly'
    BY <1>2, <1>4, <1>5, <2>1, <2>3 DEF Orderly
  <2> QED
    BY <2>2, <2>4
<1> QED
  BY <1>7, <1>8, <1>9

(* A scan that puts the stamp ahead, or fails after it did.                *)
LEMMA ScanKeepsOrderly ==
  ASSUME IInv, Orderly, Mark(Scan) \/ UpdateFails(Scan)
  PROVE  Orderly'
<1>1. /\ pc \in [Tasks -> Locations] /\ fresh \in [Tasks -> Configs \cup {Nothing}]
      /\ stamp \in Stamps /\ bumps \in Nat /\ ahead \in BOOLEAN /\ sound \in BOOLEAN
      /\ entity \in [state : Configs \cup {Nothing}, stamp : Stamps \cup {Nothing}]
      /\ Scan \in Tasks
  BY BoundsAssumption DEF IInv, TypeOK, Tasks, Updates
<1>2. CASE Mark(Scan)
  <2>1. /\ stamp' = [props |-> fresh[Scan], bump |-> 0] /\ ahead' = TRUE
        /\ UNCHANGED <<data, bumps, entity, sound, fresh>>
    BY <1>2 DEF Mark, press
  <2>2. stamp'.props = fresh'[Scan] /\ stamp'.bump = 0 /\ 0 <= bumps'
    BY <1>1, <2>1
  <2> QED
    BY <2>1, <2>2 DEF Orderly
<1>3. CASE UpdateFails(Scan)
  <2>1. /\ pc' = [pc EXCEPT ![Scan] = "idle"]
        /\ UNCHANGED <<data, stamp, bumps, ahead>>
        /\ Skip \/ Push(snaps, data, success', stamp, ahead)
    BY <1>3 DEF UpdateFails, At
  <2>2. pc'[Scan] = "idle"
    BY <1>1, <2>1
  <2>3. CASE Skip
    BY <2>1, <2>2, <2>3, OrderlyStays DEF Skip
  <2>4. CASE Push(snaps, data, success', stamp, ahead)
    <3>1. /\ entity'.stamp = Reported(data, stamp)
          /\ \/ entity' = entity /\ sound' = sound /\ entity.stamp # Nothing
             \/ /\ entity' = [state |-> Shown(snaps, data, success'),
                              stamp |-> Reported(data, stamp)]
                /\ sound' = ~ahead
      BY <1>1, <2>4, PushNotes
    <3>2. CASE entity' = entity /\ sound' = sound
      BY <2>1, <2>2, <3>2, OrderlyStays
    <3>3. CASE ahead /\ sound' = ~ahead
      <4>1. entity'.stamp # Nothing => entity'.stamp = stamp
        BY <3>1 DEF Reported
      <4> QED
        BY <2>1, <2>2, <3>3, <4>1 DEF Orderly
    <3>4. CASE ~ahead /\ ~(entity' = entity /\ sound' = sound)
      <4>1. Reported(data, stamp) = entity.stamp
        BY <3>4 DEF Orderly
      <4>2. Reported(data, stamp) = Nothing
        BY <2>4, <3>4, <4>1 DEF Push, Skip
      <4> QED
        BY <2>1, <2>2, <3>1, <3>4, <4>2 DEF Orderly
    <3> QED
      BY <1>1, <3>1, <3>2, <3>3, <3>4
  <2> QED
    BY <2>1, <2>3, <2>4
<1> QED
  BY <1>2, <1>3

(* While only scans update, every step keeps the model in order.           *)
LEMMA StepKeepsOrderly ==
  ASSUME Refreshes = {}, IInv, Orderly, [Next]_vars
  PROVE  Orderly'
<1>1. /\ pc \in [Tasks -> Locations] /\ fresh \in [Tasks -> Configs \cup {Nothing}]
  BY DEF IInv, TypeOK
<1>2. Updates = {Scan} /\ Scan \in Tasks /\ Scan \notin Presses
  BY TasksAssumption DEF Tasks, Updates
<1>3. ASSUME NEW p \in Presses, (\E v \in Values : Press(p, v)) \/ ProceedPress(p)
      PROVE  Orderly'
  <2>1. p \in Tasks /\ p # Scan
    BY <1>2 DEF Tasks
  <2>2. CASE Note(p)
    BY <2>2, NoteKeepsOrderly
  <2>3. CASE \/ \E v \in Values : Press(p, v)
             \/ TakeSnap(p) \/ Send(p) \/ Written(p)
             \/ PressUnread(p) \/ WriteFails(p) \/ NoteNothing(p)
    <3>1. /\ UNCHANGED <<stamp, data, entity, sound, ahead, bumps>>
          /\ \E to \in Locations : pc' = [pc EXCEPT ![p] = to]
      BY <2>3 DEF Press, TakeSnap, Send, Written, PressUnread, WriteFails, NoteNothing,
                  At, Locations, model, shown
    <3>2. fresh' = fresh \/ fresh' = [fresh EXCEPT ![p] = Nothing]
      BY <2>3 DEF Press, TakeSnap, Send, Written, PressUnread, WriteFails, NoteNothing,
                  Return, press
    <3>3. pc'[Scan] = pc[Scan] /\ fresh'[Scan] = fresh[Scan]
      BY <1>1, <1>2, <2>1, <3>1, <3>2
    <3> QED
      BY <3>1, <3>3, OrderlyStays
  <2> QED
    BY <1>3, <2>2, <2>3 DEF ProceedPress
<1>4. ASSUME NEW u \in Updates, Begin(u) \/ ProceedUpdate(u)
      PROVE  Orderly'
  <2>1. u = Scan
    BY <1>2
  <2>2. CASE Mark(Scan) \/ UpdateFails(Scan)
    BY <2>2, ScanKeepsOrderly
  <2>3. CASE Finish(Scan)
    BY <2>3, FinishShows
  <2>4. CASE Begin(Scan) \/ UpdateUnread(Scan) \/ UpdateAgain(Scan)
    <3>1. /\ UNCHANGED <<stamp, data, entity, sound, ahead, bumps>>
          /\ \/ pc' = [pc EXCEPT ![Scan] = "reading"]
             \/ /\ pc' = [pc EXCEPT ![Scan] = "marked"]
                /\ fresh' = [fresh EXCEPT ![Scan] = Nothing]
      BY <2>4 DEF Begin, UpdateUnread, UpdateAgain, At, model, shown
    <3>2. pc'[Scan] # "marked" \/ fresh'[Scan] = Nothing
      BY <1>1, <1>2, <3>1
    <3> QED
      BY <3>1, <3>2, OrderlyStays
  <2> QED
    BY <1>4, <2>1, <2>2, <2>3, <2>4 DEF ProceedUpdate
<1>5. ASSUME NEW t \in Tasks, Read(t) \/ ReadKept(t)
      PROVE  Orderly'
  <2>1. /\ UNCHANGED <<stamp, data, entity, sound, ahead, bumps>>
        /\ pc' = [pc EXCEPT ![t] = "read"]
        /\ \E answer : fresh' = [fresh EXCEPT ![t] = answer]
    BY <1>5 DEF Read, ReadKept, At, model, shown
  <2>2. pc'[Scan] = "marked" => pc[Scan] = "marked" /\ t # Scan
    BY <1>1, <1>2, <2>1
  <2>3. t # Scan => fresh'[Scan] = fresh[Scan]
    BY <1>1, <1>2, <2>1
  <2> QED
    BY <2>1, <2>2, <2>3, OrderlyStays
<1>6. CASE \/ Discard \/ UNCHANGED vars
           \/ \E f \in Fields, v \in Values : AppSets(f, v)
  <2>1. UNCHANGED <<stamp, data, entity, sound, ahead, bumps, pc, fresh>>
    BY <1>6 DEF Discard, AppSets, vars, model, shown
  <2> QED
    BY <2>1, OrderlyStays
<1> QED
  BY <1>3, <1>4, <1>5, <1>6 DEF Next

(* A scan that ends well ended by pushing: one that fails says so.         *)
LEMMA EndIsFinish ==
  ASSUME Refreshes = {}, IInv, [Next]_vars, NEW u \in Updates, Finishes(u)
  PROVE  u = Scan /\ Finish(Scan)
<1>1. pc \in [Tasks -> Locations]
  BY DEF IInv, TypeOK
<1>2. Updates = {Scan} /\ Scan \in Tasks /\ Scan \notin Presses
  BY TasksAssumption DEF Tasks, Updates
<1>3. pc[Scan] = "marked" /\ pc'[Scan] = "idle" /\ success' /\ u = Scan
  BY <1>2 DEF Finishes
<1>4. ASSUME NEW t \in Tasks, NEW to, pc' = [pc EXCEPT ![t] = to]
      PROVE  t = Scan /\ to = "idle"
  BY <1>1, <1>2, <1>3, <1>4
<1>5. ASSUME NEW p \in Presses, (\E v \in Values : Press(p, v)) \/ ProceedPress(p)
      PROVE  FALSE
  <2>1. p \in Tasks /\ p # Scan
    BY <1>2 DEF Tasks
  <2>2. \E to \in Locations : pc' = [pc EXCEPT ![p] = to]
    BY <1>5 DEF Press, ProceedPress, TakeSnap, Send, Written, PressUnread, WriteFails,
                Note, NoteNothing, At, Locations
  <2> QED
    BY <1>4, <2>1, <2>2
<1>6. ~ \E t \in Tasks : Read(t) \/ ReadKept(t)
  BY <1>4 DEF Read, ReadKept, At
<1>7. pc' # pc
  BY <1>3
<1>8. ~ (Begin(Scan) \/ UpdateUnread(Scan) \/ Mark(Scan) \/ UpdateAgain(Scan))
  BY <1>2, <1>4 DEF Begin, UpdateUnread, Mark, UpdateAgain, At
<1>9. ~UpdateFails(Scan)
  BY <1>3 DEF UpdateFails
<1>10. ~ (\/ Discard \/ UNCHANGED vars
          \/ \E f \in Fields, v \in Values : AppSets(f, v))
  BY <1>7 DEF Discard, AppSets, vars
<1> QED
  BY <1>2, <1>3, <1>5, <1>6, <1>8, <1>9, <1>10 DEF Next, ProceedUpdate

(* OrderlyUpdateShows: with one scan, any number of presses and any        *)
(* failures of reads, writes and updates, what the equal stamp lets an     *)
(* entity skip is a state it shows already.                                *)
THEOREM OrderlyScanShows ==
  ASSUME Refreshes = {}
  PROVE  Spec => OrderlyUpdateShows
<1>1. IInv /\ Orderly /\ [Next]_vars => Orderly'
  BY StepKeepsOrderly
<1>2. IInv /\ Orderly /\ [Next]_vars =>
        [\A u \in Updates : Finishes(u) /\ sound /\ ~ahead' => EntityShows']_vars
  BY EndIsFinish, FinishShows
<1> QED
  BY InitIInv, StepKeepsIInv, InitOrderly, <1>1, <1>2, PTL DEF Spec, OrderlyUpdateShows
=============================================================================
