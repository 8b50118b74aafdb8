------------------------------ MODULE DeviceWrites ------------------------------
(***************************************************************************)
(* One device of the coordinator (coordinator.py) between three writers:   *)
(* updates, which read its properties and replace the model; presses of    *)
(* entities that own one field of a nested config object, which read the   *)
(* machine, merge and write the object as a whole; and the mobile app.     *)
(* Entities report the model when the stamp of the device has moved        *)
(* (base_entity.py).                                                       *)
(*                                                                         *)
(* The model of a device is a snapshot object.  An update makes a new one, *)
(* and a press that began before writes on the one it took, so snapshots   *)
(* have identities.  The config object is all that a snapshot holds here,  *)
(* one entity stands for all that report it, and the machine states the    *)
(* object in every answer.  A property that is no nested object has no     *)
(* siblings and is written as asked.                                       *)
(***************************************************************************)
EXTENDS Integers, FiniteSets

CONSTANTS
  Presses,   \* the tasks that press
  Scan,      \* the task in which Home Assistant updates the data
  Refreshes, \* the tasks of Refresh data now, which update it too
  Fields,    \* the fields of the config object
  Values,    \* their values
  Own,       \* the field each press sets
  Nothing,   \* what a read or a model is when there is none
  MaxSets,   \* bound: settings made in the app
  MaxBumps   \* bound: presses that are written

Updates == {Scan} \cup Refreshes
Tasks == Presses \cup Updates
Configs == [Fields -> Values]

ASSUME TasksAssumption == Presses \cap Updates = {} /\ IsFiniteSet(Presses)
ASSUME OwnAssumption == Own \in [Presses -> Fields]
ASSUME NothingAssumption == Nothing \notin Configs \cup Values
ASSUME BoundsAssumption == MaxSets \in Nat /\ MaxBumps \in Nat

VARIABLES
  machine,  \* the object on the machine
  sets,     \* the settings made in the app
  cached,   \* the properties cache holds this object, or Nothing
  snaps,    \* the snapshots, by identity
  data,     \* the snapshot the coordinator shows, or NoSnap
  success,  \* last_update_success: the entities are available
  stamp,    \* _state_base: the properties last read and the last bump
  bumps,    \* _state_manual_bumps
  entity,   \* what the entity reported and the stamp it noted
  pc,       \* what each task awaits
  fresh,    \* what each task's read answered, or Nothing
  wanted,   \* the value each press sets
  value,    \* the object it asks to write, then the one it writes
  snap,     \* the snapshot it holds, or NoSnap
  alone,    \* history: no other write noted, no new data, since it began
  mover,    \* history: the update that moved the stamp last
  ahead,    \* history: what it read is not the data yet
  sound     \* history: the entity last reported when it was

shown == <<data, success, stamp, bumps, mover, ahead>>
model == <<snaps, shown, entity, sound>>
press == <<wanted, value, snap, alone>>
vars == <<machine, sets, cached, model, pc, fresh, press>>

NoSnap == 0
SnapIds == 1 .. Cardinality(Presses) + 1
Stamps == [props : Configs, bump : 0 .. MaxBumps]
Locations == {"idle", "client", "reading", "read", "writing", "written", "marked"}

(* Home Assistant has just read the machine for the first time.            *)
Init ==
  /\ machine \in Configs
  /\ sets = 0
  /\ cached = machine
  /\ snaps = [i \in SnapIds |-> IF i = 1 THEN machine ELSE Nothing]
  /\ data = 1
  /\ success = TRUE
  /\ stamp = [props |-> machine, bump |-> 0]
  /\ bumps = 0
  /\ entity = [state |-> machine, stamp |-> stamp]
  /\ pc = [t \in Tasks |-> "idle"]
  /\ fresh = [t \in Tasks |-> Nothing]
  /\ wanted = [p \in Presses |-> Nothing]
  /\ value = [p \in Presses |-> Nothing]
  /\ snap = [p \in Presses |-> NoSnap]
  /\ alone = [p \in Presses |-> TRUE]
  /\ mover = Scan
  /\ ahead = FALSE
  /\ sound = TRUE

At(t, from, to) ==
  /\ pc[t] = from
  /\ pc' = [pc EXCEPT ![t] = to]

(* The model as the entities show it.                                      *)
Shown(all, id, available) ==
  IF id = NoSnap \/ ~available THEN Nothing ELSE all[id]

-----------------------------------------------------------------------------
(* Reporting.                                                              *)

Skip == UNCHANGED <<entity, sound>>

(* state_fingerprint.                                                      *)
Reported(id, now) == IF id = NoSnap THEN Nothing ELSE now

(* write_state_if_changed, of every entity, when the data is pushed.       *)
Push(all, id, available, now, early) ==
  LET noted == Reported(id, now)
  IN  IF noted # Nothing /\ noted = entity.stamp THEN Skip
      ELSE /\ entity' = [state |-> Shown(all, id, available), stamp |-> noted]
           /\ sound' = ~early

-----------------------------------------------------------------------------
(* Reading the properties, by a press or an update.                        *)

(* The machine answers, and the cache keeps the answer.                    *)
Read(t) ==
  /\ At(t, "reading", "read")
  /\ fresh' = [fresh EXCEPT ![t] = machine]
  /\ cached' = machine
  /\ UNCHANGED <<machine, sets, model, press>>

(* The cloud fails and the cache answers with what it keeps.               *)
ReadKept(t) ==
  /\ At(t, "reading", "read")
  /\ cached # Nothing
  /\ fresh' = [fresh EXCEPT ![t] = cached]
  /\ UNCHANGED <<machine, sets, cached, model, press>>

(* Thirty minutes have passed since the last answer.                       *)
Discard ==
  /\ cached # Nothing
  /\ cached' = Nothing
  /\ UNCHANGED <<machine, sets, model, pc, fresh, press>>

-----------------------------------------------------------------------------
(* A press: set_property on a nested object.                               *)

(* The call returns: its variables are gone, and the snapshot if no one    *)
(* else holds it.                                                          *)
Return(p, held) ==
  /\ wanted' = [wanted EXCEPT ![p] = Nothing]
  /\ value' = [value EXCEPT ![p] = Nothing]
  /\ snap' = [snap EXCEPT ![p] = NoSnap]
  /\ snaps' = [i \in SnapIds |->
                 IF i = data \/ \E q \in Presses : snap'[q] = i
                 THEN held[i] ELSE Nothing]
  /\ fresh' = [fresh EXCEPT ![p] = Nothing]

(* The entity builds the object from the model.                            *)
Press(p, v) ==
  /\ At(p, "idle", "client")
  /\ data # NoSnap
  /\ bumps + Cardinality({q \in Presses : pc[q] # "idle"}) < MaxBumps
  /\ wanted' = [wanted EXCEPT ![p] = v]
  /\ value' = [value EXCEPT ![p] = [snaps[data] EXCEPT ![Own[p]] = v]]
  /\ UNCHANGED <<machine, sets, cached, model, fresh, snap, alone>>

(* The client is there; the snapshot is taken and the read begins.         *)
TakeSnap(p) ==
  /\ At(p, "client", "reading")
  /\ snap' = [snap EXCEPT ![p] = data]
  /\ UNCHANGED <<machine, sets, cached, model, fresh, wanted, value, alone>>

(* The read raises and nothing is kept: the press fails.                   *)
PressUnread(p) ==
  /\ At(p, "reading", "idle")
  /\ cached = Nothing
  /\ alone' = [alone EXCEPT ![p] = TRUE]
  /\ Return(p, snaps)
  /\ UNCHANGED <<machine, sets, cached, shown, entity, sound>>

(* Mutated form of Merged: the object is written as the entity built it.   *)
MergedNot(p) == value[p]

(* A field that differs from the snapshot is taken as set by the caller,   *)
(* any other one from the machine's answer.                                *)
Merged(p) ==
  [f \in Fields |->
     IF snap[p] = NoSnap \/ value[p][f] # snaps[snap[p]][f]
     THEN value[p][f] ELSE fresh[p][f]]

Send(p) ==
  /\ At(p, "read", "writing")
  /\ value' = [value EXCEPT ![p] = Merged(p)]
  /\ UNCHANGED <<machine, sets, cached, model, fresh, wanted, snap, alone>>

Written(p) ==
  /\ At(p, "writing", "written")
  /\ machine' = value[p]
  /\ UNCHANGED <<sets, cached, model, fresh, press>>

(* The call raises, whether the machine took the object or not.            *)
WriteFails(p) ==
  /\ At(p, "writing", "idle")
  /\ machine' \in {machine, value[p]}
  /\ alone' = [alone EXCEPT ![p] = TRUE]
  /\ Return(p, snaps)
  /\ UNCHANGED <<sets, cached, shown, entity, sound>>

(* _mark_state_changed for a press.                                        *)
Bump ==
  /\ bumps' = bumps + 1
  /\ stamp' = [stamp EXCEPT !.bump = bumps + 1]

(* The object is set on the snapshot taken before, the stamp moves and the *)
(* data shown now is pushed.                                               *)
Note(p) ==
  /\ At(p, "written", "idle")
  /\ snap[p] # NoSnap
  /\ Return(p, [snaps EXCEPT ![snap[p]] = value[p]])
  /\ Bump
  /\ success' = TRUE
  /\ Push(snaps', data, success', stamp', ahead)
  /\ alone' = [q \in Presses |-> q = p \/ pc[q] = "idle"]
  /\ UNCHANGED <<machine, sets, cached, data, mover, ahead>>

(* No model was there when the snapshot was taken.                         *)
NoteNothing(p) ==
  /\ At(p, "written", "idle")
  /\ snap[p] = NoSnap
  /\ alone' = [alone EXCEPT ![p] = TRUE]
  /\ Return(p, snaps)
  /\ UNCHANGED <<machine, sets, cached, shown, entity, sound>>

-----------------------------------------------------------------------------
(* An update.                                                              *)

Begin(u) ==
  /\ At(u, "idle", "reading")
  /\ UNCHANGED <<machine, sets, cached, model, fresh, press>>

(* The read raises and nothing is kept: the device is left out.            *)
UpdateUnread(u) ==
  /\ At(u, "reading", "marked")
  /\ cached = Nothing
  /\ fresh' = [fresh EXCEPT ![u] = Nothing]
  /\ UNCHANGED <<machine, sets, cached, model, press>>

(* Mutated form of Mark: what was read leaves the stamp as it was bumped.  *)
MarkKeepingBump(u) ==
  /\ At(u, "read", "marked")
  /\ stamp' = [stamp EXCEPT !.bump = IF stamp.props = fresh[u] THEN @ ELSE 0,
                            !.props = fresh[u]]
  /\ mover' = u
  /\ ahead' = TRUE
  /\ UNCHANGED <<machine, sets, cached, snaps, data, success, bumps, entity, sound,
                 fresh, press>>

(* _mark_state_changed with what was read, while other devices and the     *)
(* caller of the update are still awaited.                                 *)
Mark(u) ==
  /\ At(u, "read", "marked")
  /\ stamp' = [props |-> fresh[u], bump |-> 0]
  /\ mover' = u
  /\ ahead' = TRUE
  /\ UNCHANGED <<machine, sets, cached, snaps, data, success, bumps, entity, sound,
                 fresh, press>>

Held == {snap[p] : p \in Presses}
Free == CHOOSE i \in SnapIds : i \notin Held

(* Mutated form of Replacement: a device that was left out is kept empty.  *)
ReplacementAlways(u) == Free

(* What the new data has for the device.                                   *)
Replacement(u) == IF fresh[u] = Nothing THEN NoSnap ELSE Free

(* The new data replaces the old and is pushed.                            *)
Finish(u) ==
  /\ At(u, "marked", "idle")
  /\ data' = Replacement(u)
  /\ snaps' = [i \in SnapIds |->
                 IF i \in Held THEN snaps[i]
                 ELSE IF i = data' THEN fresh[u] ELSE Nothing]
  /\ success' = TRUE
  /\ ahead' = (ahead /\ mover # u)
  /\ Push(snaps', data', success', stamp, ahead')
  /\ alone' = [p \in Presses |-> pc[p] = "idle"]
  /\ fresh' = [fresh EXCEPT ![u] = Nothing]
  /\ UNCHANGED <<machine, sets, cached, stamp, bumps, mover, wanted, value, snap>>

(* Another device lost the session, and a recovery runs the update again.   *)
UpdateAgain(u) ==
  /\ \E from \in {"read", "marked"} : At(u, from, "reading")
  /\ fresh' = [fresh EXCEPT ![u] = Nothing]
  /\ UNCHANGED <<machine, sets, cached, model, press>>

(* Another device, or the list of devices, fails the update: the data stays, *)
(* and Home Assistant tells the entities if it is the first to fail.       *)
UpdateFails(u) ==
  /\ \E from \in {"reading", "read", "marked"} : At(u, from, "idle")
  /\ fresh' = [fresh EXCEPT ![u] = Nothing]
  /\ success' = (success /\ u # Scan)
  /\ IF success' = success THEN Skip
     ELSE Push(snaps, data, success', stamp, ahead)
  /\ UNCHANGED <<machine, sets, cached, snaps, data, stamp, bumps, mover, ahead, press>>

-----------------------------------------------------------------------------
(* The mobile app sets a field.                                            *)
AppSets(f, v) ==
  /\ sets < MaxSets
  /\ sets' = sets + 1
  /\ machine' = [machine EXCEPT ![f] = v]
  /\ UNCHANGED <<cached, model, pc, fresh, press>>

ProceedPress(p) ==
  \/ TakeSnap(p)
  \/ PressUnread(p)
  \/ Send(p)
  \/ Written(p)
  \/ WriteFails(p)
  \/ Note(p)
  \/ NoteNothing(p)

ProceedUpdate(u) ==
  \/ UpdateUnread(u)
  \/ Mark(u)
  \/ Finish(u)
  \/ UpdateAgain(u)
  \/ UpdateFails(u)

Next ==
  \/ \E p \in Presses, v \in Values : Press(p, v)
  \/ \E p \in Presses : ProceedPress(p)
  \/ \E u \in Updates : Begin(u) \/ ProceedUpdate(u)
  \/ \E t \in Tasks : Read(t) \/ ReadKept(t)
  \/ \E f \in Fields, v \in Values : AppSets(f, v)
  \/ Discard

Spec == Init /\ [][Next]_vars

(* Each await ends: requests have timeouts, scans are scheduled for ever,  *)
(* and the cloud answers again and again.                                  *)
Fairness ==
  /\ \A p \in Presses : WF_vars(ProceedPress(p)) /\ WF_vars(Read(p))
  /\ \A u \in Updates :
       /\ WF_vars(Begin(u))
       /\ WF_vars(ProceedUpdate(u))
       /\ SF_vars(Read(u))

FairSpec == Spec /\ Fairness

-----------------------------------------------------------------------------
TypeOK ==
  /\ machine \in Configs
  /\ sets \in 0 .. MaxSets
  /\ cached \in Configs \cup {Nothing}
  /\ snaps \in [SnapIds -> Configs \cup {Nothing}]
  /\ data \in SnapIds \cup {NoSnap}
  /\ \A i \in {data} \cup Held : i = NoSnap \/ snaps[i] \in Configs
  /\ success \in BOOLEAN
  /\ stamp \in Stamps
  /\ bumps \in 0 .. MaxBumps
  /\ entity \in [state : Configs \cup {Nothing}, stamp : Stamps \cup {Nothing}]
  /\ pc \in [Tasks -> Locations]
  /\ fresh \in [Tasks -> Configs \cup {Nothing}]
  /\ wanted \in [Presses -> Values \cup {Nothing}]
  /\ value \in [Presses -> Configs \cup {Nothing}]
  /\ snap \in [Presses -> SnapIds \cup {NoSnap}]
  /\ alone \in [Presses -> BOOLEAN]
  /\ mover \in Updates
  /\ ahead \in BOOLEAN
  /\ sound \in BOOLEAN

-----------------------------------------------------------------------------
(* What a press promises when no other push comes between its start and    *)
(* its write: if it asks for another value than the model has, the object  *)
(* it writes is what its read answered with that one field changed,        *)
(* whatever the model held of the others.                                  *)
PressAloneIsExact ==
  \A p \in Presses :
    (/\ pc[p] = "writing"
     /\ alone[p]
     /\ wanted[p] # snaps[snap[p]][Own[p]])
      => value[p] = [fresh[p] EXCEPT ![Own[p]] = wanted[p]]

Finishes(u) == pc[u] = "marked" /\ pc'[u] = "idle" /\ success'

EntityShows == entity.state = Shown(snaps, data, success)

(* After an update the entity shows the model, reported anew or not, unless *)
(* it last reported while a stamp had moved ahead of the data, or the      *)
(* stamp is ahead now.                                                     *)
OrderlyUpdateShows ==
  [][\A u \in Updates : Finishes(u) /\ sound /\ ~ahead' => EntityShows']_vars

(* state_fingerprint says that what is skipped is a state that cannot      *)
(* differ.  When the app and the presses leave the machine alone and       *)
(* updates succeed, the entity comes to show what is there.                *)
EntityCatchesUp ==
  \A m \in Configs :
    (/\ <>[](machine = m /\ success /\ \A p \in Presses : pc[p] = "idle")
     /\ []<>(data # NoSnap /\ snaps[data] = m))
      => <>[](data # NoSnap => entity.state = m)
=============================================================================
