-------------------------- MODULE EntryLifecycleProofs --------------------------
(***************************************************************************)
(* Proofs about EntryLifecycle for any credentials, accounts, machines and *)
(* bounds: types, whose clients stay registered, which devices there are.  *)
(***************************************************************************)
EXTENDS EntryLifecycle, SequenceTheorems, TLAPS

-----------------------------------------------------------------------------
(* The queue of the entry's lock.                                          *)

Plain == {"listener", "scheduled", "setup"}

(* A form that waits has submitted credentials and waits once.             *)
Waiting(q, fl) ==
  \A i \in 1 .. Len(q) :
    q[i] \in Flows => fl[q[i]] # None /\ \A j \in 1 .. Len(q) : q[j] = q[i] => j = i

(* The elements of a concatenation.                                        *)
LEMMA Joined ==
  ASSUME NEW q \in Seq(Requests), NEW t \in Seq(Requests)
  PROVE  /\ q \o t \in Seq(Requests)
         /\ \A i \in 1 .. Len(q \o t) :
              \/ i \in 1 .. Len(q) /\ (q \o t)[i] = q[i]
              \/ i - Len(q) \in 1 .. Len(t) /\ (q \o t)[i] = t[i - Len(q)]
<1>1. /\ Len(q \o t) = Len(q) + Len(t)
      /\ \A i \in 1 .. Len(q) + Len(t) :
           (q \o t)[i] = IF i <= Len(q) THEN q[i] ELSE t[i - Len(q)]
  BY ConcatProperties
<1>2. Len(q) \in Nat /\ Len(t) \in Nat
  BY LenProperties
<1>3. q \o t \in Seq(Requests)
  BY ConcatProperties
<1> QED
  BY <1>1, <1>2, <1>3

(* Requests that no form makes may join.                                   *)
LEMMA PlainJoins ==
  ASSUME NEW q \in Seq(Requests), NEW t \in Seq(Plain), NEW fl, Waiting(q, fl)
  PROVE  q \o t \in Seq(Requests) /\ Waiting(q \o t, fl)
<1>1. t \in Seq(Requests) /\ \A i \in 1 .. Len(t) : t[i] \notin Flows
  BY CredsAssumption DEF Requests, Plain
<1>2. Len(q) \in Nat /\ Len(t) \in Nat
  BY LenProperties
<1>3. ASSUME NEW i \in 1 .. Len(q \o t), (q \o t)[i] \in Flows
      PROVE  /\ fl[(q \o t)[i]] # None
             /\ \A j \in 1 .. Len(q \o t) : (q \o t)[j] = (q \o t)[i] => j = i
  <2>1. i \in 1 .. Len(q) /\ (q \o t)[i] = q[i]
    BY <1>1, <1>3, Joined
  <2>2. ASSUME NEW j \in 1 .. Len(q \o t), (q \o t)[j] = (q \o t)[i]
        PROVE  j = i
    <3>1. j \in 1 .. Len(q) /\ (q \o t)[j] = q[j]
      BY <1>1, <1>3, <2>2, Joined
    <3> QED
      BY <1>3, <2>1, <2>2, <3>1 DEF Waiting
  <2> QED
    BY <1>3, <2>1, <2>2 DEF Waiting
<1> QED
  BY <1>1, <1>3, Joined DEF Waiting

(* A queue that was asked something is not empty.                          *)
LEMMA AskedIsNotEmpty ==
  ASSUME NEW q \in Seq(Requests), NEW r \in Requests
  PROVE  q \o <<r>> # <<>>
<1>1. Append(q, r) # <<>>
  BY AppendProperties
<1>2. Append(q, r) = q \o <<r>>
  BY AppendIsConcat
<1> QED
  BY <1>1, <1>2, Zenon

(* A form that has not submitted joins with its submission.                *)
LEMMA FormJoins ==
  ASSUME NEW q \in Seq(Requests), NEW fl \in [Flows -> Creds \cup {None}],
         NEW f \in Flows, NEW c \in Creds, Waiting(q, fl), fl[f] = None
  PROVE  q \o <<f>> \in Seq(Requests) /\ Waiting(q \o <<f>>, [fl EXCEPT ![f] = c])
<1> DEFINE fc == [fl EXCEPT ![f] = c]
<1>1. <<f>> \in Seq(Requests) /\ Len(<<f>>) = 1 /\ <<f>>[1] = f
  BY DEF Requests
<1>2. Len(q) \in Nat
  BY LenProperties
<1>3. \A i \in 1 .. Len(q \o <<f>>) :
        \/ i \in 1 .. Len(q) /\ (q \o <<f>>)[i] = q[i]
        \/ i = Len(q) + 1 /\ (q \o <<f>>)[i] = f
  <2>1. ASSUME NEW i \in 1 .. Len(q \o <<f>>), i - Len(q) \in 1 .. 1
        PROVE  i - Len(q) = 1 /\ i = Len(q) + 1
    <3>1. i \in Int
      BY <1>1, ConcatProperties, LenProperties
    <3> QED
      BY <1>2, <2>1, <3>1
  <2> QED
    BY <1>1, <2>1, Joined
<1>4. \A i \in 1 .. Len(q) : q[i] # f
  BY DEF Waiting
<1>5. fc[f] = c /\ c # None /\ \A g \in Flows \ {f} : fc[g] = fl[g]
  BY CredsAssumption
<1>6. ASSUME NEW i \in 1 .. Len(q \o <<f>>), (q \o <<f>>)[i] \in Flows
      PROVE  /\ fc[(q \o <<f>>)[i]] # None
             /\ \A j \in 1 .. Len(q \o <<f>>) :
                  (q \o <<f>>)[j] = (q \o <<f>>)[i] => j = i
  <2>1. CASE i \in 1 .. Len(q) /\ (q \o <<f>>)[i] = q[i]
    <3>1. fc[q[i]] # None
      BY <1>4, <1>5, <1>6, <2>1 DEF Waiting
    <3>2. ASSUME NEW j \in 1 .. Len(q \o <<f>>), (q \o <<f>>)[j] = q[i]
          PROVE  j = i
      <4>1. j \in 1 .. Len(q) /\ q[j] = q[i]
        BY <1>3, <1>4, <2>1, <3>2
      <4> QED
        BY <1>6, <2>1, <4>1 DEF Waiting
    <3> QED
      BY <2>1, <3>1, <3>2
  <2>2. CASE i = Len(q) + 1 /\ (q \o <<f>>)[i] = f
    BY <1>3, <1>4, <1>5, <2>2
  <2> QED
    BY <1>3, <1>6, <2>1, <2>2
<1>7. q \o <<f>> \in Seq(Requests)
  BY <1>1, ConcatProperties
<1> QED
  BY <1>6, <1>7 DEF Waiting

(* The head is served: a form that waited has no submission left.          *)
LEMMA HeadLeaves ==
  ASSUME NEW q \in Seq(Requests), q # <<>>, NEW fl \in [Flows -> Creds \cup {None}],
         Waiting(q, fl)
  PROVE  /\ Tail(q) \in Seq(Requests)
         /\ Head(q) \in Requests
         /\ Head(q) \notin Flows => Waiting(Tail(q), fl)
         /\ Head(q) \in Flows => /\ fl[Head(q)] \in Creds
                                 /\ Waiting(Tail(q), [fl EXCEPT ![Head(q)] = None])
<1>1. /\ Head(q) = q[1] /\ Head(q) \in Requests /\ Tail(q) \in Seq(Requests)
      /\ Len(Tail(q)) = Len(q) - 1
      /\ \A i \in 1 .. Len(Tail(q)) : Tail(q)[i] = q[i + 1]
  BY HeadTailProperties
<1>2. Len(q) \in Nat \ {0} /\ 1 \in 1 .. Len(q)
  BY LenProperties, EmptySeq
<1>3. \A i \in 1 .. Len(Tail(q)) : i + 1 \in 1 .. Len(q) /\ i + 1 # 1
  BY <1>1, <1>2
<1>4. Waiting(Tail(q), fl)
  <2>1. ASSUME NEW i \in 1 .. Len(Tail(q)), NEW j \in 1 .. Len(Tail(q)),
               Tail(q)[i] \in Flows, Tail(q)[j] = Tail(q)[i]
        PROVE  j = i
    <3>1. j + 1 = i + 1
      BY <1>1, <1>3, <2>1 DEF Waiting
    <3>2. i \in Int /\ j \in Int
      BY <1>1, <1>2
    <3> QED
      BY <3>1, <3>2
  <2>2. \A i \in 1 .. Len(Tail(q)) : Tail(q)[i] \in Flows => fl[Tail(q)[i]] # None
    BY <1>1, <1>3 DEF Waiting
  <2> QED
    BY <2>1, <2>2 DEF Waiting
<1>5. ASSUME Head(q) \in Flows
      PROVE  /\ fl[Head(q)] \in Creds
             /\ Waiting(Tail(q), [fl EXCEPT ![Head(q)] = None])
  <2>1. fl[Head(q)] # None
    BY <1>1, <1>2, <1>5 DEF Waiting
  <2>2. \A i \in 1 .. Len(Tail(q)) : Tail(q)[i] # Head(q)
    BY <1>1, <1>2, <1>3, <1>5 DEF Waiting
  <2> QED
    BY <1>4, <1>5, <2>1, <2>2 DEF Waiting
<1> QED
  BY <1>1, <1>4, <1>5

-----------------------------------------------------------------------------
(* Where setups and unloads may be, and what is there meanwhile: no        *)
(* coordinator before one is constructed, no device that a user removed    *)
(* while the entry is not loaded, credentials wherever they are used.      *)
Stages ==
  /\ step = "unloading" => state = "loaded"
  /\ step \in {"unloaded", "signing", "reading"} => state = "not_loaded"
  /\ step = "unloaded" \/ (step = "idle" /\ state # "loaded") => coord = NoCoordinator
  /\ step \in {"signing", "reading"} \/ state = "loaded" => coord.creds # None
  /\ step # "idle" => queue # <<>>
  /\ state # "loaded" => forgotten = {}

(* Nothing goes on before there is an entry.                               *)
Entered ==
  entry.creds = None =>
    /\ entry = NoEntry
    /\ queue = <<>> /\ step = "idle" /\ state = "not_loaded"

IInv == TypeOK /\ Stages /\ Entered /\ Waiting(queue, flow)

LEMMA InitIInv == Init => IInv
<1> SUFFICES ASSUME Init PROVE IInv
  OBVIOUS
<1>1. /\ state = "not_loaded" /\ step = "idle" /\ flow = NoneSubmitted
      /\ coord = NoCoordinator /\ listening = FALSE /\ missed = FALSE
      /\ listed = {} /\ data = {} /\ seen = {} /\ forgotten = {}
      /\ shared = {} /\ press = None /\ strays = {} /\ owned \in Sharing
      /\ submits = 0 /\ changes = 0 /\ fails = 0
  BY DEF Init
<1>2. /\ entry \in [creds : Creds \cup {None}, uid : Accounts \cup {None},
                    options : Options \cup {None}, version : {1, 2}]
      /\ queue \in Seq(Requests)
      /\ registry \in SUBSET Machines
      /\ entry.creds = None => entry = NoEntry /\ queue = <<>>
      /\ Waiting(queue, flow)
  <2>1. CASE entry = NoEntry /\ queue = <<>> /\ registry = {}
    <3>1. /\ NoEntry \in [creds : Creds \cup {None}, uid : Accounts \cup {None},
                          options : Options \cup {None}, version : {1, 2}]
          /\ queue \in Seq(Requests) /\ Len(queue) = 0
      BY <2>1, EmptySeq DEF NoEntry
    <3> QED
      BY <2>1, <3>1 DEF Waiting
  <2>2. CASE /\ \E c \in Creds, v \in {1, 2} :
                  entry = [creds |-> c, uid |-> IF v = 1 THEN None ELSE Account[c],
                           options |-> Default, version |-> v]
             /\ queue = <<"setup">>
             /\ registry \in SUBSET Machines
    <3>1. queue \in Seq(Requests) /\ Len(queue) = 1 /\ queue[1] = "setup"
      BY <2>2 DEF Requests
    <3>2. "setup" \notin Flows
      BY CredsAssumption
    <3>3. Waiting(queue, flow)
      BY <3>1, <3>2 DEF Waiting
    <3>4. /\ entry \in [creds : Creds \cup {None}, uid : Accounts \cup {None},
                        options : Options \cup {None}, version : {1, 2}]
          /\ entry.creds # None
      BY <2>2, CredsAssumption
    <3> QED
      BY <2>2, <3>1, <3>3, <3>4
  <2> QED
    BY <2>1, <2>2 DEF Init
<1>3. /\ coord \in [creds : Creds \cup {None}, options : Options \cup {None}]
      /\ flow \in [Flows -> Creds \cup {None}]
      /\ owned \in [Accounts -> SUBSET Machines]
  BY <1>1, CredsAssumption DEF NoCoordinator, NoneSubmitted
<1>4. submits \in 0 .. MaxSubmits /\ changes \in 0 .. MaxChanges /\ fails \in 0 .. MaxFails
  BY <1>1, BoundsAssumption
<1>5. TypeOK
  BY <1>1, <1>2, <1>3, <1>4 DEF TypeOK
<1>6. Stages /\ Entered
  BY <1>1, <1>2 DEF Stages, Entered
<1> QED
  BY <1>2, <1>5, <1>6 DEF IInv

-----------------------------------------------------------------------------
(* A change of the entry is heard by nobody or by the listener.            *)
LEMMA ListenedPlain ==
  /\ <<>> \in Seq(Plain) /\ <<"listener">> \in Seq(Plain) /\ <<"scheduled">> \in Seq(Plain)
  /\ \A changed \in BOOLEAN : Listened(changed) \in Seq(Plain)
<1>1. <<>> \in Seq(Plain)
  BY EmptySeq
<1>2. <<"listener">> \in Seq(Plain) /\ <<"scheduled">> \in Seq(Plain)
  BY DEF Plain
<1>3. ASSUME NEW changed \in BOOLEAN
      PROVE  Listened(changed) \in Seq(Plain)
  <2>1. CASE changed /\ listening
    BY <1>2, <2>1 DEF Listened
  <2>2. CASE ~(changed /\ listening)
    BY <1>1, <2>2 DEF Listened
  <2> QED
    BY <2>1, <2>2
<1> QED
  BY <1>1, <1>2, <1>3

(* The end of a reload keeps the queue, the entry and the forms typed.     *)
LEMMA ReleaseKeeps ==
  ASSUME IInv, NEW heard \in BOOLEAN, step # "idle", Release(heard)
  PROVE  /\ queue' \in Seq(Requests) /\ Waiting(queue, flow)'
         /\ flow' \in [Flows -> Creds \cup {None}]
         /\ entry' \in [creds : Creds \cup {None}, uid : Accounts \cup {None},
                        options : Options \cup {None}, version : {1, 2}]
         /\ step' = "idle" /\ entry'.creds = entry.creds /\ entry.creds # None
<1>1. /\ queue \in Seq(Requests) /\ queue # <<>> /\ Waiting(queue, flow)
      /\ flow \in [Flows -> Creds \cup {None}]
      /\ entry \in [creds : Creds \cup {None}, uid : Accounts \cup {None},
                    options : Options \cup {None}, version : {1, 2}]
      /\ entry.creds # None
  BY DEF IInv, TypeOK, Stages, Entered
<1>2. /\ Tail(queue) \in Seq(Requests)
      /\ Head(queue) \notin Flows => Waiting(Tail(queue), flow)
      /\ Head(queue) \in Flows =>
           /\ flow[Head(queue)] \in Creds
           /\ Waiting(Tail(queue), [flow EXCEPT ![Head(queue)] = None])
  BY <1>1, HeadLeaves
<1>3. CASE Head(queue) \notin Flows
  <2>1. queue' = Tail(queue) /\ UNCHANGED <<entry, flow>> /\ step' = "idle"
    BY <1>3 DEF Release
  <2> QED
    BY <1>1, <1>2, <1>3, <2>1
<1>4. CASE Head(queue) \in Flows
  <2> DEFINE c == flow[Head(queue)]
             heardBy == IF heard /\ UniqueId(c) # entry.uid THEN <<"listener">> ELSE <<>>
  <2>1. /\ entry' = [entry EXCEPT !.uid = UniqueId(c)]
        /\ queue' = Tail(queue) \o heardBy \o <<"scheduled">>
        /\ flow' = [flow EXCEPT ![Head(queue)] = None]
        /\ step' = "idle"
    BY <1>4 DEF Release
  <2>2. heardBy \in Seq(Plain) /\ <<"scheduled">> \in Seq(Plain)
    <3>1. CASE heard /\ UniqueId(c) # entry.uid
      BY <3>1, ListenedPlain
    <3>2. CASE ~(heard /\ UniqueId(c) # entry.uid)
      BY <3>2, ListenedPlain
    <3> QED
      BY <3>1, <3>2
  <2>3. Tail(queue) \o heardBy \in Seq(Requests) /\ Waiting(Tail(queue) \o heardBy, flow')
    BY <1>2, <1>4, <2>1, <2>2, PlainJoins
  <2>4. queue' \in Seq(Requests) /\ Waiting(queue', flow')
    BY <2>1, <2>2, <2>3, PlainJoins
  <2>5. UniqueId(c) \in Accounts
    BY <1>2, <1>4, CredsAssumption DEF UniqueId
  <2>6. flow' \in [Flows -> Creds \cup {None}]
    BY <1>1, <2>1
  <2>7. /\ entry' \in [creds : Creds \cup {None}, uid : Accounts \cup {None},
                       options : Options \cup {None}, version : {1, 2}]
        /\ entry'.creds = entry.creds
    BY <1>1, <2>1, <2>5
  <2> QED
    BY <1>1, <2>1, <2>4, <2>6, <2>7
<1> QED
  BY <1>3, <1>4

-----------------------------------------------------------------------------
(* Every step keeps the invariant.                                         *)
LEMMA StepKeepsIInv ==
  ASSUME IInv, [Next]_vars
  PROVE  IInv'
<1> USE DEF IInv
<1>0. /\ entry \in [creds : Creds \cup {None}, uid : Accounts \cup {None},
                    options : Options \cup {None}, version : {1, 2}]
      /\ coord \in [creds : Creds \cup {None}, options : Options \cup {None}]
      /\ queue \in Seq(Requests)
      /\ flow \in [Flows -> Creds \cup {None}]
      /\ owned \in [Accounts -> SUBSET Machines]
      /\ submits \in 0 .. MaxSubmits /\ changes \in 0 .. MaxChanges /\ fails \in 0 .. MaxFails
      /\ MaxSubmits \in Nat /\ MaxChanges \in Nat /\ MaxFails \in Nat
      /\ None \notin Creds /\ \A c \in Creds : Account[c] \in Accounts
  BY BoundsAssumption, CredsAssumption DEF TypeOK
<1>1. CASE UNCHANGED vars
  BY <1>1 DEF vars, lock, devices, clients, bounds, TypeOK, Stages, Entered
<1>2. ASSUME NEW f \in Flows, NEW c \in Creds, Resubmit(f, c)
      PROVE  IInv'
  <2>1. queue \o Listened(c # entry.creds) \in Seq(Requests)
        /\ Waiting(queue \o Listened(c # entry.creds), flow)
    BY <1>0, ListenedPlain, PlainJoins
  <2>2. queue' \in Seq(Requests) /\ Waiting(queue, flow)'
    BY <1>0, <1>2, <2>1, FormJoins DEF Resubmit
  <2>3. entry' = [entry EXCEPT !.creds = c] /\ entry.creds # None
    BY <1>2 DEF Resubmit, Entered
  <2>4. entry' \in [creds : Creds \cup {None}, uid : Accounts \cup {None},
                   options : Options \cup {None}, version : {1, 2}]
        /\ entry'.creds = c
    BY <1>0, <2>3
  <2>5. flow' \in [Flows -> Creds \cup {None}]
    BY <1>0, <1>2 DEF Resubmit
  <2>6. submits' \in 0 .. MaxSubmits /\ UNCHANGED <<changes, fails>>
    BY <1>0, <1>2 DEF Resubmit, Submit
  <2>7. queue' # <<>>
    <3>1. queue' = (queue \o Listened(c # entry.creds)) \o <<f>>
      BY <1>2 DEF Resubmit
    <3>2. f \in Requests
      BY DEF Requests
    <3>3. (queue \o Listened(c # entry.creds)) \o <<f>> # <<>>
      BY <2>1, <3>2, AskedIsNotEmpty
    <3> QED
      BY <3>1, <3>3, Zenon
  <2>8. TypeOK'
    BY <1>2, <2>2, <2>4, <2>5, <2>6 DEF Resubmit, devices, clients, TypeOK
  <2>9. Stages' /\ Entered'
    BY <1>0, <1>2, <2>4, <2>7 DEF Resubmit, devices, clients, Stages, Entered
  <2> QED
    BY <2>2, <2>8, <2>9
<1>3. ASSUME NEW c \in Creds, Create(c)
      PROVE  IInv'
  <2>1. entry' \in [creds : Creds \cup {None}, uid : Accounts \cup {None},
                   options : Options \cup {None}, version : {1, 2}]
        /\ entry'.creds = c
    BY <1>0, <1>3, CredsAssumption DEF Create, UniqueId
  <2>2. queue' \in Seq(Requests) /\ Len(queue') = 1 /\ queue'[1] = "setup"
    BY <1>3 DEF Create, Requests
  <2>3. Waiting(queue, flow)'
    BY <2>2, CredsAssumption DEF Waiting
  <2>4. submits' \in 0 .. MaxSubmits /\ UNCHANGED <<changes, fails>>
    BY <1>0, <1>3 DEF Create, Submit
  <2>5. queue' # <<>>
    <3>1. Len(<<>>) = 0 /\ Len(queue') # 0
      BY <2>2, EmptySeq
    <3> QED
      BY <3>1, Zenon
  <2>6. TypeOK'
    BY <1>3, <2>1, <2>2, <2>4 DEF Create, devices, clients, TypeOK
  <2>7. Stages' /\ Entered'
    BY <1>0, <1>3, <2>1, <2>5 DEF Create, devices, clients, Stages, Entered
  <2> QED
    BY <2>2, <2>3, <2>6, <2>7
<1>4. ASSUME NEW o \in Options, SetOptions(o)
      PROVE  IInv'
  <2>1. queue' \in Seq(Requests) /\ Waiting(queue, flow)'
    <3>1. flow' = flow /\ queue' = queue \o Listened(TRUE)
      BY <1>4 DEF SetOptions
    <3> QED
      BY <1>0, <3>1, ListenedPlain, PlainJoins
  <2>2. entry' \in [creds : Creds \cup {None}, uid : Accounts \cup {None},
                   options : Options \cup {None}, version : {1, 2}]
        /\ entry'.creds = entry.creds /\ entry.creds # None
    BY <1>0, <1>4 DEF SetOptions, Entered
  <2>3. queue # <<>> => queue' # <<>>
    BY <1>0, <1>4, ListenedPlain, PlainJoins, ConcatEqualIffEmpty, EmptySeq
       DEF SetOptions, Requests, Listened
  <2>4. changes' \in 0 .. MaxChanges /\ missed' \in BOOLEAN
    BY <1>0, <1>4 DEF SetOptions, TypeOK
  <2>5. TypeOK'
    BY <1>4, <2>1, <2>2, <2>4 DEF SetOptions, devices, clients, TypeOK
  <2>6. Stages' /\ Entered'
    BY <1>4, <2>2, <2>3 DEF SetOptions, devices, clients, Stages, Entered
  <2> QED
    BY <2>1, <2>5, <2>6
<1>5. CASE UnloadBegins
  <2>1. TypeOK'
    BY <1>5 DEF UnloadBegins, devices, clients, bounds, TypeOK
  <2>2. Stages' /\ Entered'
    BY <1>5 DEF UnloadBegins, devices, clients, bounds, Stages, Entered
  <2> QED
    BY <1>5, <2>1, <2>2 DEF UnloadBegins
<1>6. CASE Unload
  <2>1. NoCoordinator \in [creds : Creds \cup {None}, options : Options \cup {None}]
    BY DEF NoCoordinator
  <2>2. TypeOK'
    BY <1>6, <2>1 DEF Unload, bounds, TypeOK
  <2>3. Stages' /\ Entered'
    BY <1>6 DEF Unload, bounds, Stages, Entered
  <2> QED
    BY <1>6, <2>2, <2>3 DEF Unload
<1>7. CASE Construct
  <2>1. entry.creds # None /\ queue # <<>>
    BY <1>7 DEF Construct, Stages, Entered
  <2>2. coord' = [creds |-> entry.creds, options |-> entry.options]
    BY <1>7 DEF Construct
  <2>3. entry' \in [creds : Creds \cup {None}, uid : Accounts \cup {None},
                   options : Options \cup {None}, version : {1, 2}]
        /\ entry'.creds = entry.creds
    <3>1. CASE entry.version = 1
      <4>1. entry' = [entry EXCEPT !.version = 2, !.uid = UniqueId(entry.creds)]
        BY <1>7, <3>1 DEF Construct
      <4>2. UniqueId(entry.creds) \in Accounts
        BY <1>0, <2>1 DEF UniqueId
      <4> QED
        BY <1>0, <4>1, <4>2
    <3>2. CASE entry.version # 1
      BY <1>0, <1>7, <3>2 DEF Construct
    <3> QED
      BY <3>1, <3>2
  <2>4. coord' \in [creds : Creds \cup {None}, options : Options \cup {None}]
        /\ coord'.creds # None
    BY <1>0, <2>1, <2>2
  <2>5. TypeOK'
    BY <1>7, <2>3, <2>4 DEF Construct, devices, clients, bounds, TypeOK
  <2>6. Stages' /\ Entered'
    BY <1>7, <2>1, <2>3, <2>4 DEF Construct, devices, clients, bounds, Stages, Entered
  <2> QED
    BY <1>7, <2>5, <2>6 DEF Construct
<1>8. CASE SignedIn
  <2>1. coord.creds \in Creds
    BY <1>0, <1>8 DEF SignedIn, Stages
  <2>2. TypeOK'
    BY <1>8, <2>1 DEF SignedIn, devices, bounds, TypeOK
  <2>3. Stages' /\ Entered'
    BY <1>8 DEF SignedIn, devices, bounds, Stages, Entered
  <2> QED
    BY <1>8, <2>2, <2>3 DEF SignedIn
<1>9. CASE SetUp
  <2>1. /\ queue' \in Seq(Requests) /\ Waiting(queue, flow)'
        /\ flow' \in [Flows -> Creds \cup {None}]
        /\ entry' \in [creds : Creds \cup {None}, uid : Accounts \cup {None},
                       options : Options \cup {None}, version : {1, 2}]
        /\ step' = "idle" /\ entry'.creds = entry.creds /\ entry.creds # None
    BY <1>9, ReleaseKeeps DEF SetUp
  <2>2. coord.creds \in Creds
    BY <1>0, <1>9 DEF SetUp, Stages
  <2>3. /\ listed' \in SUBSET Machines /\ data' \in SUBSET Machines
        /\ seen' \in SUBSET Machines /\ registry' \in SUBSET Machines
    <3>1. listed' \in SUBSET Machines
      BY <1>0, <1>9, <2>2 DEF SetUp
    <3>2. registry \in SUBSET Machines
      BY DEF TypeOK
    <3> QED
      BY <1>9, <3>1, <3>2 DEF SetUp, Kept
  <2>4. TypeOK'
    BY <1>9, <2>1, <2>3 DEF SetUp, clients, bounds, TypeOK
  <2>5. Stages' /\ Entered'
    BY <1>9, <2>1 DEF SetUp, clients, bounds, Stages, Entered
  <2> QED
    BY <2>1, <2>4, <2>5
<1>10. CASE SetupFails
  <2>1. /\ queue' \in Seq(Requests) /\ Waiting(queue, flow)'
        /\ flow' \in [Flows -> Creds \cup {None}]
        /\ entry' \in [creds : Creds \cup {None}, uid : Accounts \cup {None},
                       options : Options \cup {None}, version : {1, 2}]
        /\ step' = "idle" /\ entry'.creds = entry.creds /\ entry.creds # None
    BY <1>10, ReleaseKeeps DEF SetupFails
  <2>2. NoCoordinator \in [creds : Creds \cup {None}, options : Options \cup {None}]
    BY DEF NoCoordinator
  <2>3. fails' \in 0 .. MaxFails /\ strays' \in SUBSET Creds
    BY <1>0, <1>10 DEF SetupFails, TypeOK
  <2>4. TypeOK'
    BY <1>10, <2>1, <2>2, <2>3 DEF SetupFails, AfterFailure, devices, TypeOK
  <2>5. Stages' /\ Entered'
    BY <1>10, <2>1 DEF SetupFails, AfterFailure, devices, Stages, Entered
  <2> QED
    BY <2>1, <2>4, <2>5
<1>11. CASE Retry
  <2>1. queue' \in Seq(Requests) /\ Len(queue') = 1 /\ queue'[1] = "setup"
    BY <1>11 DEF Retry, Requests
  <2>2. Waiting(queue, flow)'
    BY <2>1, CredsAssumption DEF Waiting
  <2>3. queue' # <<>> /\ entry.creds # None
    BY <1>11, <2>1 DEF Retry, Entered
  <2>4. TypeOK'
    BY <1>11, <2>1 DEF Retry, devices, clients, bounds, TypeOK
  <2>5. Stages' /\ Entered'
    BY <1>11, <2>3 DEF Retry, devices, clients, bounds, Stages, Entered
  <2> QED
    BY <2>2, <2>4, <2>5
<1>12. CASE Scan
  <2>1. coord.creds \in Creds
    BY <1>0, <1>12 DEF Scan, Stages
  <2>2. listed' \in SUBSET Machines /\ data' \in SUBSET Machines
    <3>1. owned[Account[coord.creds]] \in SUBSET Machines /\ listed \in SUBSET Machines
      BY <1>0, <2>1 DEF TypeOK
    <3> QED
      BY <1>12, <3>1 DEF Scan
  <2>3. seen' \in SUBSET Machines /\ registry' \in SUBSET Machines
    BY <1>12, <2>2 DEF Scan, New, TypeOK
  <2>4. TypeOK'
    BY <1>12, <2>2, <2>3 DEF Scan, lock, clients, bounds, TypeOK
  <2>5. Stages' /\ Entered'
    BY <1>12 DEF Scan, lock, clients, bounds, Stages, Entered
  <2> QED
    BY <1>12, <2>4, <2>5 DEF Scan, lock
<1>13. ASSUME NEW m \in Machines, UserRemoves(m)
       PROVE  IInv'
  <2>1. TypeOK'
    BY <1>13 DEF UserRemoves, lock, clients, bounds, TypeOK
  <2>2. Stages' /\ Entered'
    BY <1>13 DEF UserRemoves, lock, clients, bounds, Stages, Entered
  <2> QED
    BY <1>13, <2>1, <2>2 DEF UserRemoves, lock
<1>14. CASE PressBegins
  <2>1. TypeOK'
    BY <1>0, <1>14 DEF PressBegins, lock, devices, bounds, TypeOK
  <2> QED
    BY <1>14, <2>1 DEF PressBegins, lock, devices, bounds, Stages, Entered
<1>15. CASE PressSignsIn \/ PressFails
  <2>1. TypeOK'
    BY <1>15 DEF PressSignsIn, PressFails, lock, devices, bounds, TypeOK
  <2> QED
    BY <1>15, <2>1 DEF PressSignsIn, PressFails, lock, devices, bounds, Stages, Entered
<1>16. ASSUME NEW a \in Accounts, NEW m \in Machines, AppMoves(a, m)
       PROVE  IInv'
  <2>1. owned' \in [Accounts -> SUBSET Machines] /\ changes' \in 0 .. MaxChanges
    BY <1>0, <1>16 DEF AppMoves
  <2>2. TypeOK'
    BY <1>16, <2>1 DEF AppMoves, lock, devices, clients, TypeOK
  <2> QED
    BY <1>16, <2>2 DEF AppMoves, lock, devices, clients, Stages, Entered
<1>17. ASSUME NEW c \in Creds, Reconfigure(c) \/ Reauthenticate(c)
       PROVE  IInv'
  BY <1>2, <1>17 DEF Reconfigure, Reauthenticate
<1> QED
  BY <1>1, <1>3, <1>4, <1>5, <1>6, <1>7, <1>8, <1>9, <1>10, <1>11, <1>12, <1>13, <1>14,
     <1>15, <1>16, <1>17 DEF Next, Setup

LEMMA InvariantHolds == Spec => []IInv
<1> QED
  BY InitIInv, StepKeepsIInv, PTL DEF Spec

(* Every variable of the entry keeps its type: a form's reload ends with   *)
(* the credentials it submitted, however the forms cross (TypeOK).         *)
THEOREM TypeCorrect == Spec => []TypeOK
<1>1. IInv => TypeOK
  BY DEF IInv
<1> QED
  BY <1>1, InvariantHolds, PTL

-----------------------------------------------------------------------------
LEMMA StepKeepsClients ==
  ASSUME IInv, ClientsAreExplained, [Next]_vars
  PROVE  ClientsAreExplained'
<1> USE DEF ClientsAreExplained
<1>1. ASSUME UNCHANGED <<coord, shared, strays>>
      PROVE  ClientsAreExplained'
  BY <1>1
<1>2. CASE Unload
  BY <1>2 DEF Unload, Cleared
<1>3. CASE Construct
  <2>1. coord = NoCoordinator /\ UNCHANGED <<shared, strays>>
    BY <1>3 DEF Construct, clients, IInv, Stages
  <2>2. None \notin shared
    BY CredsAssumption DEF IInv, TypeOK
  <2> QED
    BY <2>1, <2>2 DEF NoCoordinator
<1>4. CASE SignedIn
  BY <1>4 DEF SignedIn
<1>5. CASE SetupFails
  BY <1>5 DEF SetupFails
<1>6. CASE PressSignsIn
  BY <1>6 DEF PressSignsIn
<1>7. CASE UNCHANGED vars \/ UnloadBegins \/ SetUp \/ Retry \/ Scan \/ PressBegins
           \/ PressFails
  BY <1>1, <1>7 DEF vars, UnloadBegins, SetUp, Retry, Scan, PressBegins, PressFails, clients
<1>8. ASSUME NEW c \in Creds, Create(c) \/ Reconfigure(c) \/ Reauthenticate(c)
      PROVE  ClientsAreExplained'
  BY <1>1, <1>8 DEF Create, Reconfigure, Reauthenticate, Resubmit, clients
<1>9. ASSUME NEW o \in Options, SetOptions(o)
      PROVE  ClientsAreExplained'
  BY <1>1, <1>9 DEF SetOptions, clients
<1>10. ASSUME NEW m \in Machines, UserRemoves(m) \/ \E a \in Accounts : AppMoves(a, m)
       PROVE  ClientsAreExplained'
  BY <1>1, <1>10 DEF UserRemoves, AppMoves, clients
<1> QED
  BY <1>2, <1>3, <1>4, <1>5, <1>6, <1>7, <1>8, <1>9, <1>10 DEF Next, Setup

(* An unload leaves no client registered: one that stays is the            *)
(* coordinator's, or was left by a failed setup or a late press.           *)
THEOREM ClientsHaveAReason == Spec => []ClientsAreExplained
<1>1. Init => ClientsAreExplained
  BY DEF Init, ClientsAreExplained
<1> QED
  BY <1>1, InvariantHolds, StepKeepsClients, PTL DEF Spec

-----------------------------------------------------------------------------
(* A device that a user removed is one the platforms have seen.            *)
DevicesInv == DevicesAreTheMachines /\ (state = "loaded" => forgotten \subseteq seen)

LEMMA StepKeepsDevices ==
  ASSUME IInv, DevicesInv, [Next]_vars
  PROVE  DevicesInv'
<1> USE DEF DevicesInv, DevicesAreTheMachines
<1>1. ASSUME UNCHANGED devices, state' = state \/ state' # "loaded"
      PROVE  DevicesInv'
  BY <1>1 DEF devices
<1>2. CASE SetUp
  <2>1. forgotten = {}
    BY <1>2 DEF SetUp, IInv, Stages
  <2> QED
    BY <1>2, <2>1 DEF SetUp, Kept
<1>3. CASE Unload
  BY <1>3 DEF Unload
<1>4. CASE Scan
  <2>1. registry' = registry \cup (data' \ seen) /\ seen' = seen \cup data'
        /\ forgotten' = forgotten /\ state' = state /\ state = "loaded"
    BY <1>4 DEF Scan, New
  <2> QED
    BY <2>1
<1>5. ASSUME NEW m \in Machines, UserRemoves(m)
      PROVE  DevicesInv'
  BY <1>5 DEF UserRemoves
<1>6. CASE UNCHANGED vars \/ UnloadBegins \/ Construct \/ SignedIn \/ SetupFails \/ Retry
           \/ PressBegins \/ PressSignsIn \/ PressFails
  BY <1>1, <1>6 DEF vars, UnloadBegins, Construct, SignedIn, SetupFails, AfterFailure,
                    Retry, PressBegins, PressSignsIn, PressFails
<1>7. ASSUME NEW c \in Creds, Create(c) \/ Reconfigure(c) \/ Reauthenticate(c)
      PROVE  DevicesInv'
  BY <1>1, <1>7 DEF Create, Reconfigure, Reauthenticate, Resubmit
<1>8. ASSUME NEW o \in Options, SetOptions(o)
      PROVE  DevicesInv'
  BY <1>1, <1>8 DEF SetOptions
<1>9. ASSUME NEW a \in Accounts, NEW m \in Machines, AppMoves(a, m)
      PROVE  DevicesInv'
  BY <1>1, <1>9 DEF AppMoves
<1> QED
  BY <1>2, <1>3, <1>4, <1>5, <1>6, <1>7, <1>8, <1>9 DEF Next, Setup

(* The devices of a loaded entry are the machines that were read since it  *)
(* was loaded, less those a user removed.                                  *)
THEOREM DevicesAreRead == Spec => []DevicesAreTheMachines
<1>1. Init => DevicesInv
  BY DEF Init, DevicesInv, DevicesAreTheMachines
<1>2. DevicesInv => DevicesAreTheMachines
  BY DEF DevicesInv
<1> QED
  BY <1>1, <1>2, InvariantHolds, StepKeepsDevices, PTL DEF Spec

-----------------------------------------------------------------------------
(* Whose account an entry is named by: the form that waits last submitted  *)
(* what the entry says, and with no form waiting the entry has the name of *)
(* its credentials, or is of the first version.                            *)
Named(q, fl, e) ==
  /\ (\A i \in 1 .. Len(q) : q[i] \notin Flows) =>
       e.version = 1 \/ e.uid = Account[e.creds]
  /\ \A i \in 1 .. Len(q) :
       q[i] \in Flows /\ (\A j \in 1 .. Len(q) : j > i => q[j] \notin Flows) =>
         fl[q[i]] = e.creds

(* Requests that no form makes change nothing of it.                       *)
LEMMA NamedJoins ==
  ASSUME NEW q \in Seq(Requests), NEW t \in Seq(Plain), NEW fl, NEW e, Named(q, fl, e)
  PROVE  Named(q \o t, fl, e)
<1>1. t \in Seq(Requests) /\ \A i \in 1 .. Len(t) : t[i] \notin Flows
  BY CredsAssumption DEF Requests, Plain
<1>2. /\ Len(q) \in Nat /\ Len(q \o t) \in Nat /\ Len(q) <= Len(q \o t)
      /\ \A i \in 1 .. Len(q) : i \in 1 .. Len(q \o t) /\ (q \o t)[i] = q[i]
  BY <1>1, ConcatProperties, LenProperties
<1>3. \A i \in 1 .. Len(q \o t) : (q \o t)[i] \in Flows => i \in 1 .. Len(q) /\ (q \o t)[i] = q[i]
  BY <1>1, Joined
<1>4. (\A i \in 1 .. Len(q \o t) : (q \o t)[i] \notin Flows) =>
        e.version = 1 \/ e.uid = Account[e.creds]
  BY <1>2 DEF Named
<1>5. ASSUME NEW i \in 1 .. Len(q \o t), (q \o t)[i] \in Flows,
             \A j \in 1 .. Len(q \o t) : j > i => (q \o t)[j] \notin Flows
      PROVE  fl[(q \o t)[i]] = e.creds
  <2>1. i \in 1 .. Len(q) /\ q[i] \in Flows /\ (q \o t)[i] = q[i]
    BY <1>3, <1>5
  <2>2. \A j \in 1 .. Len(q) : j > i => q[j] \notin Flows
    BY <1>2, <1>5
  <2> QED
    BY <2>1, <2>2 DEF Named
<1> QED
  BY <1>4, <1>5 DEF Named

(* A form that joins is the last, and has submitted what the entry says.   *)
LEMMA NamedByForm ==
  ASSUME NEW q \in Seq(Requests), NEW fl \in [Flows -> Creds \cup {None}],
         NEW f \in Flows, NEW e, e.creds \in Creds
  PROVE  Named(q \o <<f>>, [fl EXCEPT ![f] = e.creds], e)
<1> DEFINE all == q \o <<f>>
           fc == [fl EXCEPT ![f] = e.creds]
<1>1. <<f>> \in Seq(Requests) /\ Len(<<f>>) = 1 /\ <<f>>[1] = f
  BY DEF Requests
<1>2. Len(q) \in Nat /\ Len(all) = Len(q) + 1 /\ all[Len(q) + 1] = f
  BY <1>1, ConcatProperties, LenProperties
<1>3. fc[f] = e.creds
  OBVIOUS
<1> HIDE DEF all, fc
<1>4. Len(all) \in 1 .. Len(all) /\ all[Len(all)] = f
  BY <1>2
<1>5. ASSUME NEW i \in 1 .. Len(all), \A j \in 1 .. Len(all) : j > i => all[j] \notin Flows
      PROVE  all[i] = f
  <2>1. i = Len(all)
    BY <1>2, <1>4, <1>5
  <2> QED
    BY <1>4, <2>1
<1>6. Named(all, fc, e)
  BY <1>3, <1>4, <1>5 DEF Named
<1> QED
  BY <1>6 DEF all, fc

(* When a form has been served and it was the last, the entry has its name. *)
LEMMA NamedByHead ==
  ASSUME NEW q \in Seq(Requests), q # <<>>, NEW fl \in [Flows -> Creds \cup {None}],
         NEW e, Waiting(q, fl), Named(q, fl, e)
  PROVE  /\ Head(q) \notin Flows => Named(Tail(q), fl, e)
         /\ Head(q) \in Flows =>
              \A d : d.creds = e.creds /\ d.uid = Account[fl[Head(q)]] =>
                Named(Tail(q), [fl EXCEPT ![Head(q)] = None], d)
<1>1. /\ Head(q) = q[1] /\ Tail(q) \in Seq(Requests)
      /\ Len(Tail(q)) = Len(q) - 1
      /\ \A i \in 1 .. Len(Tail(q)) : Tail(q)[i] = q[i + 1]
  BY HeadTailProperties
<1>2. Len(q) \in Nat \ {0} /\ 1 \in 1 .. Len(q)
  BY LenProperties, EmptySeq
<1>3. \A i \in 1 .. Len(Tail(q)) : i + 1 \in 1 .. Len(q) /\ i + 1 # 1
  BY <1>1, <1>2
<1>4. \A j \in 1 .. Len(q) : j # 1 => j - 1 \in 1 .. Len(Tail(q)) /\ Tail(q)[j - 1] = q[j]
  BY <1>1, <1>2
<1>5. ASSUME NEW i \in 1 .. Len(Tail(q)), Tail(q)[i] \in Flows,
             \A j \in 1 .. Len(Tail(q)) : j > i => Tail(q)[j] \notin Flows
      PROVE  fl[Tail(q)[i]] = e.creds
  <2>1. i \in Int /\ i + 1 \in 1 .. Len(q) /\ q[i + 1] = Tail(q)[i]
    BY <1>1, <1>2, <1>3
  <2>2. ASSUME NEW j \in 1 .. Len(q), j > i + 1
        PROVE  q[j] \notin Flows
    <3>1. j # 1 /\ j - 1 > i
      BY <1>5, <2>1, <2>2
    <3> QED
      BY <1>4, <1>5, <3>1
  <2> QED
    BY <1>5, <2>1, <2>2 DEF Named
<1>6. CASE Head(q) \notin Flows
  <2>1. ASSUME \A i \in 1 .. Len(Tail(q)) : Tail(q)[i] \notin Flows
        PROVE  \A i \in 1 .. Len(q) : q[i] \notin Flows
    BY <1>1, <1>4, <1>6, <2>1
  <2>2. (\A i \in 1 .. Len(Tail(q)) : Tail(q)[i] \notin Flows) =>
          e.version = 1 \/ e.uid = Account[e.creds]
    BY <2>1 DEF Named
  <2>3. Named(Tail(q), fl, e)
    BY <1>5, <2>2 DEF Named
  <2> QED
    BY <1>6, <2>3
<1>7. ASSUME Head(q) \in Flows, NEW d, d.creds = e.creds, d.uid = Account[fl[Head(q)]]
      PROVE  Named(Tail(q), [fl EXCEPT ![Head(q)] = None], d)
  <2>1. \A i \in 1 .. Len(Tail(q)) : Tail(q)[i] # Head(q)
    BY <1>1, <1>2, <1>3, <1>7 DEF Waiting
  <2>2. (\A i \in 1 .. Len(Tail(q)) : Tail(q)[i] \notin Flows) => fl[Head(q)] = e.creds
    <3> SUFFICES ASSUME \A i \in 1 .. Len(Tail(q)) : Tail(q)[i] \notin Flows
                 PROVE  fl[Head(q)] = e.creds
      OBVIOUS
    <3>1. \A j \in 1 .. Len(q) : j > 1 => q[j] \notin Flows
      BY <1>2, <1>4
    <3> QED
      BY <1>1, <1>2, <1>7, <3>1 DEF Named
  <2> DEFINE fn == [fl EXCEPT ![Head(q)] = None]
  <2>3. \A i \in 1 .. Len(Tail(q)) : Tail(q)[i] \in Flows => fn[Tail(q)[i]] = fl[Tail(q)[i]]
    BY <2>1
  <2> HIDE DEF fn
  <2>4. Named(Tail(q), fn, d)
    BY <1>5, <1>7, <2>2, <2>3 DEF Named
  <2> QED
    BY <2>4 DEF fn
<1> QED
  BY <1>6, <1>7

(* A reload is asked for beside the one that has the lock.                 *)
Asked == Len(queue) >= IF step = "idle" THEN 1 ELSE 2

(* A coordinator that serves, or is about to, has what the entry says, or  *)
(* a reload will make another.                                             *)
Served ==
  step \in {"signing", "reading"} \/ (state = "loaded" /\ step = "idle") =>
    /\ entry.version = 2
    /\ coord.creds = entry.creds \/ Asked
    /\ coord.options = entry.options \/ missed \/ Asked

Current == Served /\ (entry.creds # None => Named(queue, flow, entry))

(* What asks for a reload stays asked while the lock is not given up.      *)
LEMMA AskedMore ==
  ASSUME NEW q \in Seq(Requests), NEW t \in Seq(Requests)
  PROVE  /\ Len(q \o t) \in Nat /\ Len(q) \in Nat
         /\ Len(q \o t) = Len(q) + Len(t)
  BY ConcatProperties, LenProperties

(* A reload that ends leaves what else was asked for, and names the entry. *)
LEMMA ReleaseNames ==
  ASSUME IInv, NEW heard \in BOOLEAN, step # "idle", Release(heard),
         Named(queue, flow, entry)
  PROVE  /\ Named(queue', flow', entry')
         /\ Len(queue') >= Len(queue) - 1 /\ Len(queue') \in Nat /\ Len(queue) \in Nat
         /\ entry'.creds = entry.creds /\ entry'.options = entry.options
         /\ entry'.version = entry.version
<1>1. /\ queue \in Seq(Requests) /\ queue # <<>> /\ Waiting(queue, flow)
      /\ flow \in [Flows -> Creds \cup {None}]
      /\ entry \in [creds : Creds \cup {None}, uid : Accounts \cup {None},
                    options : Options \cup {None}, version : {1, 2}]
  BY DEF IInv, TypeOK, Stages
<1>2. /\ Tail(queue) \in Seq(Requests) /\ Len(Tail(queue)) = Len(queue) - 1
      /\ Len(queue) \in Nat /\ Len(Tail(queue)) \in Nat
  BY <1>1, HeadTailProperties, LenProperties
<1>3. CASE Head(queue) \notin Flows
  <2>1. queue' = Tail(queue) /\ UNCHANGED <<entry, flow>>
    BY <1>3 DEF Release
  <2>2. Named(Tail(queue), flow, entry)
    BY <1>1, <1>3, NamedByHead
  <2> QED
    BY <1>2, <2>1, <2>2
<1>4. CASE Head(queue) \in Flows
  <2> DEFINE c == flow[Head(queue)]
             heardBy == IF heard /\ UniqueId(c) # entry.uid THEN <<"listener">> ELSE <<>>
  <2>1. /\ entry' = [entry EXCEPT !.uid = UniqueId(c)]
        /\ queue' = Tail(queue) \o heardBy \o <<"scheduled">>
        /\ flow' = [flow EXCEPT ![Head(queue)] = None]
    BY <1>4 DEF Release
  <2>2. heardBy \in Seq(Plain) /\ <<"scheduled">> \in Seq(Plain)
    <3>1. CASE heard /\ UniqueId(c) # entry.uid
      BY <3>1, ListenedPlain
    <3>2. CASE ~(heard /\ UniqueId(c) # entry.uid)
      BY <3>2, ListenedPlain
    <3> QED
      BY <3>1, <3>2
  <2>3. /\ entry'.uid = Account[c] /\ entry'.creds = entry.creds
        /\ entry'.options = entry.options /\ entry'.version = entry.version
    BY <1>1, <2>1 DEF UniqueId
  <2> HIDE DEF heardBy
  <2>4. Named(Tail(queue), flow', entry')
    BY <1>1, <1>4, <2>1, <2>3, NamedByHead
  <2>5. Waiting(Tail(queue), flow')
    BY <1>1, <1>4, <2>1, HeadLeaves
  <2>6. Tail(queue) \o heardBy \in Seq(Requests) /\ Named(Tail(queue) \o heardBy, flow', entry')
    BY <1>2, <2>2, <2>4, <2>5, NamedJoins, PlainJoins
  <2>7. Named(queue', flow', entry')
    BY <2>1, <2>2, <2>6, NamedJoins
  <2>8. heardBy \in Seq(Requests) /\ <<"scheduled">> \in Seq(Requests)
    BY <2>2 DEF Plain, Requests
  <2>9. /\ Len(Tail(queue) \o heardBy) = Len(Tail(queue)) + Len(heardBy)
        /\ Len(heardBy) \in Nat
    BY <1>2, <2>8, AskedMore, LenProperties
  <2>10. /\ Len(queue') = Len(Tail(queue) \o heardBy) + Len(<<"scheduled">>)
         /\ Len(<<"scheduled">>) \in Nat
    BY <2>1, <2>6, <2>8, AskedMore, LenProperties
  <2>11. Len(queue') >= Len(queue) - 1 /\ Len(queue') \in Nat
    BY <1>2, <2>9, <2>10
  <2> QED
    BY <1>2, <2>3, <2>7, <2>11
<1> QED
  BY <1>3, <1>4

(* Before anything was asked, the entry is new or of the first version.    *)
LEMMA InitCurrent == Init => Current
<1> SUFFICES ASSUME Init
             PROVE  Current
  OBVIOUS
<1>1. Served
  BY DEF Init, Served
<1>2. ASSUME entry.creds # None
      PROVE  Named(queue, flow, entry)
  <2>1. /\ \E c \in Creds, v \in {1, 2} :
             entry = [creds |-> c, uid |-> IF v = 1 THEN None ELSE Account[c],
                      options |-> Default, version |-> v]
        /\ queue = <<"setup">>
    BY <1>2 DEF Init, NoEntry
  <2>2. queue[1] \notin Flows /\ Len(queue) = 1
    BY <2>1, CredsAssumption
  <2>3. entry.version = 1 \/ entry.uid = Account[entry.creds]
    BY <2>1
  <2> QED
    BY <2>2, <2>3 DEF Named
<1> QED
  BY <1>1, <1>2 DEF Current

(* Every step keeps it: whoever changes the entry asks for a reload, or    *)
(* finds a setup that has read it already and cannot be told (missed).     *)
LEMMA StepKeepsCurrent ==
  ASSUME IInv, Current, [Next]_vars
  PROVE  Current'
<1>1. /\ entry \in [creds : Creds \cup {None}, uid : Accounts \cup {None},
                    options : Options \cup {None}, version : {1, 2}]
      /\ coord \in [creds : Creds \cup {None}, options : Options \cup {None}]
      /\ queue \in Seq(Requests) /\ Len(queue) \in Nat
      /\ flow \in [Flows -> Creds \cup {None}]
      /\ step \in {"idle", "unloading", "unloaded", "signing", "reading"}
      /\ Waiting(queue, flow)
      /\ listening \in BOOLEAN /\ missed \in BOOLEAN
  BY LenProperties DEF IInv, TypeOK
<1>2. ASSUME UNCHANGED <<entry, queue, flow>>, Served'
      PROVE  Current'
  BY <1>2 DEF Current
<1>3. ASSUME UNCHANGED <<entry, queue, flow, state, step, coord, missed>>
      PROVE  Current'
  BY <1>3 DEF Current, Served, Asked
<1>4. CASE \/ UNCHANGED vars
           \/ Scan \/ PressBegins \/ PressSignsIn \/ PressFails
           \/ \E m \in Machines : UserRemoves(m)
           \/ \E a \in Accounts, m \in Machines : AppMoves(a, m)
  BY <1>3, <1>4 DEF vars, lock, Scan, PressBegins, PressSignsIn, PressFails, UserRemoves, AppMoves
<1>5. ASSUME NEW f \in Flows, NEW c \in Creds, Resubmit(f, c)
      PROVE  Current'
  <2>1. /\ entry.creds # None /\ flow[f] = None
        /\ entry' = [entry EXCEPT !.creds = c]
        /\ flow' = [flow EXCEPT ![f] = c]
        /\ queue' = queue \o Listened(c # entry.creds) \o <<f>>
        /\ UNCHANGED <<state, step, coord, missed>>
    BY <1>5 DEF Resubmit, lock, IInv, Entered
  <2>2. /\ entry'.creds = c /\ entry'.version = entry.version
        /\ entry'.options = entry.options /\ c # None
    BY <1>1, <2>1, CredsAssumption
  <2>3. Listened(c # entry.creds) \in Seq(Plain)
    BY ListenedPlain
  <2>4. /\ Listened(c # entry.creds) \in Seq(Requests)
        /\ queue \o Listened(c # entry.creds) \in Seq(Requests)
        /\ <<f>> \in Seq(Requests) /\ Len(<<f>>) = 1
    BY <1>1, <2>3, PlainJoins DEF Plain, Requests
  <2>5. Named(queue', flow', entry')
    BY <1>1, <2>1, <2>2, <2>4, NamedByForm
  <2>6. Len(queue') >= Len(queue) + 1 /\ Len(queue') \in Nat
    <3>1. /\ Len(queue \o Listened(c # entry.creds)) >= Len(queue)
          /\ Len(queue \o Listened(c # entry.creds)) \in Nat
      BY <1>1, <2>4, AskedMore
    <3>2. /\ Len(queue') = Len(queue \o Listened(c # entry.creds)) + 1
          /\ Len(queue') \in Nat
      BY <2>1, <2>4, AskedMore
    <3> QED
      BY <1>1, <3>1, <3>2
  <2>7. step # "idle" => Len(queue) >= 1
    BY <1>1, EmptySeq DEF IInv, Stages
  <2>8. Asked'
    BY <1>1, <2>1, <2>6, <2>7 DEF Asked
  <2>9. Served'
    BY <2>1, <2>2, <2>8 DEF Current, Served
  <2> QED
    BY <2>5, <2>9 DEF Current
<1>6. ASSUME NEW c \in Creds, Create(c)
      PROVE  Current'
  <2>1. /\ entry' = [creds |-> c, uid |-> UniqueId(c), options |-> Default, version |-> 2]
        /\ queue' = <<"setup">> /\ flow' = flow /\ state' = state /\ step' = step
    BY <1>6 DEF Create
  <2>2. state = "not_loaded" /\ step = "idle"
    BY <1>6 DEF Create, IInv, Entered, NoEntry
  <2>3. queue'[1] \notin Flows /\ Len(queue') = 1
    BY <2>1, CredsAssumption
  <2>4. Named(queue', flow', entry')
    BY <2>1, <2>3 DEF Named, UniqueId
  <2> QED
    BY <2>1, <2>2, <2>4 DEF Current, Served
<1>7. ASSUME NEW o \in Options, SetOptions(o)
      PROVE  Current'
  <2>1. /\ entry' = [entry EXCEPT !.options = o]
        /\ missed' = (missed \/ (coord # NoCoordinator /\ ~listening))
        /\ UNCHANGED <<state, step, flow, coord>>
    BY <1>7 DEF SetOptions
  <2>2. /\ entry'.creds = entry.creds /\ entry'.version = entry.version
        /\ entry'.uid = entry.uid
    BY <1>1, <2>1
  <2> DEFINE heardBy == IF listening THEN <<"listener">> ELSE <<>>
  <2>3. queue' = queue \o heardBy
    BY <1>7 DEF SetOptions, Listened
  <2>4. heardBy \in Seq(Plain) /\ heardBy \in Seq(Requests)
    <3>1. heardBy \in Seq(Plain)
      BY ListenedPlain
    <3> QED
      BY <3>1 DEF Plain, Requests
  <2>5. Named(queue, flow, entry) => Named(queue', flow', entry')
    <3> HIDE DEF heardBy
    <3>1. Named(queue, flow, entry) => Named(queue, flow, entry')
      BY <2>2 DEF Named
    <3> QED
      BY <1>1, <2>1, <2>3, <2>4, <3>1, NamedJoins
  <2>6. /\ Len(queue') = Len(queue) + Len(heardBy) /\ Len(heardBy) \in Nat
        /\ listening => Len(heardBy) = 1
    <3>1. listening => Len(heardBy) = 1
      OBVIOUS
    <3> HIDE DEF heardBy
    <3> QED
      BY <1>1, <2>3, <2>4, <3>1, AskedMore, LenProperties
  <2> HIDE DEF heardBy
  <2>7. Asked => Asked'
    BY <1>1, <2>1, <2>6 DEF Asked
  <2>8. step # "idle" => Len(queue) >= 1
    BY <1>1, EmptySeq DEF IInv, Stages
  <2>9. ASSUME listening
        PROVE  Asked'
    <3>1. Len(queue') = Len(queue) + 1
      BY <2>6, <2>9
    <3>2. step' = step
      BY <2>1
    <3> QED
      BY <1>1, <2>8, <3>1, <3>2 DEF Asked
  <2>10. step \in {"signing", "reading"} \/ (state = "loaded" /\ step = "idle") =>
          missed' \/ Asked'
    <3>1. step \in {"signing", "reading"} \/ state = "loaded" => coord # NoCoordinator
      BY DEF IInv, Stages, NoCoordinator
    <3> QED
      BY <2>1, <2>9, <3>1
  <2>11. Served'
    BY <2>1, <2>2, <2>7, <2>10 DEF Current, Served
  <2> QED
    BY <2>2, <2>5, <2>11 DEF Current
<1>8. CASE UnloadBegins \/ Unload
  <2>1. /\ UNCHANGED <<entry, queue, flow>>
        /\ step' \in {"unloading", "unloaded"}
    BY <1>8 DEF UnloadBegins, Unload
  <2> QED
    BY <1>2, <2>1 DEF Served
<1>9. CASE Construct
  <2>1. /\ entry' = IF entry.version = 1
                    THEN [entry EXCEPT !.version = 2, !.uid = UniqueId(entry.creds)]
                    ELSE entry
        /\ coord' = [creds |-> entry.creds, options |-> entry.options]
        /\ UNCHANGED <<queue, flow>>
    BY <1>9 DEF Construct
  <2>2. /\ entry'.version = 2 /\ entry'.creds = entry.creds /\ entry'.options = entry.options
        /\ entry'.uid = Account[entry.creds] \/ (entry' = entry /\ entry.version = 2)
    BY <1>1, <2>1 DEF UniqueId
  <2>3. coord'.creds = entry'.creds /\ coord'.options = entry'.options
    BY <2>1, <2>2
  <2>4. Named(queue, flow, entry) => Named(queue', flow', entry')
    BY <2>1, <2>2 DEF Named
  <2> QED
    BY <2>2, <2>3, <2>4 DEF Current, Served
<1>10. CASE SignedIn
  <2>1. /\ step = "signing" /\ step' = "reading"
        /\ UNCHANGED <<entry, state, queue, flow, coord, missed>>
    BY <1>10 DEF SignedIn
  <2>2. Served'
    BY <2>1 DEF Current, Served, Asked
  <2> QED
    BY <1>2, <2>1, <2>2
<1>11. CASE SetUp
  <2>1. /\ step = "reading" /\ Release(TRUE) /\ UNCHANGED <<coord, missed>>
    BY <1>11 DEF SetUp
  <2>2. step' = "idle" /\ entry.creds # None
    BY <2>1, ReleaseKeeps
  <2>3. Named(queue, flow, entry)
    BY <2>2 DEF Current
  <2>4. /\ Named(queue', flow', entry')
        /\ Len(queue') >= Len(queue) - 1 /\ Len(queue') \in Nat
        /\ entry'.creds = entry.creds /\ entry'.options = entry.options
        /\ entry'.version = entry.version
    BY <2>1, <2>3, ReleaseNames
  <2>5. Asked => Asked'
    BY <1>1, <2>1, <2>2, <2>4 DEF Asked
  <2>6. Served'
    BY <2>1, <2>2, <2>4, <2>5 DEF Current, Served
  <2> QED
    BY <2>4, <2>6 DEF Current
<1>12. CASE SetupFails
  <2>1. /\ step # "idle" /\ Release(FALSE) /\ state' = "retry"
    BY <1>12 DEF SetupFails, AfterFailure
  <2>2. step' = "idle" /\ entry.creds # None
    BY <2>1, ReleaseKeeps
  <2>3. Named(queue', flow', entry')
    BY <2>1, <2>2, ReleaseNames DEF Current
  <2> QED
    BY <2>1, <2>2, <2>3 DEF Current, Served
<1>13. CASE Retry
  <2>1. /\ queue = <<>> /\ queue' = <<"setup">> /\ state' = "retry" /\ step' = "idle"
        /\ UNCHANGED <<entry, flow>>
    BY <1>13 DEF Retry
  <2>2. queue'[1] \notin Flows /\ Len(queue') = 1 /\ Len(queue) = 0
    BY <2>1, CredsAssumption
  <2>3. Named(queue, flow, entry) => Named(queue', flow', entry')
    BY <2>1, <2>2 DEF Named
  <2> QED
    BY <2>1, <2>3 DEF Current, Served
<1>14. ASSUME NEW c \in Creds, Reconfigure(c) \/ Reauthenticate(c)
       PROVE  Current'
  BY <1>5, <1>14 DEF Reconfigure, Reauthenticate
<1> QED
  BY <1>4, <1>6, <1>7, <1>8, <1>9, <1>10, <1>11, <1>12, <1>13, <1>14 DEF Next, Setup

(* SettledIsCurrent: for any number of forms, credentials and accounts, an *)
(* entry that runs with no reload asked for runs with what it says, and is *)
(* named by the account of the form that was submitted last.               *)
THEOREM SettledEntryIsCurrent == Spec => []SettledIsCurrent
<1>1. IInv /\ Current => SettledIsCurrent
  <2> SUFFICES ASSUME IInv, Current, state = "loaded", queue = <<>>
               PROVE  /\ coord.creds = entry.creds
                      /\ coord.options = entry.options \/ missed
                      /\ entry.uid = Account[entry.creds]
                      /\ entry.version = 2
    BY DEF SettledIsCurrent
  <2>1. step = "idle" /\ entry.creds # None /\ Len(queue) = 0
    BY DEF IInv, Stages, Entered
  <2>2. ~Asked
    BY <2>1 DEF Asked
  <2>3. /\ entry.version = 2 /\ coord.creds = entry.creds
        /\ coord.options = entry.options \/ missed
    BY <2>1, <2>2 DEF Current, Served
  <2>4. entry.uid = Account[entry.creds]
    BY <2>1, <2>3 DEF Current, Named
  <2> QED
    BY <2>3, <2>4
<1> QED
  BY <1>1, InitCurrent, InvariantHolds, StepKeepsCurrent, PTL DEF Spec
=============================================================================
