-------------------------- MODULE SessionRecoveryProofs --------------------------
(***************************************************************************)
(* Proofs about SessionRecovery, for any tasks, limits and bounds: typing  *)
(* and one forced sign-in per cooldown, and, when one task runs, at most   *)
(* MaxAttempts recoveries in an update and refusals that blame another     *)
(* client rightly.  The last two do not hold when tasks share the count    *)
(* and the client.                                                         *)
(***************************************************************************)
EXTENDS SessionRecovery, TLAPS

(* The registry and the cloud.                                             *)
RegistryTyped ==
  /\ newest \in Nat
  /\ current \in 0 .. newest
  /\ signing \in BOOLEAN /\ (signing => newest # 0)
  /\ live \subseteq 1 .. newest
  /\ session \in 0 .. newest
  /\ client \in [Tasks -> 0 .. newest]

(* The coordinator and its history.                                        *)
CoordinatorTyped ==
  /\ held \in BOOLEAN
  /\ listStale \in BOOLEAN
  /\ attempts \in 0 .. MaxAttempts + 1
  /\ cooling \in BOOLEAN
  /\ owner \in Owners
  /\ tries \in [Tasks -> 0 .. MaxAttempts + 1]
  /\ forced \in Nat
  /\ rare \in 0 .. MaxRare

(* Where the tasks are.                                                    *)
TasksTyped ==
  /\ pc \in [Tasks -> Locations]
  /\ want \in [Tasks -> Wants]
  /\ outcome \in [Tasks -> Outcomes]

LEMMA TypeParts == TypeOK <=> RegistryTyped /\ CoordinatorTyped /\ TasksTyped
BY DEF TypeOK, RegistryTyped, CoordinatorTyped, TasksTyped

LEMMA TypePartsNext == TypeOK' <=> RegistryTyped' /\ CoordinatorTyped' /\ TasksTyped'
BY DEF TypeOK, RegistryTyped, CoordinatorTyped, TasksTyped

(* A sign-in that begins moves the registry only.                          *)
LEMMA BeginTyped ==
  ASSUME RegistryTyped, NEW c \in Tasks, BeginSignIn(c),
         live' \subseteq live, session' \in 0 .. newest
  PROVE  RegistryTyped'
<1>1. newest' = newest + 1 /\ signing' = TRUE /\ current' = 0 /\ client' = client
  BY DEF BeginSignIn, Shared!Begin, Shared!None
<1>2. newest' \in Nat /\ 0 .. newest \subseteq 0 .. newest' /\ 1 .. newest \subseteq 1 .. newest'
      /\ 0 \in 0 .. newest'
  BY <1>1 DEF RegistryTyped
<1>3. live' \subseteq 1 .. newest' /\ session' \in 0 .. newest'
  BY <1>2 DEF RegistryTyped
<1>4. client' \in [Tasks -> 0 .. newest']
  BY <1>1, <1>2 DEF RegistryTyped
<1> QED
  BY <1>1, <1>2, <1>3, <1>4 DEF RegistryTyped

(* Asking for a client moves the task and the registry only.               *)
LEMMA AskTypedAlone ==
  ASSUME RegistryTyped, TasksTyped, NEW c \in Tasks, NEW w \in Wants,
         Ask(c, w) \/ PopAndAsk(c, w),
         live' \subseteq live, session' \in 0 .. newest
  PROVE  RegistryTyped' /\ pc' \in [Tasks -> Locations] /\ want' \in [Tasks -> Wants]
<1>1. pc' \in [Tasks -> Locations]
  BY DEF TasksTyped, Ask, PopAndAsk, TakeClient, BeginSignIn, Wait, Then, Locations
<1>2. want' \in [Tasks -> Wants]
  BY DEF TasksTyped, Ask, PopAndAsk
<1>3. CASE UNCHANGED <<newest, signing>>
  <2>1. current' \in 0 .. newest /\ client' \in [Tasks -> 0 .. newest]
    BY <1>3 DEF RegistryTyped, Ask, PopAndAsk, TakeClient, BeginSignIn, Wait, None, shared, Shared!Begin
  <2> QED
    BY <1>1, <1>2, <1>3, <2>1 DEF RegistryTyped
<1>4. CASE BeginSignIn(c)
  BY <1>1, <1>2, <1>4, BeginTyped
<1> QED
  BY <1>3, <1>4 DEF Ask, PopAndAsk, TakeClient, Wait, shared

LEMMA AskTyped ==
  ASSUME RegistryTyped, TasksTyped, NEW c \in Tasks, NEW w \in Wants,
         Ask(c, w) \/ PopAndAsk(c, w),
         UNCHANGED outcome, live' \subseteq live, session' \in 0 .. newest
  PROVE  RegistryTyped' /\ TasksTyped'
BY AskTypedAlone DEF TasksTyped

LEMMA TakeOrBeginTyped ==
  ASSUME RegistryTyped, TasksTyped, NEW c \in Tasks, NEW w \in Wants,
         TakeClient(c, w) \/ BeginSignIn(c), want' = [want EXCEPT ![c] = w],
         UNCHANGED outcome, live' \subseteq live, session' \in 0 .. newest
  PROVE  RegistryTyped' /\ TasksTyped'
<1>1. pc' \in [Tasks -> Locations] /\ want' \in [Tasks -> Wants]
  BY DEF TasksTyped, TakeClient, BeginSignIn, Then, Locations
<1>2. CASE TakeClient(c, w)
  <2>1. current' = current /\ newest' = newest /\ signing' = signing
        /\ client' = [client EXCEPT ![c] = current]
    BY <1>2 DEF TakeClient, shared
  <2>2. RegistryTyped'
    BY <2>1 DEF RegistryTyped
  <2> QED
    BY <1>1, <2>2 DEF TasksTyped
<1>3. CASE BeginSignIn(c)
  BY <1>1, <1>3, BeginTyped DEF TasksTyped
<1> QED
  BY <1>2, <1>3

LEMMA EndTyped ==
  ASSUME TasksTyped, NEW c \in Tasks, NEW how \in Outcomes, End(c, how)
  PROVE  TasksTyped'
BY DEF TasksTyped, End, Locations

(* A step of a task that stays inside its update.                          *)
LEMMA MoveTyped ==
  ASSUME TasksTyped, NEW c \in Tasks, NEW l \in Locations,
         pc' = [pc EXCEPT ![c] = l], UNCHANGED <<want, outcome>>
  PROVE  TasksTyped'
BY DEF TasksTyped

(* Calls change who is connected and whose session it is, nothing else.    *)
LEMMA CloudTyped ==
  ASSUME RegistryTyped, UNCHANGED <<shared, client>>, live' \subseteq live,
         session' \in 0 .. newest
  PROVE  RegistryTyped'
BY DEF RegistryTyped, shared

(* The count of forced sign-ins follows the cooldown.                      *)
OnceInv == forced = 0 \/ (forced = 1 /\ cooling)

IInv == TypeOK /\ OnceInv

LEMMA ForceTyped ==
  ASSUME RegistryTyped, TasksTyped, forced \in Nat, cooling \in BOOLEAN, OnceInv,
         NEW c \in Tasks, ForceFullReauth(c), live' \subseteq live, session' \in 0 .. newest
  PROVE  RegistryTyped' /\ TasksTyped' /\ forced' \in Nat /\ cooling' \in BOOLEAN /\ OnceInv'
<1>1. CASE cooling /\ End(c, "cooling") /\ UNCHANGED <<shared, client, cooling, forced>>
  <2>1. RegistryTyped'
    BY <1>1, CloudTyped
  <2>2. TasksTyped'
    BY <1>1, EndTyped DEF Outcomes
  <2> QED
    BY <1>1, <2>1, <2>2 DEF OnceInv
<1>2. CASE /\ ~cooling /\ cooling' = TRUE /\ forced' = forced + 1
           /\ PopAndAsk(c, "forced") /\ UNCHANGED outcome
  <2>1. RegistryTyped' /\ TasksTyped'
    BY <1>2, AskTyped DEF Wants
  <2> QED
    BY <1>2, <2>1 DEF OnceInv
<1> QED
  BY <1>1, <1>2 DEF ForceFullReauth

LEMMA CountTyped ==
  ASSUME CoordinatorTyped, NEW c \in Tasks, CountAttempt(c)
  PROVE  /\ attempts' \in 0 .. MaxAttempts + 1
         /\ tries' \in [Tasks -> 0 .. MaxAttempts + 1]
         /\ listStale' \in BOOLEAN
<1> USE LimitsAssumption
<1>1. attempts' \in 0 .. MaxAttempts + 1 /\ listStale' \in BOOLEAN
  BY DEF CoordinatorTyped, CountAttempt
<1>2. \A n \in 0 .. MaxAttempts + 1 : Counted(n, MaxAttempts) \in 0 .. MaxAttempts + 1
  BY DEF Counted
<1>3. tries[c] \in 0 .. MaxAttempts + 1
  BY DEF CoordinatorTyped
<1>4. tries' = [tries EXCEPT ![c] = Counted(tries[c], MaxAttempts)]
  BY DEF CountAttempt
<1>5. Counted(tries[c], MaxAttempts) \in 0 .. MaxAttempts + 1
  BY <1>2, <1>3
<1> QED
  BY <1>1, <1>4, <1>5 DEF CoordinatorTyped

Recover(c) ==
  \/ RecoverByRenewal(c)
  \/ RecoverBySignIn(c)
  \/ RecoverCleared(c)

LEMMA RecoverTyped ==
  ASSUME IInv, NEW c \in Tasks, Recover(c), live' \subseteq live, session' \in 0 .. newest,
         owner' \in Owners, held' \in BOOLEAN, rare' \in 0 .. MaxRare
  PROVE  IInv'
<1> USE LimitsAssumption
<1>0. RegistryTyped /\ CoordinatorTyped /\ TasksTyped /\ OnceInv
  BY TypeParts DEF IInv
<1>1. CASE CountAttempt(c) /\ UNCHANGED <<outcome, cooling, forced>>
           /\ (Ask(c, "exchange") \/ PopAndAsk(c, "exchange"))
  <2>1. RegistryTyped' /\ TasksTyped'
    BY <1>0, <1>1, AskTyped DEF Wants
  <2>2. CoordinatorTyped'
    BY <1>0, <1>1, CountTyped DEF CoordinatorTyped
  <2> QED
    BY <1>0, <1>1, <2>1, <2>2, TypePartsNext DEF IInv, OnceInv
<1>2. CASE CountAttempt(c) /\ ForceFullReauth(c)
  <2>1. /\ RegistryTyped' /\ TasksTyped' /\ forced' \in Nat /\ cooling' \in BOOLEAN /\ OnceInv'
    BY <1>0, <1>2, ForceTyped DEF CoordinatorTyped
  <2>2. CoordinatorTyped'
    BY <1>0, <1>2, <2>1, CountTyped DEF CoordinatorTyped
  <2> QED
    BY <2>1, <2>2, TypePartsNext DEF IInv
<1>3. CASE GiveUp(c) /\ (UNCHANGED shared \/ (current' = None /\ UNCHANGED <<newest, signing>>))
  <2>1. TasksTyped'
    BY <1>0, <1>3, EndTyped DEF GiveUp, Outcomes
  <2>2. RegistryTyped'
    BY <1>0, <1>3 DEF RegistryTyped, GiveUp, shared, None
  <2>3. CoordinatorTyped'
    BY <1>0, <1>3 DEF CoordinatorTyped, GiveUp
  <2> QED
    BY <1>0, <1>3, <2>1, <2>2, <2>3, TypePartsNext DEF IInv, OnceInv, GiveUp
<1> QED
  BY <1>1, <1>2, <1>3 DEF Recover, RecoverByRenewal, RecoverBySignIn, RecoverCleared

(* A step that leaves the budget of recoveries and the cooldown alone.     *)
LEMMA PlainStep ==
  ASSUME IInv, RegistryTyped', TasksTyped', UNCHANGED <<attempts, cooling, forced, tries>>,
         held' \in BOOLEAN, listStale' \in BOOLEAN, owner' \in Owners, rare' \in 0 .. MaxRare
  PROVE  IInv'
BY TypeParts, TypePartsNext DEF IInv, OnceInv, CoordinatorTyped

LEMMA RareTyped ==
  ASSUME rare \in 0 .. MaxRare, Rarely
  PROVE  rare' \in 0 .. MaxRare
BY LimitsAssumption DEF Rarely

LEMMA StartKeeps ==
  ASSUME IInv, NEW c \in Tasks, Scan(c) \/ Press(c)
  PROVE  IInv'
<1> USE LimitsAssumption
<1>0. RegistryTyped /\ CoordinatorTyped /\ TasksTyped /\ OnceInv
  BY TypeParts DEF IInv
<1>1. ASSUME Start(c), Ask(c, "update") \/ PopAndAsk(c, "taken")
      PROVE  RegistryTyped' /\ TasksTyped'
  <2>1. outcome' \in [Tasks -> Outcomes]
    BY <1>0, <1>1 DEF Start, TasksTyped, Outcomes
  <2>2. live' = live /\ session' = session
    BY <1>1 DEF Start, cloud
  <2>3. pc' \in [Tasks -> Locations] /\ want' \in [Tasks -> Wants] /\ RegistryTyped'
    BY <1>0, <1>1, <2>2, AskTypedAlone DEF RegistryTyped, Wants
  <2> QED
    BY <2>1, <2>3 DEF TasksTyped
<1>2. ASSUME Start(c)
      PROVE  /\ tries' \in [Tasks -> 0 .. MaxAttempts + 1]
             /\ UNCHANGED <<held, listStale, attempts, owner>>
  BY <1>0, <1>2 DEF Start, CoordinatorTyped
<1>3. CASE Scan(c)
  <2>1. CoordinatorTyped' /\ OnceInv'
    BY <1>0, <1>2, <1>3 DEF Scan, CoordinatorTyped, OnceInv
  <2> QED
    BY <1>1, <1>3, <2>1, TypePartsNext DEF IInv, Scan
<1>4. CASE Press(c)
  <2>1. rare' \in 0 .. MaxRare
    BY <1>0, <1>4, RareTyped DEF Press, CoordinatorTyped
  <2>2. CoordinatorTyped' /\ OnceInv'
    BY <1>0, <1>2, <1>4, <2>1 DEF Press, CoordinatorTyped, OnceInv
  <2> QED
    BY <1>1, <1>4, <2>2, TypePartsNext DEF IInv, Press
<1> QED
  BY <1>3, <1>4

LEMMA ConnectKeeps ==
  ASSUME IInv, NEW c \in Tasks, Connect(c)
  PROVE  IInv'
<1>0. RegistryTyped /\ CoordinatorTyped /\ TasksTyped
  BY TypeParts DEF IInv
<1>1. CASE Admitted(c)
  <2>1. want[c] \in Wants /\ want' = [want EXCEPT ![c] = want[c]]
    BY <1>0, <1>1 DEF TasksTyped, Admitted
  <2>2. UNCHANGED outcome /\ live' \subseteq live /\ session' \in 0 .. newest
    BY <1>0, <1>1 DEF Admitted, cloud, RegistryTyped
  <2>3. RegistryTyped' /\ TasksTyped'
    BY <1>0, <1>1, <2>1, <2>2, TakeOrBeginTyped DEF Admitted
  <2> QED
    BY <1>0, <1>1, <2>3, PlainStep DEF Admitted, recovery, CoordinatorTyped
<1>2. CASE SignedIn(c)
  <2>1. /\ newest' = newest /\ signing' = FALSE /\ current' = newest
        /\ live' = live \cup {newest} /\ session' = newest
        /\ client' = client \/ client' = [client EXCEPT ![c] = newest]
    BY <1>2 DEF SignedIn, Shared!Register, Wait
  <2>2. newest \in 1 .. newest /\ newest \in 0 .. newest
    BY <1>0, <1>2 DEF SignedIn, RegistryTyped, Shared!Register
  <2>3. RegistryTyped'
    BY <1>0, <2>1, <2>2 DEF RegistryTyped
  <2>4. TasksTyped'
    BY <1>0, <1>2 DEF TasksTyped, SignedIn, Wait, Then, Locations, Wants
  <2>5. owner' \in Owners /\ listStale' \in BOOLEAN
    BY <1>0, <1>2 DEF CoordinatorTyped, SignedIn, Presented, Owners
  <2> QED
    BY <1>0, <1>2, <2>3, <2>4, <2>5, PlainStep DEF SignedIn, recovery, CoordinatorTyped
<1>3. CASE SignInFails(c)
  <2>1. /\ UNCHANGED <<current, newest, live, client>> /\ signing' = FALSE
        /\ session' \in {session, 0}
    BY <1>3 DEF SignInFails, Shared!Fail, None
  <2>2. session' \in 0 .. newest
    BY <1>0, <2>1 DEF RegistryTyped
  <2>3. RegistryTyped'
    BY <1>0, <2>1, <2>2 DEF RegistryTyped
  <2>4. TasksTyped'
    BY <1>0, <1>3, EndTyped DEF SignInFails, Outcomes
  <2>5. rare' \in 0 .. MaxRare
    BY <1>0, <1>3, RareTyped DEF SignInFails, CoordinatorTyped
  <2> QED
    BY <1>0, <1>3, <2>3, <2>4, <2>5, PlainStep DEF SignInFails, recovery, CoordinatorTyped
<1> QED
  BY <1>1, <1>2, <1>3 DEF Connect

LEMMA ListKeeps ==
  ASSUME IInv, NEW c \in Tasks, List(c)
  PROVE  IInv'
<1>0. /\ RegistryTyped /\ CoordinatorTyped /\ TasksTyped
      /\ session \in 0 .. newest /\ client[c] \in 0 .. newest
  BY TypeParts DEF IInv, RegistryTyped
<1>1. CASE ListFresh(c) \/ ListAccepted(c) \/ ListRefused(c) \/ ListUnanswered(c)
  <2>1. /\ UNCHANGED <<shared, client>> /\ live' \subseteq live /\ session' \in 0 .. newest
        /\ pc' = [pc EXCEPT ![c] = "reading"] /\ UNCHANGED <<want, outcome>>
        /\ UNCHANGED <<attempts, cooling, forced, tries>>
    BY <1>0, <1>1 DEF ListFresh, ListAccepted, ListRefused, ListUnanswered, cloud, recovery
  <2>2. RegistryTyped' /\ TasksTyped'
    BY <1>0, <2>1, CloudTyped, MoveTyped DEF Locations
  <2>3. held' \in BOOLEAN /\ listStale' \in BOOLEAN
    BY <1>0, <1>1 DEF CoordinatorTyped, ListFresh, ListAccepted, ListRefused, ListUnanswered
  <2>4. owner' \in Owners
    BY <1>0, <1>1
    DEF CoordinatorTyped, ListFresh, ListAccepted, ListRefused, ListUnanswered, Presented,
        AccountRefused, Owners
  <2>5. rare' \in 0 .. MaxRare
    BY <1>0, <1>1, RareTyped
    DEF CoordinatorTyped, ListFresh, ListAccepted, ListRefused, ListUnanswered, Unanswered
  <2> QED
    BY <2>1, <2>2, <2>3, <2>4, <2>5, PlainStep
<1>2. CASE FirstListRefused(c)
  BY <1>0, <1>2, RecoverTyped
  DEF FirstListRefused, Recover, cloud, AccountRefused, Owners, CoordinatorTyped
<1>3. CASE FirstListUnanswered(c)
  <2>1. RegistryTyped' /\ TasksTyped'
    BY <1>0, <1>3, CloudTyped, MoveTyped DEF FirstListUnanswered, Locations, cloud
  <2>2. rare' \in 0 .. MaxRare
    BY <1>0, <1>3, RareTyped DEF CoordinatorTyped, FirstListUnanswered, Unanswered
  <2>4. CoordinatorTyped' /\ (OnceInv <=> OnceInv')
    BY <1>0, <1>3, <2>2 DEF CoordinatorTyped, FirstListUnanswered, recovery, OnceInv
  <2> QED
    BY <2>1, <2>4, TypePartsNext DEF IInv
<1>4. CASE Wake(c)
  <2>1. RegistryTyped' /\ TasksTyped'
    BY <1>0, <1>4, AskTyped DEF Wake, Wants, cloud
  <2> QED
    BY <1>0, <1>4, <2>1, PlainStep DEF Wake, recovery, CoordinatorTyped
<1>5. CASE FirstListBlank(c)
  <2>1. /\ live' \subseteq live /\ session' \in 0 .. newest /\ rare' \in 0 .. MaxRare
        /\ owner' \in Owners /\ held' \in BOOLEAN
    BY <1>0, <1>5, RareTyped DEF FirstListBlank, CoordinatorTyped
  <2> QED
    BY <1>5, <2>1, RecoverTyped DEF FirstListBlank, Recover
<1> QED
  BY <1>1, <1>2, <1>3, <1>4, <1>5 DEF List

LEMMA ReadKeeps ==
  ASSUME IInv, NEW c \in Tasks, Read(c)
  PROVE  IInv'
<1>0. /\ RegistryTyped /\ CoordinatorTyped /\ TasksTyped
      /\ session \in 0 .. newest /\ client[c] \in 0 .. newest
  BY TypeParts DEF IInv, RegistryTyped
<1>1. CASE FinishUnasked(c) \/ FinishRead(c) \/ FinishHeld(c) \/ FinishBlank(c)
  <2>1. Finish(c) /\ live' \subseteq live /\ session' \in 0 .. newest
    BY <1>0, <1>1 DEF FinishUnasked, FinishRead, FinishHeld, FinishBlank, cloud
  <2>2. RegistryTyped' /\ TasksTyped'
    BY <1>0, <2>1, CloudTyped, EndTyped DEF Finish, Outcomes
  <2>3. owner' \in Owners
    BY <1>0, <1>1
    DEF CoordinatorTyped, FinishUnasked, FinishRead, FinishHeld, FinishBlank, Presented,
        AccountRefused, Owners
  <2>4. rare' \in 0 .. MaxRare
    BY <1>0, <1>1, RareTyped
    DEF CoordinatorTyped, FinishUnasked, FinishRead, FinishHeld, FinishBlank
  <2>5. attempts' \in 0 .. MaxAttempts + 1
    BY <2>1, LimitsAssumption DEF Finish
  <2>6. CoordinatorTyped' /\ (OnceInv <=> OnceInv')
    BY <1>0, <2>1, <2>3, <2>4, <2>5 DEF CoordinatorTyped, Finish, OnceInv
  <2> QED
    BY <2>2, <2>6, TypePartsNext DEF IInv
<1>2. CASE PropertiesRefused(c)
  BY <1>0, <1>2, RecoverTyped DEF PropertiesRefused, Recover, cloud, CoordinatorTyped
<1>3. CASE RecordsRefused(c)
  BY <1>0, <1>3, RecoverTyped
  DEF RecordsRefused, Recover, cloud, AccountRefused, Owners, CoordinatorTyped
<1> QED
  BY <1>1, <1>2, <1>3 DEF Read

LEMMA RenewKeeps ==
  ASSUME IInv, NEW c \in Tasks, Renew(c)
  PROVE  IInv'
<1>0. /\ RegistryTyped /\ CoordinatorTyped /\ TasksTyped /\ OnceInv
      /\ session \in 0 .. newest /\ client[c] \in 0 .. newest
  BY TypeParts DEF IInv, RegistryTyped
<1>1. CASE ExchangeAccepted(c)
  <2>1. RegistryTyped' /\ TasksTyped'
    BY <1>0, <1>1, AskTyped DEF ExchangeAccepted, Wants
  <2> QED
    BY <1>0, <1>1, <2>1, PlainStep DEF ExchangeAccepted, recovery, CoordinatorTyped
<1>2. CASE ExchangeFails(c)
  <2>1. live' \subseteq live /\ session' \in 0 .. newest /\ rare' \in 0 .. MaxRare
    BY <1>0, <1>2, RareTyped DEF ExchangeFails, CoordinatorTyped
  <2>2. RegistryTyped' /\ TasksTyped' /\ forced' \in Nat /\ cooling' \in BOOLEAN /\ OnceInv'
    BY <1>0, <1>2, <2>1, ForceTyped DEF ExchangeFails, CoordinatorTyped
  <2>3. CoordinatorTyped'
    BY <1>0, <1>2, <2>1, <2>2 DEF ExchangeFails, CoordinatorTyped
  <2> QED
    BY <2>2, <2>3, TypePartsNext DEF IInv
<1>3. CASE NetworkFails(c)
  <2>1. RegistryTyped' /\ TasksTyped'
    BY <1>0, <1>3, CloudTyped, EndTyped DEF NetworkFails, cloud, Outcomes
  <2>2. rare' \in 0 .. MaxRare
    BY <1>0, <1>3, RareTyped DEF NetworkFails, CoordinatorTyped
  <2> QED
    BY <1>0, <1>3, <2>1, <2>2, PlainStep DEF NetworkFails, recovery, CoordinatorTyped
<1> QED
  BY <1>1, <1>2, <1>3 DEF Renew

LEMMA AroundKeeps ==
  ASSUME IInv, Around
  PROVE  IInv'
<1>0. RegistryTyped /\ CoordinatorTyped /\ TasksTyped
  BY TypeParts DEF IInv
<1>1. RegistryTyped' /\ TasksTyped'
  <2>1. UNCHANGED <<shared, live, pc, want, client, outcome>> /\ session' \in {session, None}
    BY DEF Around, SessionLost, ListAges, CooldownEnds, cloud
  <2> QED
    BY <1>0, <2>1 DEF RegistryTyped, TasksTyped, shared, None
<1>2. CASE SessionLost \/ ListAges
  BY <1>0, <1>1, <1>2, PlainStep DEF SessionLost, ListAges, recovery, CoordinatorTyped
<1>3. CASE CooldownEnds
  <2>1. rare' \in 0 .. MaxRare
    BY <1>0, <1>3, RareTyped DEF CooldownEnds, CoordinatorTyped
  <2>2. CoordinatorTyped' /\ OnceInv'
    BY <1>0, <1>3, <2>1 DEF CooldownEnds, CoordinatorTyped, OnceInv
  <2> QED
    BY <1>1, <2>2, TypePartsNext DEF IInv
<1> QED
  BY <1>2, <1>3 DEF Around

LEMMA InitIInv == Init => IInv
<1> SUFFICES ASSUME Init PROVE IInv
  OBVIOUS
<1> USE LimitsAssumption
<1>1. RegistryTyped
  <2>1. newest = 0 /\ current = 0 /\ signing = FALSE /\ live = {} /\ session = 0
        /\ client = [c \in Tasks |-> 0]
    BY DEF Init, Shared!Init, Shared!None, None
  <2>2. newest \in Nat /\ 0 \in 0 .. newest
    BY <2>1
  <2>3. client \in [Tasks -> 0 .. newest]
    BY <2>1, <2>2
  <2> QED
    BY <2>1, <2>2, <2>3 DEF RegistryTyped
<1>2. TasksTyped
  <2>1. pc = [c \in Tasks |-> "idle"] /\ want = [c \in Tasks |-> "update"]
        /\ outcome = [c \in Tasks |-> "done"]
    BY DEF Init
  <2>2. "idle" \in Locations /\ "update" \in Wants /\ "done" \in Outcomes
    BY DEF Locations, Wants, Outcomes
  <2> QED
    BY <2>1, <2>2 DEF TasksTyped
<1>3. CoordinatorTyped
  <2>1. /\ held = FALSE /\ listStale = TRUE /\ attempts = 0 /\ cooling = FALSE
        /\ owner = "unknown" /\ forced = 0 /\ rare = 0
        /\ tries = [c \in Tasks |-> 0]
    BY DEF Init
  <2>2. 0 \in 0 .. MaxAttempts + 1 /\ 0 \in 0 .. MaxRare
    OBVIOUS
  <2>3. tries \in [Tasks -> 0 .. MaxAttempts + 1]
    BY <2>1, <2>2
  <2>4. owner \in Owners
    BY <2>1 DEF Owners
  <2> QED
    BY <2>1, <2>2, <2>3, <2>4 DEF CoordinatorTyped
<1> QED
  BY <1>1, <1>2, <1>3, TypeParts DEF IInv, OnceInv, Init

LEMMA StepKeepsIInv == IInv /\ [Next]_vars => IInv'
<1> SUFFICES ASSUME IInv, [Next]_vars PROVE IInv'
  OBVIOUS
<1>1. CASE UNCHANGED vars
  BY <1>1
  DEF vars, shared, cloud, recovery, IInv, TypeOK, OnceInv
<1>2. ASSUME NEW c \in Tasks, Scan(c) \/ Press(c) \/ Proceed(c)
      PROVE  IInv'
  BY <1>2, StartKeeps, ConnectKeeps, ListKeeps, ReadKeeps, RenewKeeps DEF Proceed
<1> QED
  BY <1>1, <1>2, AroundKeeps DEF Next, Tasks

LEMMA InvariantHolds == Spec => []IInv
BY InitIInv, StepKeepsIInv, PTL DEF Spec

(* The coordinator's session state keeps its types.                        *)
THEOREM TypeCorrect == Spec => []TypeOK
<1>1. IInv => TypeOK
  BY DEF IInv
<1> QED
  BY <1>1, InvariantHolds, PTL

(* _force_full_reauth signs in at most once per cooldown, for any number   *)
(* of tasks: nothing is awaited between its look at the clock and its note *)
(* of the time.                                                            *)
THEOREM ForcedSignInsAreApart == Spec => []OneForcedPerCooldown
<1>1. IInv => OneForcedPerCooldown
  BY DEF IInv, OnceInv, OneForcedPerCooldown
<1> QED
  BY <1>1, InvariantHolds, PTL

(* With one task nobody else resets the count: it covers the recoveries of *)
(* the update that runs.                                                   *)
Covered(c) ==
  /\ tries[c] <= MaxAttempts
  /\ pc[c] # "idle" => tries[c] <= attempts

Budget == \A c \in Tasks : Covered(c)

LEMMA RecoverKeepsBudget ==
  ASSUME IInv, NEW c \in Tasks, Covered(c), pc[c] # "idle", Recover(c)
  PROVE  Covered(c)'
<1>1. /\ MaxAttempts \in Nat /\ attempts \in Nat /\ tries[c] \in Nat
      /\ tries[c] <= MaxAttempts /\ tries[c] <= attempts
      /\ tries \in [Tasks -> 0 .. MaxAttempts + 1] /\ pc \in [Tasks -> Locations]
  BY LimitsAssumption DEF IInv, TypeOK, Covered
<1>2. CASE CountAttempt(c)
  <2>1. \A n, m, l \in Nat : n <= m /\ m < l => Counted(n, l) <= m + 1 /\ m + 1 <= l
                              /\ Counted(n, l) <= l
    BY DEF Counted
  <2>2. attempts < MaxAttempts /\ attempts' = attempts + 1
        /\ tries'[c] = Counted(tries[c], MaxAttempts)
    BY <1>1, <1>2 DEF CountAttempt
  <2>3. tries'[c] <= attempts + 1 /\ tries'[c] <= MaxAttempts
    BY <1>1, <2>1, <2>2
  <2> QED
    BY <2>2, <2>3 DEF Covered
<1>3. CASE GiveUp(c)
  BY <1>1, <1>3 DEF GiveUp, End, Covered
<1> QED
  BY <1>2, <1>3 DEF Recover, RecoverByRenewal, RecoverBySignIn, RecoverCleared

LEMMA StepKeepsBudget ==
  ASSUME NEW t, Tasks = {t}, IInv, Budget, [Next]_vars
  PROVE  Budget'
<1>0. t \in Tasks /\ (Budget <=> Covered(t)) /\ (Budget' <=> Covered(t)')
  BY DEF Budget
<1> SUFFICES Covered(t)'
  BY <1>0
<1>1. ASSUME pc[t] # "idle", UNCHANGED <<attempts, tries>>
      PROVE  Covered(t)'
  BY <1>0, <1>1 DEF Covered
<1>2. ASSUME UNCHANGED <<attempts, tries, pc>>
      PROVE  Covered(t)'
  BY <1>0, <1>2 DEF Covered
<1>3. CASE Scan(t) \/ Press(t)
  <2>1. tries'[t] = 0 /\ attempts' = attempts /\ attempts \in Nat /\ MaxAttempts \in Nat
    BY <1>0, <1>3, LimitsAssumption DEF Scan, Press, Start, IInv, TypeOK
  <2> QED
    BY <2>1 DEF Covered
<1>4. CASE Connect(t)
  BY <1>1, <1>4 DEF Connect, Admitted, SignedIn, SignInFails, recovery
<1>5. CASE List(t)
  <2>1. CASE FirstListRefused(t) \/ FirstListBlank(t)
    BY <1>0, <2>1, RecoverKeepsBudget
    DEF FirstListRefused, FirstListBlank, Fetching, Recover
  <2>2. CASE \/ ListFresh(t) \/ ListAccepted(t) \/ ListRefused(t) \/ ListUnanswered(t)
             \/ FirstListUnanswered(t) \/ Wake(t)
    BY <1>1, <2>2
    DEF ListFresh, ListAccepted, ListRefused, ListUnanswered, FirstListUnanswered, Wake,
        Fetching, recovery
  <2> QED
    BY <1>5, <2>1, <2>2 DEF List
<1>6. CASE Read(t)
  <2>1. CASE PropertiesRefused(t) \/ RecordsRefused(t)
    BY <1>0, <2>1, RecoverKeepsBudget DEF PropertiesRefused, RecordsRefused, Recover
  <2>2. CASE Finish(t)
    BY <1>0, <2>2 DEF Finish, End, Covered, IInv, TypeOK
  <2> QED
    BY <1>6, <2>1, <2>2 DEF Read, FinishUnasked, FinishRead, FinishHeld, FinishBlank
<1>7. CASE Renew(t)
  BY <1>1, <1>7 DEF Renew, ExchangeAccepted, ExchangeFails, NetworkFails, Fetching, recovery
<1>8. CASE Around
  BY <1>2, <1>8 DEF Around, SessionLost, ListAges, CooldownEnds, recovery
<1>9. CASE UNCHANGED vars
  BY <1>2, <1>9 DEF vars, recovery
<1> QED
  BY <1>0, <1>3, <1>4, <1>5, <1>6, <1>7, <1>8, <1>9 DEF Next, Proceed, Tasks

(* With one task an update makes at most MaxAttempts recoveries: every     *)
(* path of the recovery looks at the count first, and only the end of the  *)
(* update takes it back.                                                   *)
THEOREM RecoveriesOfOneTaskAreBounded ==
  ASSUME NEW t, Tasks = {t}
  PROVE  Spec => []RecoveriesBounded
<1>1. Init => Budget
  BY LimitsAssumption DEF Init, Budget, Covered
<1>2. IInv /\ Budget /\ [Next]_vars => Budget'
  BY StepKeepsBudget
<1>3. Budget => RecoveriesBounded
  BY DEF Budget, Covered, RecoveriesBounded
<1> QED
  BY <1>1, <1>2, <1>3, InvariantHolds, PTL DEF Spec

-----------------------------------------------------------------------------
(* With one task nobody waits for the lock, and the client it calls with   *)
(* is the registered one until it asks for another.                        *)
Own(c) ==
  /\ pc[c] # "asking"
  /\ signing => pc[c] = "signing"
  /\ pc[c] \in {"listing", "reading", "exchanging"} => client[c] = current

LEMMA NobodyElse ==
  ASSUME NEW t, Tasks = {t}
  PROVE  ~OthersWait(t)
BY DEF OthersWait

LEMMA AskKeepsOwn ==
  ASSUME NEW t, Tasks = {t}, TypeOK, ~signing, NEW w, Ask(t, w) \/ PopAndAsk(t, w)
  PROVE  Own(t)'
<1>1. /\ pc \in [Tasks -> Locations] /\ client \in [Tasks -> 0 .. newest] /\ t \in Tasks
      /\ ~Busy(t)
  BY NobodyElse DEF TypeOK, Busy
<1>2. CASE TakeClient(t, w)
  BY <1>1, <1>2 DEF TakeClient, Then, Own, shared
<1>3. CASE BeginSignIn(t)
  BY <1>1, <1>3 DEF BeginSignIn, Own
<1> QED
  BY <1>1, <1>2, <1>3 DEF Ask, PopAndAsk

LEMMA IdleOwn ==
  ASSUME NEW t, Tasks = {t}, TypeOK, ~signing', pc' = [pc EXCEPT ![t] = "idle"]
  PROVE  Own(t)'
BY DEF TypeOK, Own

(* A recovery of the task that runs alone.                                 *)
LEMMA RecoverKeepsOwn ==
  ASSUME NEW t, Tasks = {t}, TypeOK, ~signing, Recover(t)
  PROVE  Own(t)'
<1>1. CASE Ask(t, "exchange") \/ PopAndAsk(t, "exchange") \/ PopAndAsk(t, "forced")
  BY <1>1, AskKeepsOwn
<1>2. CASE End(t, "cooling") /\ UNCHANGED shared
  BY <1>2, IdleOwn DEF End, shared
<1>3. CASE GiveUp(t) /\ signing' = signing
  BY <1>3, IdleOwn DEF GiveUp, End
<1> QED
  BY <1>1, <1>2, <1>3
  DEF Recover, RecoverByRenewal, RecoverBySignIn, RecoverCleared, ForceFullReauth, shared

LEMMA StepKeepsOwn ==
  ASSUME NEW t, Tasks = {t}, TypeOK, Own(t), [Next]_vars
  PROVE  Own(t)'
<1>0. /\ t \in Tasks /\ pc \in [Tasks -> Locations] /\ client \in [Tasks -> 0 .. newest]
      /\ signing \in BOOLEAN /\ ~OthersWait(t)
  BY NobodyElse DEF TypeOK
<1>1. ASSUME pc' = [pc EXCEPT ![t] = "reading"], pc[t] = "listing", UNCHANGED <<shared, client>>
      PROVE  Own(t)'
  BY <1>0, <1>1 DEF Own, shared
<1>2. ASSUME UNCHANGED <<shared, client, pc>>
      PROVE  Own(t)'
  BY <1>2 DEF Own, shared
<1>3. ASSUME pc[t] \in {"idle", "listing", "reading", "exchanging", "sleeping"},
             NEW w, Ask(t, w) \/ PopAndAsk(t, w)
      PROVE  Own(t)'
  BY <1>3, AskKeepsOwn DEF Own
<1>4. CASE Scan(t) \/ Press(t)
  BY <1>3, <1>4 DEF Scan, Press, Start
<1>5. CASE Connect(t)
  <2>1. ~Admitted(t)
    BY DEF Own, Admitted
  <2>2. CASE SignedIn(t)
    <3>1. /\ client' = [client EXCEPT ![t] = newest] /\ current' = newest /\ ~signing'
          /\ pc' = [pc EXCEPT ![t] = Then(want[t])]
      BY <1>0, <2>2 DEF SignedIn, Shared!Register
    <3> QED
      BY <1>0, <3>1 DEF Own, Then
  <2>3. CASE SignInFails(t)
    BY <2>3, IdleOwn DEF SignInFails, End, Shared!Fail
  <2> QED
    BY <1>5, <2>1, <2>2, <2>3 DEF Connect
<1>6. CASE List(t)
  <2>1. CASE FirstListRefused(t) \/ FirstListBlank(t)
    BY <2>1, RecoverKeepsOwn DEF FirstListRefused, FirstListBlank, Fetching, Recover, Own
  <2>2. CASE ListFresh(t) \/ ListAccepted(t) \/ ListRefused(t) \/ ListUnanswered(t)
    BY <1>1, <2>2 DEF ListFresh, ListAccepted, ListRefused, ListUnanswered, Fetching
  <2>3. CASE FirstListUnanswered(t)
    BY <1>0, <2>3 DEF FirstListUnanswered, Fetching, Own, shared
  <2>4. CASE Wake(t)
    BY <1>3, <2>4 DEF Wake
  <2> QED
    BY <1>6, <2>1, <2>2, <2>3, <2>4 DEF List
<1>7. CASE Read(t)
  <2>1. CASE PropertiesRefused(t) \/ RecordsRefused(t)
    BY <2>1, RecoverKeepsOwn DEF PropertiesRefused, RecordsRefused, Recover, Own
  <2>2. CASE Finish(t)
    BY <2>2, IdleOwn DEF Finish, End, Own, shared
  <2> QED
    BY <1>7, <2>1, <2>2 DEF Read, FinishUnasked, FinishRead, FinishHeld, FinishBlank
<1>8. CASE Renew(t)
  <2>1. CASE ExchangeAccepted(t)
    BY <1>3, <2>1 DEF ExchangeAccepted
  <2>2. CASE ExchangeFails(t)
    <3>1. CASE PopAndAsk(t, "forced")
      BY <1>3, <2>2, <3>1 DEF ExchangeFails
    <3>2. CASE End(t, "cooling") /\ UNCHANGED shared
      BY <2>2, <3>2, IdleOwn DEF ExchangeFails, End, Own, shared
    <3> QED
      BY <2>2, <3>1, <3>2 DEF ExchangeFails, ForceFullReauth
  <2>3. CASE NetworkFails(t)
    BY <2>3, IdleOwn DEF NetworkFails, Fetching, End, Own, shared
  <2> QED
    BY <1>8, <2>1, <2>2, <2>3 DEF Renew
<1>9. CASE Around \/ UNCHANGED vars
  BY <1>2, <1>9 DEF Around, SessionLost, ListAges, CooldownEnds, vars
<1> QED
  BY <1>0, <1>4, <1>5, <1>6, <1>7, <1>8, <1>9 DEF Next, Proceed, Tasks

(* The four answers that blame another client come to a client that does   *)
(* not hold the session, and leave the session as it is.                   *)
LEMMA RefusalsBlame ==
  ASSUME NEW t, Tasks = {t}, TypeOK, Own(t), [Next]_vars,
         owner' = "not_home_assistant", owner # "not_home_assistant"
  PROVE  session' = None \/ session' # current'
<1>0. t \in Tasks
  OBVIOUS
<1>1. CASE ListRefused(t) \/ FinishHeld(t)
  BY <1>1 DEF ListRefused, FinishHeld, Fetching, Finish, CanRefuse, Own, shared, cloud
<1>2. CASE FirstListRefused(t) \/ RecordsRefused(t)
  <2>1. /\ client[t] = current /\ session # client[t] /\ session' = session
        /\ Recover(t)
    BY <1>2 DEF FirstListRefused, RecordsRefused, Fetching, CanRefuse, Own, cloud, Recover
  <2>2. current' = current \/ current' = None
    BY <2>1
    DEF Recover, RecoverByRenewal, RecoverBySignIn, RecoverCleared, ForceFullReauth, GiveUp, End,
        Ask, PopAndAsk, TakeClient, BeginSignIn, Wait, Shared!Begin, Shared!None, None, shared
  <2> QED
    BY <2>1, <2>2
<1>3. ASSUME UNCHANGED owner \/ Presented
      PROVE  FALSE
  BY <1>3 DEF Presented
<1>4. CASE Scan(t) \/ Press(t) \/ Connect(t)
  BY <1>3, <1>4 DEF Scan, Press, Start, Connect, Admitted, SignedIn, SignInFails
<1>5. CASE List(t)
  BY <1>1, <1>2, <1>3, <1>5
  DEF List, ListFresh, ListAccepted, ListUnanswered, FirstListUnanswered, Wake, FirstListBlank
<1>6. CASE Read(t)
  BY <1>1, <1>2, <1>3, <1>6
  DEF Read, FinishUnasked, FinishRead, FinishBlank, PropertiesRefused
<1>7. CASE Renew(t)
  BY <1>3, <1>7 DEF Renew, ExchangeAccepted, ExchangeFails, NetworkFails
<1>8. CASE Around \/ UNCHANGED vars
  BY <1>3, <1>8 DEF Around, SessionLost, ListAges, CooldownEnds, vars
<1> QED
  BY <1>0, <1>4, <1>5, <1>6, <1>7, <1>8 DEF Next, Proceed, Tasks

(* With one task, the account sensor begins to blame another client only   *)
(* when the registered client does not hold the session: the client that   *)
(* was refused is still the registered one.                                *)
THEOREM RefusalToOneTaskIsEvidence ==
  ASSUME NEW t, Tasks = {t}
  PROVE  Spec => RefusalIsEvidence
<1>1. Init => Own(t)
  BY DEF Init, Own, Shared!Init
<1>2. TypeOK /\ Own(t) /\ [Next]_vars => Own(t)'
  BY StepKeepsOwn
<1>3. TypeOK /\ Own(t) /\ [Next]_vars
        => [owner' = "not_home_assistant" /\ owner # "not_home_assistant"
              => session' = None \/ session' # current']_vars
  BY RefusalsBlame
<1> QED
  BY <1>1, <1>2, <1>3, TypeCorrect, PTL DEF Spec, RefusalIsEvidence
=============================================================================
