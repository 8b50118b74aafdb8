----------------------------- MODULE SessionRecovery -----------------------------
(***************************************************************************)
(* How the coordinator (coordinator.py) recovers an account session that   *)
(* another client took: renewal of the token, sign-in under a cooldown, a  *)
(* bound on the recoveries of one update, and what the account sensor says *)
(* meanwhile.  Scans and presses of "Refresh data now" run as asyncio      *)
(* tasks and share one coordinator and one client registry.  The registry  *)
(* is SharedClient, which ApiManager is shown to implement.                *)
(*                                                                         *)
(* A step runs from one await to the next.  The nested calls of            *)
(* async_update_data all return what the innermost returns, and what it    *)
(* raises passes through them, so a stack of updates is one update here.   *)
(* The handler for NeakasaApiClientAuthenticationError is left out: only   *)
(* refresh_session raises it and _renew_cloud_session catches it there.    *)
(* A refusal is taken to be one: that the client's translation of errors   *)
(* also calls some garbled answers an expired session is left out.         *)
(***************************************************************************)
EXTENDS Integers

CONSTANTS
  Scans,        \* the tasks that scan
  Presses,      \* the tasks that run regain_cloud_session
  MaxAttempts,  \* MAX_SESSION_RECOVERY_ATTEMPTS
  MaxRare       \* bound: presses, ends of the cooldown and failing calls

Tasks == Scans \cup Presses

ASSUME TasksAssumption == Scans \cap Presses = {}
ASSUME LimitsAssumption ==
  MaxAttempts \in Nat /\ MaxRare \in Nat

VARIABLES
  current,   \* the shared client, by the number of its sign-in, or None
  newest,    \* how many sign-ins were begun
  signing,   \* whether one is under way
  live,      \* the clients whose `connected` is TRUE
  session,   \* whose sign-in the cloud takes for the account's, or None
  pc,        \* what each task awaits
  want,      \* what each task asked for a client for
  client,    \* the client each task uses
  held,      \* whether _account_devices is filled
  listStale, \* whether the cached device list is to be fetched
  attempts,  \* _recovery_attempts, not counted beyond MaxAttempts + 1
  cooling,   \* _last_full_auth is less than the cooldown ago
  owner,     \* _session_owner
  outcome,   \* how the last update of each task ended
  tries,     \* history: recoveries tried in each task's update
  forced,    \* history: sign-ins of _force_full_reauth in this cooldown
  rare       \* history: what MaxRare bounds

shared == <<current, newest, signing>>
cloud == <<live, session>>
recovery == <<attempts, cooling, forced>>
vars == <<shared, cloud, pc, want, client, held, listStale, recovery, owner,
          outcome, tries, rare>>

None == 0
Shared == INSTANCE SharedClient

Locations == {"idle", "asking", "signing", "listing", "exchanging", "reading", "sleeping"}
Wants == {"update", "exchange", "forced", "taken"}
Owners == {"unknown", "home_assistant", "not_home_assistant"}
Outcomes == {"running", "done", "exhausted", "cooling", "raised"}

Init ==
  /\ Shared!Init
  /\ live = {}
  /\ session = None
  /\ pc = [c \in Tasks |-> "idle"]
  /\ want = [c \in Tasks |-> "update"]
  /\ client = [c \in Tasks |-> None]
  /\ held = FALSE
  /\ listStale = TRUE
  /\ attempts = 0
  /\ cooling = FALSE
  /\ owner = "unknown"
  /\ outcome = [c \in Tasks |-> "done"]
  /\ tries = [c \in Tasks |-> 0]
  /\ forced = 0
  /\ rare = 0

Rarely ==
  /\ rare < MaxRare
  /\ rare' = rare + 1

Counted(n, max) == IF n > max THEN n ELSE n + 1

-----------------------------------------------------------------------------
(* Asking for a client.                                                    *)

Usable == current # None /\ current \in live

(* Another task has the lock or waits for it.                              *)
OthersWait(c) == \E d \in Tasks \ {c} : pc[d] = "asking"
Busy(c) == signing \/ OthersWait(c)

(* What follows when the client wanted for w is there.                     *)
Then(w) == IF w = "exchange" THEN "exchanging" ELSE "listing"

TakeClient(c, w) ==
  /\ client' = [client EXCEPT ![c] = current]
  /\ pc' = [pc EXCEPT ![c] = Then(w)]
  /\ UNCHANGED shared

BeginSignIn(c) ==
  /\ Shared!Begin
  /\ pc' = [pc EXCEPT ![c] = "signing"]
  /\ UNCHANGED client

Wait(c) ==
  /\ pc' = [pc EXCEPT ![c] = "asking"]
  /\ UNCHANGED client

(* get_shared_api, up to its first await.                                  *)
Ask(c, w) ==
  /\ want' = [want EXCEPT ![c] = w]
  /\ \/ ~Busy(c) /\ Usable /\ TakeClient(c, w)
     \/ ~Busy(c) /\ ~Usable /\ BeginSignIn(c)
     \/ Busy(c) /\ Wait(c) /\ UNCHANGED shared

(* clear_shared_api or force_reconnect_api: the same without what was      *)
(* registered.                                                             *)
PopAndAsk(c, w) ==
  /\ want' = [want EXCEPT ![c] = w]
  /\ \/ ~Busy(c) /\ BeginSignIn(c)
     \/ Busy(c) /\ Wait(c) /\ current' = None /\ UNCHANGED <<newest, signing>>

(* The update of task c ends.                                              *)
End(c, how) ==
  /\ pc' = [pc EXCEPT ![c] = "idle"]
  /\ outcome' = [outcome EXCEPT ![c] = how]
  /\ UNCHANGED want

Presented == owner' = "home_assistant"
AccountRefused == owner' = "not_home_assistant"

-----------------------------------------------------------------------------
(* _reconnect_and_retry and _force_full_reauth, up to their first await.   *)

(* Mutated form of ForceFullReauth: the time of the sign-in is not noted.  *)
ForceFullReauthUnnoted(c) ==
  \/ /\ cooling
     /\ End(c, "cooling")
     /\ UNCHANGED <<shared, client, cooling, forced>>
  \/ /\ ~cooling
     /\ cooling' = cooling
     /\ forced' = forced + 1
     /\ PopAndAsk(c, "forced")
     /\ UNCHANGED outcome

(* _force_full_reauth: the sign-in, unless one was made a moment ago.      *)
ForceFullReauth(c) ==
  \/ /\ cooling
     /\ End(c, "cooling")
     /\ UNCHANGED <<shared, client, cooling, forced>>
  \/ /\ ~cooling
     /\ cooling' = TRUE
     /\ forced' = forced + 1
     /\ PopAndAsk(c, "forced")
     /\ UNCHANGED outcome

(* Mutated form of CountAttempt: the attempt is not counted.               *)
CountAttemptNot(c) ==
  /\ attempts < MaxAttempts
  /\ listStale' = TRUE
  /\ attempts' = attempts
  /\ tries' = [tries EXCEPT ![c] = Counted(@, MaxAttempts)]

(* Mutated form of CountAttempt: the bound is not looked at.               *)
CountAttemptUnbounded(c) ==
  /\ listStale' = TRUE
  /\ attempts' = attempts + 1
  /\ tries' = [tries EXCEPT ![c] = Counted(@, MaxAttempts)]

(* A recovery that is tried.                                               *)
CountAttempt(c) ==
  /\ attempts < MaxAttempts
  /\ listStale' = TRUE
  /\ attempts' = attempts + 1
  /\ tries' = [tries EXCEPT ![c] = Counted(@, MaxAttempts)]

(* One more recovery than the bound: UpdateFailed.                         *)
GiveUp(c) ==
  /\ attempts >= MaxAttempts
  /\ listStale' = TRUE
  /\ attempts' = MaxAttempts + 1
  /\ End(c, "exhausted")
  /\ UNCHANGED <<client, cooling, forced, tries>>

(* The token is renewed first.                                             *)
RecoverByRenewal(c) ==
  \/ CountAttempt(c) /\ Ask(c, "exchange") /\ UNCHANGED <<outcome, cooling, forced>>
  \/ GiveUp(c) /\ UNCHANGED shared

(* A refused account token is not renewed.                                 *)
RecoverBySignIn(c) ==
  \/ CountAttempt(c) /\ ForceFullReauth(c)
  \/ GiveUp(c) /\ UNCHANGED shared

(* _reconnect_clear_and_retry.                                             *)
RecoverCleared(c) ==
  \/ CountAttempt(c) /\ PopAndAsk(c, "exchange") /\ UNCHANGED <<outcome, cooling, forced>>
  \/ GiveUp(c) /\ current' = None /\ UNCHANGED <<newest, signing>>

-----------------------------------------------------------------------------
(* The beginning of an update.                                             *)

Start(c) ==
  /\ pc[c] = "idle"
  /\ outcome' = [outcome EXCEPT ![c] = "running"]
  /\ tries' = [tries EXCEPT ![c] = 0]
  /\ UNCHANGED <<cloud, held, listStale, attempts, owner>>

Scan(c) ==
  /\ Start(c)
  /\ Ask(c, "update")
  /\ UNCHANGED <<cooling, forced, rare>>

(* take_account_session_back: the cooldown is forgotten.                   *)
Press(c) ==
  /\ Rarely
  /\ Start(c)
  /\ cooling' = FALSE
  /\ forced' = 0
  /\ PopAndAsk(c, "taken")

-----------------------------------------------------------------------------
(* get_shared_api, once the lock is free, and the sign-in.                 *)

Admitted(c) ==
  /\ pc[c] = "asking"
  /\ ~signing
  /\ \/ Usable /\ TakeClient(c, want[c])
     \/ ~Usable /\ BeginSignIn(c)
  /\ UNCHANGED <<cloud, want, held, listStale, recovery, owner, outcome, tries,
                 rare>>

(* Mutated form of SignedIn: the update goes on with the client it had.    *)
SignedInKeeping(c) ==
  /\ pc[c] = "signing"
  /\ Shared!Register
  /\ live' = live \cup {newest}
  /\ session' = newest
  /\ IF want[c] \in {"forced", "taken"} THEN Presented ELSE UNCHANGED owner
  /\ listStale' = (listStale \/ want[c] = "taken")
  /\ client' = IF client[c] = None THEN [client EXCEPT ![c] = newest] ELSE client
  /\ pc' = [pc EXCEPT ![c] = Then(want[c])]
  /\ want' = want
  /\ UNCHANGED <<held, recovery, outcome, tries, rare>>

(* The sign-in succeeds.  Whoever asked for a new client notes that it     *)
(* holds the session and begins an update, whose call of get_shared_api    *)
(* queues behind those that wait.                                          *)
SignedIn(c) ==
  /\ pc[c] = "signing"
  /\ Shared!Register
  /\ live' = live \cup {newest}
  /\ session' = newest
  /\ IF want[c] \in {"forced", "taken"} THEN Presented ELSE UNCHANGED owner
  /\ listStale' = (listStale \/ want[c] = "taken")
  /\ \/ /\ want[c] \in {"forced", "taken"} /\ OthersWait(c) /\ Wait(c)
        /\ want' = [want EXCEPT ![c] = "update"]
     \/ /\ want[c] \in {"update", "exchange"} \/ ~OthersWait(c)
        /\ client' = [client EXCEPT ![c] = newest]
        /\ pc' = [pc EXCEPT ![c] = Then(want[c])]
        /\ want' = want
  /\ UNCHANGED <<held, recovery, outcome, tries, rare>>

(* connect raises.  Its errors are not translated, so no handler of the    *)
(* coordinator takes them.  The login may have been accepted before.       *)
SignInFails(c) ==
  /\ pc[c] = "signing"
  /\ Rarely
  /\ Shared!Fail
  /\ session' \in {session, None}
  /\ End(c, "raised")
  /\ UNCHANGED <<live, client, held, listStale, recovery, owner, tries>>

-----------------------------------------------------------------------------
(* _discover_devices.  A call is refused only when its client does not     *)
(* hold the session, and an accepted one makes its client the holder.      *)

CanRefuse(c) == session # client[c]

(* The cached list is good.                                                *)
ListFresh(c) ==
  /\ pc[c] = "listing"
  /\ held /\ ~listStale
  /\ pc' = [pc EXCEPT ![c] = "reading"]
  /\ UNCHANGED <<shared, cloud, want, client, held, listStale, recovery, owner,
                 outcome, tries, rare>>

Fetching(c) ==
  /\ pc[c] = "listing"
  /\ listStale \/ ~held

ListAccepted(c) ==
  /\ Fetching(c)
  /\ client[c] \in live
  /\ session' = client[c]
  /\ Presented
  /\ held' = TRUE
  /\ listStale' = FALSE
  /\ pc' = [pc EXCEPT ![c] = "reading"]
  /\ UNCHANGED <<shared, live, want, client, recovery, outcome, tries, rare>>

(* The list held before is served, and stored again as if just read.       *)
ListRefused(c) ==
  /\ Fetching(c)
  /\ client[c] \in live
  /\ CanRefuse(c)
  /\ held
  /\ AccountRefused
  /\ listStale' = FALSE
  /\ pc' = [pc EXCEPT ![c] = "reading"]
  /\ UNCHANGED <<shared, cloud, want, client, held, recovery, outcome, tries,
                 rare>>

(* Nothing is held: the refusal goes to the recovery.                      *)
FirstListRefused(c) ==
  /\ Fetching(c)
  /\ client[c] \in live
  /\ CanRefuse(c)
  /\ ~held
  /\ AccountRefused
  /\ RecoverByRenewal(c)
  /\ UNCHANGED <<cloud, held, rare>>

(* The client is not connected, or the call does not get through.          *)
Unanswered(c) ==
  \/ client[c] \notin live /\ rare' = rare
  \/ client[c] \in live /\ Rarely

(* The cache answers with what it holds.                                   *)
ListUnanswered(c) ==
  /\ Fetching(c)
  /\ held
  /\ Unanswered(c)
  /\ pc' = [pc EXCEPT ![c] = "reading"]
  /\ UNCHANGED <<shared, cloud, want, client, held, listStale, recovery, owner,
                 outcome, tries>>

(* The communication retry: two seconds, then a nested update.             *)
FirstListUnanswered(c) ==
  /\ Fetching(c)
  /\ ~held
  /\ Unanswered(c)
  /\ pc' = [pc EXCEPT ![c] = "sleeping"]
  /\ UNCHANGED <<shared, cloud, want, client, held, listStale, recovery, owner,
                 outcome, tries>>

Wake(c) ==
  /\ pc[c] = "sleeping"
  /\ Ask(c, "update")
  /\ UNCHANGED <<cloud, held, listStale, recovery, owner, outcome, tries, rare>>

(* The gateway knows no identity, also after an exchange of the token.     *)
FirstListBlank(c) ==
  /\ Fetching(c)
  /\ ~held
  /\ client[c] \in live
  /\ Rarely
  /\ live' = live \ {client[c]}
  /\ session' \in {session, client[c]}
  /\ RecoverCleared(c)
  /\ UNCHANGED <<held, owner>>

-----------------------------------------------------------------------------
(* The device reads.  One device stands for all of them.                   *)

Finish(c) ==
  /\ pc[c] = "reading"
  /\ attempts' = 0
  /\ End(c, "done")
  /\ UNCHANGED <<shared, client, held, listStale, cooling, forced, tries>>

(* The properties are read, or the ones held are served, or the device is  *)
(* left out; records were not asked for.  A call may exchange an aged      *)
(* token, which moves the session.                                         *)
FinishUnasked(c) ==
  /\ Finish(c)
  /\ \/ session' = session
     \/ client[c] \in live /\ session' = client[c]
  /\ UNCHANGED <<live, owner, rare>>

(* Records were read.                                                      *)
FinishRead(c) ==
  /\ Finish(c)
  /\ session' = client[c]
  /\ Presented
  /\ UNCHANGED <<live, rare>>

(* Records were refused and the held ones are served.                      *)
FinishHeld(c) ==
  /\ Finish(c)
  /\ CanRefuse(c)
  /\ AccountRefused
  /\ UNCHANGED <<cloud, rare>>

(* The device is left out for a blank identity: the client is no longer    *)
(* connected.                                                              *)
FinishBlank(c) ==
  /\ Finish(c)
  /\ client[c] \in live
  /\ Rarely
  /\ live' = live \ {client[c]}
  /\ session' \in {session, client[c]}
  /\ UNCHANGED owner

(* The properties are refused and too old to be served.                    *)
PropertiesRefused(c) ==
  /\ pc[c] = "reading"
  /\ client[c] \in live
  /\ CanRefuse(c)
  /\ RecoverByRenewal(c)
  /\ UNCHANGED <<cloud, held, owner, rare>>

(* The records are refused and none are held; the wording may be that of   *)
(* an aged account token.                                                  *)
RecordsRefused(c) ==
  /\ pc[c] = "reading"
  /\ CanRefuse(c)
  /\ AccountRefused
  /\ RecoverByRenewal(c) \/ RecoverBySignIn(c)
  /\ UNCHANGED <<cloud, held, rare>>

-----------------------------------------------------------------------------
(* _renew_cloud_session.                                                   *)

ExchangeAccepted(c) ==
  /\ pc[c] = "exchanging"
  /\ session' = client[c]
  /\ Ask(c, "update")
  /\ UNCHANGED <<live, held, listStale, recovery, owner, outcome, tries, rare>>

(* Refused, which also disconnects the client, or not answered.            *)
ExchangeFails(c) ==
  /\ pc[c] = "exchanging"
  /\ Rarely
  /\ live' \in {live, live \ {client[c]}}
  /\ ForceFullReauth(c)
  /\ UNCHANGED <<session, held, listStale, attempts, owner, tries>>

(* A network error of aiohttp is translated by nobody.                     *)
NetworkFails(c) ==
  /\ \/ pc[c] = "exchanging"
     \/ Fetching(c) /\ ~held
  /\ Rarely
  /\ End(c, "raised")
  /\ UNCHANGED <<shared, cloud, client, held, listStale, recovery, owner, tries>>

-----------------------------------------------------------------------------
(* Around the coordinator.                                                 *)

(* The app takes the session, or it ages out.                              *)
SessionLost ==
  /\ session # None
  /\ session' = None
  /\ UNCHANGED <<shared, live, pc, want, client, held, listStale, recovery, owner,
                 outcome, tries, rare>>

(* Six hours pass.                                                         *)
ListAges ==
  /\ ~listStale
  /\ listStale' = TRUE
  /\ UNCHANGED <<shared, cloud, pc, want, client, held, recovery, owner, outcome,
                 tries, rare>>

(* Ten minutes pass.                                                       *)
CooldownEnds ==
  /\ cooling
  /\ Rarely
  /\ cooling' = FALSE
  /\ forced' = 0
  /\ UNCHANGED <<shared, cloud, pc, want, client, held, listStale, attempts, owner,
                 outcome, tries>>

List(c) ==
  \/ ListFresh(c)
  \/ ListAccepted(c)
  \/ ListRefused(c)
  \/ FirstListRefused(c)
  \/ ListUnanswered(c)
  \/ FirstListUnanswered(c)
  \/ Wake(c)
  \/ FirstListBlank(c)

Read(c) ==
  \/ FinishUnasked(c)
  \/ FinishRead(c)
  \/ FinishHeld(c)
  \/ FinishBlank(c)
  \/ PropertiesRefused(c)
  \/ RecordsRefused(c)

Renew(c) ==
  \/ ExchangeAccepted(c)
  \/ ExchangeFails(c)
  \/ NetworkFails(c)

Connect(c) ==
  \/ Admitted(c)
  \/ SignedIn(c)
  \/ SignInFails(c)

Proceed(c) == Connect(c) \/ List(c) \/ Read(c) \/ Renew(c)

Around == SessionLost \/ ListAges \/ CooldownEnds

Next ==
  \/ \E c \in Scans : Scan(c)
  \/ \E c \in Presses : Press(c)
  \/ \E c \in Tasks : Proceed(c)
  \/ Around

(* Every await ends: the calls have a timeout and the lock is fair.        *)
Fairness == \A c \in Tasks : WF_vars(Proceed(c))

Spec == Init /\ [][Next]_vars
LiveSpec == Spec /\ Fairness

-----------------------------------------------------------------------------
TypeOK ==
  /\ newest \in Nat /\ current \in 0 .. newest
  /\ signing \in BOOLEAN /\ (signing => newest # 0)
  /\ live \subseteq 1 .. newest
  /\ session \in 0 .. newest
  /\ pc \in [Tasks -> Locations]
  /\ want \in [Tasks -> Wants]
  /\ client \in [Tasks -> 0 .. newest]
  /\ held \in BOOLEAN
  /\ listStale \in BOOLEAN
  /\ attempts \in 0 .. MaxAttempts + 1
  /\ cooling \in BOOLEAN
  /\ owner \in Owners
  /\ outcome \in [Tasks -> Outcomes]
  /\ tries \in [Tasks -> 0 .. MaxAttempts + 1]
  /\ forced \in Nat
  /\ rare \in 0 .. MaxRare

(* Recovery inside one update is attempted at most MaxAttempts times.      *)
RecoveriesBounded == \A c \in Tasks : tries[c] <= MaxAttempts

(* _force_full_reauth signs in at most once per cooldown, whichever tasks  *)
(* come to it and whatever becomes of the sign-ins.                        *)
OneForcedPerCooldown == forced <= 1

(* The account sensor is told that another client holds the session only   *)
(* when the client registered here does not hold it.                       *)
RefusalIsEvidence ==
  [][owner' = "not_home_assistant" /\ owner # "not_home_assistant"
       => session' = None \/ session' # current']_vars

(* Every update ends, however often the cloud refuses.                     *)
UpdateEnds == \A c \in Tasks : pc[c] # "idle" ~> pc[c] = "idle"

=============================================================================
