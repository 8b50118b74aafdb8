------------------------------- MODULE ApiManager -------------------------------
(***************************************************************************)
(* The registry of shared API clients (api_manager.py) for one account,    *)
(* and the sign-in NeakasaAPI.connect runs for it (api.py).  The tasks are *)
(* the scan, the presses and the recovery: each asks for the client, some  *)
(* force a new one, and an unload clears the registry.                     *)
(*                                                                         *)
(* A client is named by the number of its sign-in (_session_mints).  The   *)
(* lock is the per-credentials lock; _shared_registry_lock is never held   *)
(* across an await, so taking it is no step.  Of the connect chain the two *)
(* requests that move the account's session are kept apart: the login and  *)
(* the token exchange; the calls between them are part of the exchange.    *)
(***************************************************************************)
EXTENDS AsyncioLock

CONSTANT
  MaxLosses  \* bound: how often a client or a sign-in is lost (see losses)

ASSUME MaxLossesAssumption == MaxLosses \in Nat

VARIABLES
  registered,  \* _shared_clients[credentials_key], or None
  live,        \* the clients whose `connected` is TRUE
  mints,       \* _session_mints[username]
  pc,          \* where each task is
  client,      \* the client each task was given or is signing in
  first,       \* first_run of each task's connect
  logins,      \* history: login requests sent to the cloud
  losses       \* history: registered clients lost and sign-ins that failed

vars == <<holder, queue, registered, live, mints, pc, client, first, logins, losses>>

None == 0
Signing == {"login", "exchange"}
Locations == {"idle", "waiting"} \cup Signing

Init ==
  /\ LockInit
  /\ registered = None
  /\ live = {}
  /\ mints = 0
  /\ pc = [c \in Tasks |-> "idle"]
  /\ client = [c \in Tasks |-> None]
  /\ first = [c \in Tasks |-> TRUE]
  /\ logins = 0
  /\ losses = 0

(* A client is registered and connected.                                   *)
Usable == registered # None /\ registered \in live

(* The task is inside `async with lock`, just now or having waited.        *)
Admitted(c) ==
  \/ pc[c] = "idle" /\ holder = NoTask
  \/ pc[c] = "waiting" /\ holder = c

(* One more client or sign-in is lost; the bound is on these.              *)
Lose ==
  /\ losses < MaxLosses
  /\ losses' = losses + 1

-----------------------------------------------------------------------------
(* get_shared_api and force_reconnect_api.                                 *)

(* Mutated form of BeginSignIn: it is to be counted when it has succeeded. *)
BeginSignInUncounted(c) ==
  /\ holder' = c
  /\ queue' = queue
  /\ registered' = None
  /\ mints' = mints
  /\ client' = [client EXCEPT ![c] = mints + 1]
  /\ first' = [first EXCEPT ![c] = TRUE]
  /\ pc' = [pc EXCEPT ![c] = "login"]

(* The sign-in that begins now: it is counted before it is sent.           *)
BeginSignIn(c) ==
  /\ holder' = c
  /\ queue' = queue
  /\ registered' = None
  /\ mints' = mints + 1
  /\ client' = [client EXCEPT ![c] = mints + 1]
  /\ first' = [first EXCEPT ![c] = TRUE]
  /\ pc' = [pc EXCEPT ![c] = "login"]

(* Mutated form of AskWaits: each call makes a lock of its own.            *)
AskWaitsNot(c) ==
  /\ pc[c] = "idle"
  /\ holder # NoTask
  /\ BeginSignIn(c)
  /\ UNCHANGED <<live, logins, losses>>

(* Another task has the lock.                                              *)
AskWaits(c) ==
  /\ pc[c] = "idle"
  /\ holder # NoTask
  /\ JoinQueue(c)
  /\ pc' = [pc EXCEPT ![c] = "waiting"]
  /\ UNCHANGED <<registered, live, mints, client, first, logins, losses>>

(* The registered client is connected: it is handed out.                   *)
Reuse(c) ==
  /\ Admitted(c)
  /\ Usable
  /\ ReleaseLock
  /\ pc' = [pc EXCEPT ![c] = "idle"]
  /\ client' = [client EXCEPT ![c] = registered]
  /\ UNCHANGED <<registered, live, mints, first, logins, losses>>

(* Mutated form of SignIn: whoever waited signs in without looking again.  *)
SignInUnchecked(c) ==
  /\ Admitted(c)
  /\ ~Usable \/ pc[c] = "waiting"
  /\ BeginSignIn(c)
  /\ UNCHANGED <<live, logins, losses>>

(* No client, or one that is not connected: it is dropped and the task     *)
(* signs in, with the lock.                                                *)
SignIn(c) ==
  /\ Admitted(c)
  /\ ~Usable
  /\ BeginSignIn(c)
  /\ UNCHANGED <<live, logins, losses>>

(* force_reconnect_api pops the client and asks, without yielding between  *)
(* the two; the pop takes no lock.                                         *)
ForceSignsIn(c) ==
  /\ pc[c] = "idle"
  /\ holder = NoTask
  /\ IF Usable THEN Lose ELSE UNCHANGED losses
  /\ BeginSignIn(c)
  /\ UNCHANGED <<live, logins>>

ForceWaits(c) ==
  /\ pc[c] = "idle"
  /\ holder # NoTask
  /\ IF Usable THEN Lose ELSE UNCHANGED losses
  /\ registered' = None
  /\ JoinQueue(c)
  /\ pc' = [pc EXCEPT ![c] = "waiting"]
  /\ UNCHANGED <<live, mints, client, first, logins>>

-----------------------------------------------------------------------------
(* NeakasaAPI.connect, and what get_shared_api does with its outcome.      *)

(* The login request is accepted.                                          *)
Login(c) ==
  /\ pc[c] = "login"
  /\ logins' = logins + 1
  /\ pc' = [pc EXCEPT ![c] = "exchange"]
  /\ UNCHANGED <<lock, registered, live, mints, client, first, losses>>

(* The token exchange is accepted: the client is connected, registered and *)
(* returned without a yield in between.                                    *)
ExchangeAccepted(c) ==
  /\ pc[c] = "exchange"
  /\ live' = live \cup {client[c]}
  /\ registered' = client[c]
  /\ ReleaseLock
  /\ pc' = [pc EXCEPT ![c] = "idle"]
  /\ UNCHANGED <<mints, client, first, logins, losses>>

(* Mutated form of ExchangeRefused: first_run is not turned off.           *)
ExchangeRefusedAgain(c) ==
  /\ pc[c] = "exchange"
  /\ pc' = [pc EXCEPT ![c] = "login"]
  /\ UNCHANGED <<lock, registered, live, mints, client, first, logins, losses>>

(* The exchange is refused in the first run: the whole chain runs again,   *)
(* login included, and this second sign-in is not counted.                 *)
ExchangeRefused(c) ==
  /\ pc[c] = "exchange"
  /\ first[c]
  /\ first' = [first EXCEPT ![c] = FALSE]
  /\ pc' = [pc EXCEPT ![c] = "login"]
  /\ UNCHANGED <<lock, registered, live, mints, client, logins, losses>>

(* Mutated form of ConnectFails: the lock is not given back.               *)
ConnectFailsLocked(c) ==
  /\ pc[c] \in Signing
  /\ Lose
  /\ \/ pc[c] = "login" /\ logins' = logins + 1
     \/ logins' = logins
  /\ pc' = [pc EXCEPT ![c] = "idle"]
  /\ UNCHANGED <<lock, registered, live, mints, client, first>>

(* connect raises: a rejected login (which was sent), a call that did not  *)
(* get through, or a refused exchange in the second run.  The error goes   *)
(* to the caller and nothing is registered.                                *)
ConnectFails(c) ==
  /\ pc[c] \in Signing
  /\ Lose
  /\ \/ pc[c] = "login" /\ logins' = logins + 1
     \/ logins' = logins
  /\ ReleaseLock
  /\ pc' = [pc EXCEPT ![c] = "idle"]
  /\ UNCHANGED <<registered, live, mints, client, first>>

(* The task is cancelled while it waits or signs in.                       *)
CancelWaiting(c) ==
  /\ pc[c] = "waiting"
  /\ AbandonLock(c)
  /\ pc' = [pc EXCEPT ![c] = "idle"]
  /\ UNCHANGED <<registered, live, mints, client, first, logins, losses>>

CancelSigning(c) ==
  /\ pc[c] \in Signing
  /\ Lose
  /\ ReleaseLock
  /\ pc' = [pc EXCEPT ![c] = "idle"]
  /\ UNCHANGED <<registered, live, mints, client, first, logins>>

-----------------------------------------------------------------------------
(* What happens to a client and to the registry outside the lock.          *)

(* A task uses its client and the cloud refuses a token exchange, or       *)
(* still knows no identity after one: `connected` becomes FALSE.           *)
Disconnect(c) ==
  /\ pc[c] = "idle"
  /\ client[c] \in live
  /\ live' = live \ {client[c]}
  /\ IF client[c] = registered THEN Lose ELSE UNCHANGED losses
  /\ UNCHANGED <<lock, registered, mints, pc, client, first, logins>>

(* clear_shared_api: an unload, or a recovery from a blank identity.       *)
Clear ==
  /\ registered # None
  /\ IF Usable THEN Lose ELSE UNCHANGED losses
  /\ registered' = None
  /\ UNCHANGED <<lock, live, mints, pc, client, first, logins>>

Ask(c) ==
  \/ AskWaits(c)
  \/ ForceSignsIn(c)
  \/ ForceWaits(c)

(* Reuse and SignIn also begin a call, when the lock is free.              *)
Enter(c) ==
  \/ Reuse(c)
  \/ SignIn(c)

Connect(c) ==
  \/ Login(c)
  \/ ExchangeAccepted(c)
  \/ ExchangeRefused(c)
  \/ ConnectFails(c)

Cancel(c) ==
  \/ CancelWaiting(c)
  \/ CancelSigning(c)

Next ==
  \/ \E c \in Tasks : Ask(c) \/ Enter(c) \/ Connect(c) \/ Cancel(c) \/ Disconnect(c)
  \/ Clear

(* A task that was handed the lock runs, and a request to the cloud ends.  *)
Fairness ==
  \A c \in Tasks : WF_vars((pc[c] = "waiting" /\ Enter(c)) \/ Connect(c))

Spec == Init /\ [][Next]_vars
LiveSpec == Spec /\ Fairness

-----------------------------------------------------------------------------
TypeOK ==
  /\ LockTypeOK
  /\ registered \in 0 .. mints
  /\ live \subseteq 1 .. mints
  /\ mints \in Nat
  /\ pc \in [Tasks -> Locations]
  /\ client \in [Tasks -> 0 .. mints]
  /\ first \in [Tasks -> BOOLEAN]
  /\ logins \in Nat
  /\ losses \in 0 .. MaxLosses

(* One sign-in at a time, it is the one counted last, and nothing is       *)
(* registered meanwhile, although pops of the registry take no lock.       *)
SigningAlone ==
  \A c \in Tasks : pc[c] \in Signing =>
    /\ registered = None
    /\ client[c] = mints
    /\ \A d \in Tasks : pc[d] \in Signing => d = c

(* The registered client is the one signed in last: no sign-in of this     *)
(* process moves the account's session away from the client it hands out.  *)
RegisteredIsNewest == registered # None => registered = mints

(* Every sign-in but the first is explained by a loss: a client that was   *)
(* popped or became disconnected, or a sign-in that failed.  Tasks that    *)
(* ask together cost one sign-in.                                          *)
SignInsAreExplained == mints <= losses + 1

(* One counted sign-in sends at most two logins.                           *)
TwoLoginsAtMost == logins <= 2 * mints

(* Whoever asks gets a client or an error.                                 *)
EveryAskEnds == \A c \in Tasks : pc[c] # "idle" ~> pc[c] = "idle"

Shared == INSTANCE SharedClient
            WITH current <- registered, newest <- mints,
                 signing <- \E c \in Tasks : pc[c] \in Signing

(* The registry, its lock and the unlocked pops amount to the sequential   *)
(* sign-in of SharedClient.                                                *)
ImplementsShared == Shared!Spec

=============================================================================
