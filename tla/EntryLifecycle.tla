------------------------------ MODULE EntryLifecycle -----------------------------
(***************************************************************************)
(* The config entry of one account: how it is created, set up, reloaded    *)
(* and given other credentials, and what becomes of the shared clients and *)
(* of the devices (__init__.py, config_flow.py, options_flow.py and the    *)
(* discovery every platform does).                                         *)
(*                                                                         *)
(* Home Assistant reloads an entry under a lock of the entry, first come   *)
(* first served: queue holds who waits for it, its head being served while *)
(* step is not "idle".  A change of an entry starts a task for the update  *)
(* listener, if one is registered, and that task reloads the entry.        *)
(***************************************************************************)
EXTENDS Naturals, Sequences, FiniteSets

CONSTANTS
  Creds,       \* username and password
  Accounts,    \* the accounts: a username
  Account,     \* the account of each credentials
  Machines,    \* iotIds
  Flows,       \* the forms for new credentials: reconfigure, reauth
  Options,     \* what the options may be
  Default,     \* what they are before they are set
  Sharing,     \* which machines may be on which accounts at first
  None,        \* no credentials
  MaxSubmits,  \* bound: credentials submitted
  MaxChanges,  \* bound: options changed, machines given to an account or taken
  MaxFails     \* bound: first refreshes that fail

ASSUME CredsAssumption ==
  /\ None \notin Creds
  /\ Account \in [Creds -> Accounts]
  /\ Default \in Options
  /\ Sharing \subseteq [Accounts -> SUBSET Machines]
  /\ {"listener", "scheduled", "setup"} \cap Flows = {}

ASSUME BoundsAssumption == {MaxSubmits, MaxChanges, MaxFails} \subseteq Nat

VARIABLES
  entry,      \* the entry's creds, uid, options and version; its creds None: no entry
  state,      \* "not_loaded", "loaded" or "retry"
  step,       \* where the setup or unload that holds the lock is
  queue,      \* who waits for the lock, its holder first
  flow,       \* the credentials each form has submitted
  coord,      \* the coordinator's creds and options, its creds None: no coordinator
  listening,  \* the update listener is registered
  listed,     \* the machines of the coordinator's device list
  data,       \* the machines of its data
  seen,       \* _seen_iot_ids of the platforms
  registry,   \* the machines with a device and, while loaded, entities
  shared,     \* the credentials with a shared client
  press,      \* the credentials a press of an entity asks a client for
  owned,      \* the machines on each account
  forgotten,  \* history: devices a user removed since the entry was loaded
  strays,     \* history: clients stored by failed setups and by late presses
  missed,     \* history: options changed during a setup that had read them
  submits,    \* credentials submitted so far
  changes,    \* changes so far
  fails       \* first refreshes that failed so far

bounds == <<submits, changes, fails>>
devices == <<listed, data, seen, registry, forgotten>>
clients == <<shared, press, strays>>
lock == <<step, queue>>
vars == <<entry, state, lock, flow, coord, listening, devices, clients, owned, missed, bounds>>

NoEntry == [creds |-> None, uid |-> None, options |-> None, version |-> 2]
NoCoordinator == [creds |-> None, options |-> None]
NoneSubmitted == [f \in Flows |-> None]
Requests == Flows \cup {"listener", "scheduled", "setup"}

(* Before there is an entry, or when Home Assistant starts with one, which *)
(* may be of the first version and knows devices from before.              *)
Init ==
  /\ \/ entry = NoEntry /\ queue = <<>> /\ registry = {}
     \/ /\ \E c \in Creds, v \in {1, 2} :
             entry = [creds |-> c, uid |-> IF v = 1 THEN None ELSE Account[c],
                      options |-> Default, version |-> v]
        /\ queue = <<"setup">>
        /\ registry \in SUBSET Machines
  /\ state = "not_loaded"
  /\ step = "idle"
  /\ flow = NoneSubmitted
  /\ coord = NoCoordinator
  /\ listening = FALSE
  /\ listed = {} /\ data = {} /\ seen = {} /\ forgotten = {}
  /\ shared = {} /\ press = None /\ strays = {}
  /\ owned \in Sharing
  /\ missed = FALSE
  /\ submits = 0 /\ changes = 0 /\ fails = 0

-----------------------------------------------------------------------------
(* Forms and options.                                                      *)

(* Mutated form of Listened: the listener is never registered.             *)
ListenedNever(changed) == <<>>

(* async_update_entry: a change is heard by the listener, which asks for a *)
(* reload.                                                                 *)
Listened(changed) == IF changed /\ listening THEN <<"listener">> ELSE <<>>

(* Mutated form of UniqueId: the credentials themselves.                   *)
UniqueIdSecret(c) == c

(* The unique id of an entry names the account, in lower case.             *)
UniqueId(c) == Account[c]

(* The credentials of a form were tried with a sign-in of the form's own.  *)
Submit ==
  /\ submits < MaxSubmits
  /\ submits' = submits + 1
  /\ UNCHANGED <<changes, fails>>

(* async_step_user: the entry is created and set up.                       *)
Create(c) ==
  /\ entry = NoEntry
  /\ Submit
  /\ entry' = [creds |-> c, uid |-> UniqueId(c), options |-> Default, version |-> 2]
  /\ queue' = <<"setup">>
  /\ UNCHANGED <<state, step, flow, coord, listening, devices, clients, owned, missed>>

(* async_step_reconfigure and async_step_reauth_confirm, up to the reload  *)
(* they wait for.                                                          *)
Resubmit(f, c) ==
  /\ entry # NoEntry
  /\ flow[f] = None
  /\ Submit
  /\ entry' = [entry EXCEPT !.creds = c]
  /\ flow' = [flow EXCEPT ![f] = c]
  /\ queue' = queue \o Listened(c # entry.creds) \o <<f>>
  /\ UNCHANGED <<state, step, coord, listening, devices, clients, owned, missed>>

Reconfigure(c) == \E f \in Flows \ {"reauth"} : Resubmit(f, c)
Reauthenticate(c) == \E f \in Flows \ {"reconfigure"} : Resubmit(f, c)

(* The options flow: nobody listens while a setup is under way.            *)
SetOptions(o) ==
  /\ entry # NoEntry
  /\ o # entry.options
  /\ changes < MaxChanges
  /\ changes' = changes + 1
  /\ entry' = [entry EXCEPT !.options = o]
  /\ queue' = queue \o Listened(TRUE)
  /\ missed' = (missed \/ (coord # NoCoordinator /\ ~listening))
  /\ UNCHANGED <<state, step, flow, coord, listening, devices, clients, owned, submits, fails>>

(* A reload has ended.  A form that waited for it goes on at once: it sets *)
(* the unique id, which may be heard, and asks for another reload.         *)
Release(heard) ==
  /\ step' = "idle"
  /\ IF Head(queue) \notin Flows
     THEN queue' = Tail(queue) /\ UNCHANGED <<entry, flow>>
     ELSE LET c == flow[Head(queue)]
          IN  /\ entry' = [entry EXCEPT !.uid = UniqueId(c)]
              /\ queue' = Tail(queue)
                          \o (IF heard /\ UniqueId(c) # entry.uid THEN <<"listener">> ELSE <<>>)
                          \o <<"scheduled">>
              /\ flow' = [flow EXCEPT ![Head(queue)] = None]

-----------------------------------------------------------------------------
(* Unloading.                                                              *)

UnloadBegins ==
  /\ step = "idle"
  /\ queue # <<>>
  /\ state = "loaded"
  /\ step' = "unloading"
  /\ UNCHANGED <<entry, state, queue, flow, coord, listening, devices, clients, owned, missed,
                 bounds>>

(* Mutated form of Cleared: the client of what the entry says now.         *)
ClearedOfEntry == entry.creds

(* Whose shared client async_unload_entry clears.                          *)
Cleared == coord.creds

(* async_unload_entry, once the platforms are gone.                        *)
Unload ==
  /\ step = "unloading"
  /\ step' = "unloaded"
  /\ state' = "not_loaded"
  /\ shared' = shared \ {Cleared}
  /\ strays' = strays \ {Cleared}
  /\ coord' = NoCoordinator
  /\ listening' = FALSE
  /\ seen' = {}
  /\ forgotten' = {}
  /\ UNCHANGED <<entry, queue, flow, listed, data, registry, press, owned, missed, bounds>>

-----------------------------------------------------------------------------
(* Setting up.                                                             *)

(* async_migrate_entry, and the coordinator made of the entry as it is.    *)
Construct ==
  /\ \/ step = "unloaded"
     \/ step = "idle" /\ queue # <<>> /\ state # "loaded"
  /\ step' = "signing"
  /\ state' = "not_loaded"
  /\ entry' = IF entry.version = 1
              THEN [entry EXCEPT !.version = 2, !.uid = UniqueId(entry.creds)]
              ELSE entry
  /\ coord' = [creds |-> entry.creds, options |-> entry.options]
  /\ missed' = FALSE
  /\ UNCHANGED <<queue, flow, listening, devices, clients, owned, bounds>>

(* The first refresh has a client, a new one or the one registered.        *)
SignedIn ==
  /\ step = "signing"
  /\ step' = "reading"
  /\ shared' = shared \cup {coord.creds}
  /\ UNCHANGED <<entry, state, queue, flow, coord, listening, devices, press, strays, owned,
                 missed, bounds>>

(* Mutated form of Kept: nothing is pruned.                                *)
KeptAll(current) == registry

(* The devices that the prune leaves: those described now.                 *)
Kept(current) == registry \cap current

(* The first refresh ends: the machines of the list that answered are the  *)
(* data, the devices of all others are removed, and the platforms add      *)
(* entities for the data.                                                  *)
SetUp ==
  /\ step = "reading"
  /\ listed' = owned[Account[coord.creds]]
  /\ data' \in SUBSET listed'
  /\ registry' = Kept(data') \cup data'
  /\ seen' = data'
  /\ state' = "loaded"
  /\ listening' = TRUE
  /\ Release(TRUE)
  /\ UNCHANGED <<coord, clients, owned, forgotten, missed, bounds>>

(* Mutated form of AfterFailure: an entry whose setup failed is left.      *)
AfterFailureStop == "not_loaded"

(* ConfigEntryNotReady: Home Assistant tries again later.                  *)
AfterFailure == "retry"

(* It fails.  The client it signed in stays registered: only an entry that *)
(* was loaded is unloaded.                                                 *)
SetupFails ==
  /\ step \in {"signing", "reading"}
  /\ fails < MaxFails
  /\ fails' = fails + 1
  /\ state' = AfterFailure
  /\ coord' = NoCoordinator
  /\ strays' = strays \cup ({coord.creds} \cap shared)
  /\ missed' = FALSE
  /\ Release(FALSE)
  /\ UNCHANGED <<listening, devices, shared, press, owned, submits, changes>>

Retry ==
  /\ step = "idle"
  /\ queue = <<>>
  /\ state = "retry"
  /\ queue' = <<"setup">>
  /\ UNCHANGED <<entry, state, step, flow, coord, listening, devices, clients, owned, missed,
                 bounds>>

-----------------------------------------------------------------------------
(* A loaded entry.                                                         *)

(* The machines a platform makes entities for: those it has not seen.      *)
New == data' \ seen

(* A scan: the list is the one held or a new one, a machine that does not  *)
(* answer is left out, and the listeners of the platforms run.             *)
Scan ==
  /\ state = "loaded"
  /\ LET mine == owned[Account[coord.creds]]
     IN  /\ listed' \in {listed, mine}
         /\ data' \in SUBSET (listed' \cap mine)
  /\ seen' = seen \cup data'
  /\ registry' = registry \cup New
  /\ UNCHANGED <<entry, state, lock, flow, coord, listening, clients, owned, forgotten, missed,
                 bounds>>

(* async_remove_config_entry_device lets go of what is not described now,  *)
(* which is nothing while the entry is not loaded.                         *)
UserRemoves(m) ==
  /\ m \in registry
  /\ state = "loaded" => m \notin data
  /\ registry' = registry \ {m}
  /\ forgotten' = IF state = "loaded" THEN forgotten \cup {m} ELSE forgotten
  /\ UNCHANGED <<entry, state, lock, flow, coord, listening, listed, data, seen, clients, owned,
                 missed, bounds>>

(* A press asks for the client of its coordinator, and may be answered     *)
(* after that one was unloaded.                                            *)
PressBegins ==
  /\ state = "loaded"
  /\ press = None
  /\ press' = coord.creds
  /\ UNCHANGED <<entry, state, lock, flow, coord, listening, devices, shared, strays, owned,
                 missed, bounds>>

PressSignsIn ==
  /\ press # None
  /\ press' = None
  /\ shared' = shared \cup {press}
  /\ strays' = IF coord.creds = press THEN strays ELSE strays \cup {press}
  /\ UNCHANGED <<entry, state, lock, flow, coord, listening, devices, owned, missed, bounds>>

PressFails ==
  /\ press # None
  /\ press' = None
  /\ UNCHANGED <<entry, state, lock, flow, coord, listening, devices, shared, strays, owned,
                 missed, bounds>>

(* A machine is given to an account, or taken from it.                     *)
AppMoves(a, m) ==
  /\ changes < MaxChanges
  /\ changes' = changes + 1
  /\ owned' = [owned EXCEPT ![a] = IF m \in @ THEN @ \ {m} ELSE @ \cup {m}]
  /\ UNCHANGED <<entry, state, lock, flow, coord, listening, devices, clients, missed, submits,
                 fails>>

-----------------------------------------------------------------------------
Setup == UnloadBegins \/ Unload \/ Construct \/ SignedIn \/ SetUp

Next ==
  \/ Setup \/ SetupFails \/ Retry
  \/ \E c \in Creds : Create(c) \/ Reconfigure(c) \/ Reauthenticate(c)
  \/ \E o \in Options : SetOptions(o)
  \/ Scan \/ PressBegins \/ PressSignsIn \/ PressFails
  \/ \E m \in Machines : UserRemoves(m)
  \/ \E a \in Accounts, m \in Machines : AppMoves(a, m)

(* A reload that has the lock goes on, and an entry that is not ready is   *)
(* tried again.                                                            *)
Fairness == WF_vars(Setup) /\ WF_vars(Retry)

Spec == Init /\ [][Next]_vars /\ Fairness

-----------------------------------------------------------------------------
TypeOK ==
  /\ entry \in [creds : Creds \cup {None}, uid : Accounts \cup {None},
                options : Options \cup {None}, version : {1, 2}]
  /\ coord \in [creds : Creds \cup {None}, options : Options \cup {None}]
  /\ state \in {"not_loaded", "loaded", "retry"}
  /\ step \in {"idle", "unloading", "unloaded", "signing", "reading"}
  /\ queue \in Seq(Requests)
  /\ flow \in [Flows -> Creds \cup {None}]
  /\ listening \in BOOLEAN /\ missed \in BOOLEAN
  /\ {listed, data, seen, registry, forgotten} \subseteq SUBSET Machines
  /\ {shared, strays} \subseteq SUBSET Creds
  /\ press \in Creds \cup {None}
  /\ owned \in [Accounts -> SUBSET Machines]
  /\ submits \in 0 .. MaxSubmits
  /\ changes \in 0 .. MaxChanges
  /\ fails \in 0 .. MaxFails

(* When no reload is asked for, a loaded entry runs with the credentials   *)
(* and the options it states, and is named by their account, whichever     *)
(* forms crossed (_async_update_listener, async_step_reconfigure,          *)
(* async_migrate_entry).  Options set while a setup has read them and does *)
(* not listen yet wait for the next reload.                                *)
SettledIsCurrent ==
  state = "loaded" /\ queue = <<>> =>
    /\ coord.creds = entry.creds
    /\ coord.options = entry.options \/ missed
    /\ entry.uid = Account[entry.creds]
    /\ entry.version = 2

(* A shared client is the coordinator's, or is left by a setup that failed *)
(* after its sign-in or by a press that outlived its coordinator: an       *)
(* unload leaves none (async_unload_entry).                                *)
ClientsAreExplained == shared \subseteq {coord.creds} \cup strays

(* While the entry is loaded, the devices are the machines that were read  *)
(* since, less those a user removed: none of another account or an earlier *)
(* load is left, and a machine that is read has one                        *)
(* (_prune_devices_this_entry_no_longer_describes, _discover).             *)
DevicesAreTheMachines ==
  state = "loaded" => data \subseteq seen /\ registry = seen \ forgotten

(* Whatever is submitted and however setups fail, the entry ends loaded    *)
(* with the credentials submitted last.                                    *)
EntrySettles ==
  entry # NoEntry ~> [](state = "loaded" /\ coord.creds = entry.creds)

(* _current_identifiers: "The machines are named by their iotId, which the *)
(* account sharing keeps the same, so their entities and ids survive a     *)
(* reconfiguration."                                                       *)
MachinesSurvive ==
  [][step = "reading" /\ state' = "loaded" /\ Head(queue) \in Flows =>
       registry \cap owned[Account[coord.creds]] \subseteq registry']_vars
=============================================================================
