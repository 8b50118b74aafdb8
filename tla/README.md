# A TLA+ verification of the Neakasa integration

This directory specifies the control flow of `custom_components/neakasa`, a Home
Assistant integration for Neakasa litter boxes and feeders, checks it with TLC and
proves its main properties with TLAPS. Paths below are relative to
`src/custom_components/neakasa/`; `coordinator.py:1980` is line 1980 of that file.

## 1. The system

The integration polls a cloud that allows one session per account and that the mobile
app uses too. Everything runs as asyncio tasks on one event loop: the scan that Home
Assistant schedules, presses of entities, the press of *Refresh data now*, config
flows. What lies between two awaits is atomic; at every await any other task may run.
That is the grain of every action here: one action takes a task from one await to the
next, with everything the code changes in between.

| Component | State | Operations | Talks to |
|---|---|---|---|
| Value cache (`value_cacher.py`) | value, time of the last update, stale mark, fetch in flight, lock | `get_or_update`, `mark_as_stale` | a fetch function of the coordinator |
| API manager (`api_manager.py`) | registry of shared clients, lock, count of sign-ins | `get_shared_api`, `clear_shared_api`, `force_reconnect_api` | `NeakasaAPI.connect` |
| API client (`api.py`, `api_client.py`) | tokens, identity, `connected` | connect chain, token refresh, requests with one retry | the cloud; errors translated for the coordinator |
| Session recovery (`coordinator.py` 1504-1610, 1821-2105) | attempts, last full sign-in, owner, evidence | update, renewal, full sign-in, clear and retry, take back | API manager, API client, caches |
| Config writes (`coordinator.py` 1074-1146) | the model's snapshots | `set_property`, `_note_written_config` | properties cache, API client |
| State stamps (`coordinator.py` 1237-1289, `base_entity.py`) | base, fingerprint, bumps; last stamp of each entity | `_mark_state_changed`, `write_state_if_changed` | every entity |
| Device read (`coordinator.py` 1612-1815) | two caches per device, last use, names | `_fetch_single_device`, `_get_records`, `_get_properties` | caches, API client |
| Feeding (`coordinator.py` 1189-1491) | staged amounts, keep-as-defaults, last feed | `feed_once`, `set_pending_feed`, `set_feed_config` | API client, config writes |
| Entry lifecycle (`__init__.py`, `config_flow.py`, `options_flow.py`) | the entry, its version, the loaded coordinator | setup, unload, reload, migrate, prune, reauth, reconfigure | API manager, coordinator |
| Served day (`coordinator.py` 410-470) | none | grouping of a feeder's records by day | snapshot building |
| Snapshot building, formatting entities, signing and encryption, redaction, diagnostics | none that is ordered | pure functions | |

What is hard in each, and what makes it correct:

- **Value cache.** Many callers, one fetch, cancellation, marks that arrive while a
  fetch runs. At most one fetch; an answer is as young as the cache promises; what is
  held never goes back in time; a mark is honoured; every call ends.
- **API manager.** The registry is popped without the lock that sign-ins take. Sign-ins
  are serial; what is registered is the newest; a sign-in has a reason.
- **Session recovery.** Two updates may run at once (a scan and a Refresh press) and
  share the counters that bound them. Recoveries are bounded, forced sign-ins are a
  cooldown apart, the account sensor tells the truth, every update ends.
- **Config writes.** A nested object is read, merged and written across three awaits,
  with a model that updates replace. A press changes its own field and no other.
- **State stamps.** The stamp moves when a device has been read, the data when all have.
  An entity that is not told has nothing new to show.
- **Device read.** Records are read when the last use moves; a refused read answers with
  the held value. A new record is not missed.
- **Feeding.** Amounts are taken, a meal is asked for, defaults are stored, staged
  amounts dropped. No staged amount is lost, no default half stored.
- **API client.** Several tasks use one client and its token, and exchange it when the
  gateway no longer resolves it. Exchanges do not feed on each other; a client is given
  up only for a reason.
- **Entry lifecycle.** Flows, the update listener and unloading reload the same entry.
  A settled entry runs with what was submitted last; nothing of an unloaded entry
  survives but what outlived it; devices are the machines that were read.
- **Served day.** Each meal is counted on the local day it was served.
- **Snapshots and entities.** Every value may be missing or of another type, every entity
  skips a report whose stamp it has seen, every press writes a whole object and mirrors it
  in the model. What is reported is what the model says; a press moves one field and shows.

`PROJECT.json` lists the places in the code where these go wrong ("hazards"), each with
the properties that would show it. Where the code does go wrong, and the property of that
part states what is left of the promise, the hazard names no property: its note says which
module shows it happen, and section 4 what happens.

## 2. Modules

| Module | Models | Rests on |
|---|---|---|
| `AsyncioLock` | `asyncio.Lock`: holder, fair queue, cancellation of a waiter | |
| `SharedCache` | abstract: one fetch at a time, whose answer alone replaces the value, and never by an older one | |
| `ValueCacher` | `value_cacher.py` and the two ways the coordinator builds fetches | `AsyncioLock`; implements `SharedCache` |
| `SharedClient` | abstract: one client, sign-ins one at a time, loss at any moment | |
| `ApiManager` | `api_manager.py` and the chain of `NeakasaAPI.connect` | `AsyncioLock`; implements `SharedClient` |
| `SessionRecovery` | `async_update_data`, its handlers and `regain_cloud_session` | `SharedClient` |
| `ApiTokens` | the requests, exchanges and renewals of tasks that share one connected `NeakasaAPI`, behind `api_client.py` | |
| `DeviceRead` | `_fetch_single_device` with its two caches, and the marks of *Refresh data now* | follows `SharedCache` |
| `DeviceWrites` | `set_property` on nested objects, stamps and the write guard | |
| `Feeding` | staged amounts, `feed_once`, `set_feed_config`, their numbers and switch | |
| `ServedDay` | the meals of the running day, as operators | |
| `Snapshots` | `_build_device_snapshot` and `_build_pet_feeder_snapshot`, as operators | `ServedDay` |
| `EntityStates` | what each entity shows of a snapshot and what each control writes | `Snapshots` |
| `Controls` | one device with all its entities: presses, services, scans, reports | `EntityStates` |
| `EntryLifecycle` | a config entry: forms, options, setup, unload, reload, prune, discovery | |
| `MC...` | instances for TLC | the module of that name |
| `...Proofs` | theorems; `SharedLockProofs` is about `ValueCacher` and `ApiManager` | the module of that name |

`ApiManager` is shown to implement `SharedClient`, and `SessionRecovery` uses
`SharedClient` in its place: it sees a sign-in as begun, finished or failed, and not the
lock and the queue behind it. `SharedCache` plays that part for the records: `ValueCacher`
with its queue, double check, refusals and cancellations implements it, and what
`DeviceRead` does to its records cache, where any waiter may go on, is an instance of it.

**ValueCacher.** `made` is the constructor's arguments (and whether the fetch of that
cache answers a refusal with the held value); `Caches` in `MCValueCacher` are those
the coordinator makes: the device list (refreshed after a while, never discarded),
properties (always refreshed, discarded), records of a litter box (never refreshed on
their own) and of a feeder, and records once more without refusals, for the promises
that a held answer to a refusal does not keep. A value is the number of the source's version when it was
read, so "older" is `<`. A fetch starts, is answered (the sample is taken), and is stored
when its caller resumes: the three moments a mark can fall between. The branch that
joins a fetch in flight (74-81) has no action because `OneFetch` shows that the holder
of the lock never meets one.

**ApiManager.** A client is the number of its sign-in. `connect` is `Login`, then a
token exchange that is accepted, or refused once (and logged in again), or fails.
`Clear` and the pop of `ForceSignsIn` and `ForceWaits` take no lock, as in the code.

**SessionRecovery.** One task is one update with all its nested updates: they return
what the innermost returns. `Ask` is `_get_client`, `List` the device list, `Read` the
gathered reads of the devices with their outcome, `Renew` the token exchange; each of
the helpers `_reconnect_and_retry`, `_force_full_reauth`, `_reconnect_clear_and_retry`
is the operator of a similar name. `live` are the clients whose `connected` is TRUE,
`session` the client the cloud accepts. The environment takes the session away
(`SessionLost`), and refuses, garbles or drops calls. The recovery for an authentication
error (2070-2081) has no action: only `refresh_session` raises that error, and
`_renew_cloud_session` catches it. An answer that `_translate_errors` mistakes for an
expired session is `ApiTokens`'.

**DeviceWrites.** One device and one config object of it. Snapshots have identities,
since a press writes on the one it took before its awaits, and an update may have put
another in its place. `value` is the object a press was given and, from `Send` on, the
one it writes; `fresh` what its read answered. An update marks the stamp (`Mark`) when
this device is read, and replaces the data when all are (`Finish`), or runs again after
a recovery, or fails. Home Assistant tells the entities of a failure when the update
before had succeeded.

**ApiTokens.** Tokens are numbered as the gateway grants them; those up to `aged` no longer
resolve. A request carries the token held when it is built (`Carried`); an answer with a
blank identity leads to one exchange and one repeat. The gateway grants a token in one step
(`Grant`) and the client stores it in a later one (`Repeat`, `Renewed`), so answers may
cross. `Translated` is `_translate_errors` over the words each error text has. What
connects a client is in `ApiManager`; a client given up is never connected again, for
`get_shared_api` makes another.

**DeviceRead.** The cloud counts the uses of the machine (or the meals of a feeder); a
properties read states the newest, a records read holds it. `Begin` or `TakeBack` starts a
read, `AfterProps` weighs a feeder, `NoteUse` compares and notes the last use and asks the
records cache, up to its first await. The cache is `ValueCacher`'s in four variables, and shown to be a `SharedCache`.

**Feeding.** The model of the feeder is its `defFdCfg`, in snapshots with identities as in
`DeviceWrites`. `Take` is `feed_once` up to the meal, `MealServed` what follows its answer,
up to the write of the defaults, which then reads, merges, writes and notes as any press
does (`StoreTake` to `StoreNoted`). `None` of an amount is 0, which no number offers.
An update may leave the feeder out (`ScanLeavesOut`), and then presses bump no stamp and
push nothing (`PushIfShown`), the numbers fall back to the integration's own amounts, and
`set_feed_config` finds no config (`Wanted`, `Merge`); nor does it while the machine states
none. `blind` are the meals stored like that, and `silent` says that what the next meal
would use changed and nobody was told.

**ServedDay, Snapshots, EntityStates, Controls.** A machine's properties are a function from
keys to objects; a field may be `Missing` or `Junk` (a text where a number belongs), so each
conversion of the code (`_to_int`, `_optional_int`, `_property_value`) is there with what it
does to either. Time is in hours and midnights are given, so a day may have 23 or 25 of
them. A row of the records has an identity, so two meals alike count twice. `EntityStates` has one operator per entity class; the names of numbered states are
left out, being one-to-one. In `Controls` a press or a scan is one step: their awaits are
in `DeviceWrites`, `DeviceRead` and `Feeding`. `Report` is `write_state_if_changed` of all
the device's entities, which share one stamp.

**EntryLifecycle.** Home Assistant reloads an entry under a lock; `queue` is who waits for
it. A form writes the new credentials (which the update listener may hear) and waits for a
reload of its own; released, it sets the unique id and asks for another. `UnloadBegins` to
`SetUp` is one reload, from await to await. `seen` is what the platforms remember, and
`registry` the machines that have a device.

## 3. Runs

All runs exhaust their state space or stop at the counterexample they are for.

| Run | Bounds | Shows |
|---|---|---|
| `cacher` | each of five caches, 2 callers, 1 change of the source, ages 0-2 | `CacherTypeOK`, `OneFetch`, `ZeroRefreshReadsAgain`, `ImplementsCache`, `QuietMarkHonoured`, `EveryCallEnds` |
| `manager` | 3 tasks, 2 losses | `TypeOK`, `SignInsAreExplained`, `TwoLoginsAtMost`, `ImplementsShared`, `EveryAskEnds` |
| `tokens` | 3 tasks, 2 ageings, 4 tokens | `TypeOK`, `ExchangesAreExplained`, `GivenUpIsExplained` |
| `recovery_alone` | 1 scan, 2 attempts as in the code, 3 rare events | `TypeOK`, `RecoveriesBounded`, `RefusalIsEvidence`, `UpdateEnds` |
| `recovery_pair` | a scan and a press, 2 rare events | `OneForcedPerCooldown` |
| `reads` | a scan and a press, either kind of device, 2 uses, 1 refusal | `TypeOK`, `NoUseMissed`, `FollowsCache`, `EveryUseIsRead` |
| `writes` | a scan, a press, 2 fields, 2 settings in the app | `TypeOK`, `PressAloneIsExact`, `OrderlyUpdateShows` |
| `writes_shown` | a scan, 2 fields, 1 setting in the app | `EntityCatchesUp` does not hold (section 4) |
| `feeding` | 2 feeds, 3 presses of numbers, switch, button or app, a feeder without defaults, scans with and without it | `TypeOK`, `ShownIsUsed`, `KeptIsStored`, `StagedAreFed` |
| `entities` | a feeder or a litter box, 1 press, 2 changes from elsewhere, an hour before and after a midnight | `TypeOK`, `ReportedIsTheModel`, `ServedIsTheDays`, `PressIsShown`, `PressMovesOne` |
| `lifecycle` | 2 accounts, 1 machine, 2 submissions, 1 change, 1 failed setup | `TypeOK`, `SettledIsCurrent`, `ClientsAreExplained`, `DevicesAreTheMachines`, `EntrySettles` |
| `lifecycle_forgotten` | as `lifecycle` | `MachinesSurvive` does not hold (section 4) |

Why these bounds are enough to be of interest. *cacher*: with two callers one waits
while the other fetches, is answered, fails or is cancelled; age 1 is past the refresh
limit and 2 past the discard limit; one change separates an answer sampled before a mark
from one sampled after it. *manager*: with three tasks one can wait behind a sign-in that
a third has popped from the registry. *recovery*: "rare" events are presses, ends of the
cooldown and calls that fail; three are a refusal, a failed renewal and a failed
sign-in in one update.
Refusals by a lost session are not bounded. *writes*: one press and one field beside its
own is what a merge tells apart; two settings by the app put one before the read and one
between the read and the write; the values of a field are symmetric. *tokens*: three tasks
may all hold the token that aged and all exchange it, and a second ageing may fall between
any two of their steps; four tokens let each of them be granted one. *reads*: two uses let
a second one fall into the read of the first; one refusal is what excuses a miss.
*feeding*: two feeds cross in every order with a number staged, the switch turned or a
setting of the app in between, or one with two of these; the machine states nothing until
a meal is kept or the app sets defaults, which have a portion the integration refuses to
take over, so a meal meets a model with and without a config, and a scan leaves the feeder
out at any point. A machine that states those defaults from the start was run too and
shows nothing else; it takes longer than a run should.
*entities*: machines of both categories that state everything, nothing or texts for numbers
meet every control once, with two changes before, between or after. The hours are the last
of a day of 25 and the first of the day of 24 that follows: at the second of them the
records hold meals of both days, and only those after midnight may count; at the first, a
meal served is not counted by the code, which `ServedIsTheDays` leaves out (section 4).
*lifecycle*: two submissions cross in either order while a setup fails,
a machine is given or taken, or the options change. The safety theorems of section 5 hold
for any number of tasks and any bound.

Fairness. `EveryCallEnds`, `EveryAskEnds` and `UpdateEnds` assume weak fairness of each
task's next step: every request of `api.py` has a timeout, asyncio wakes what is ready,
and `asyncio.Lock` hands over in the order of its queue. None assumes that the cloud
answers. `UpdateEnds` holds because failing calls are bounded by `MaxRare`: while no
device list is held and the cloud is down, the nested retry (2090-2097) goes on for
ever, which its own comment says. It is checked for one task only; two updates can undo
each other's count and renew in turns. `EntityCatchesUp` also assumes that
the cloud answers a property read again and again (strong fairness of `Read`), and that
Home Assistant keeps scanning. `EveryUseIsRead` assumes that Home Assistant scans, that the
tasks go on, that time passes, and that reads are answered again and again (strong fairness); it says nothing
of a use whose read was excused. `EntrySettles` assumes that a reload which has the lock
goes on and that Home Assistant tries an entry again that was not ready; setups fail
finitely often, and the platforms do not refuse to be unloaded: an unload that returns False
(`__init__.py:179-183`) has no action.

## 4. Disagreements of the code with its own words

Two runs stop at a counterexample of one property, which is what a comment or docstring of
the repository says. `PROJECT.json` quotes them ("findings").

| Run | What happens |
|---|---|
| `writes_shown` | an update moves a device's stamp and then fails; entities report unavailable with that stamp and stay so while the device's answer is the same, although scans succeed (`coordinator.py:1803`) |
| `lifecycle_forgotten` | a reconfiguration whose first refresh gets no answer from one machine removes that machine's device, which "survive[s] a reconfiguration" by the comment at `__init__.py:50` (`__init__.py:87`) |

The models show more, without a run of their own:

- A mark made while a fetch is in flight is erased when that fetch stores its older answer
  (`value_cacher.py:28`; `FetchSucceeds` of `ValueCacher`). What holds is
  `QuietMarkHonoured`.
- A refused read of the records is stored as if just read, with the last use noted: that
  use is not read until the next one or a press (`coordinator.py:1705`, against
  `docs/cloud-session-churn.md:161`). `NoUseMissed` excuses it.
- The count of recoveries is one attribute (`coordinator.py:1980`, `2063`): a press that
  finishes resets it under a scan, which then exceeds "at most" two, and it outlives an
  update that failed, so later updates fail for attempts they never made.
  `RecoveriesBounded` is therefore checked, and proved, for one task.
- A client whose token exchange was refused is replaced by a full sign-in inside the
  cooldown (`coordinator.py:1561`); `OneForcedPerCooldown` counts the forced ones only.
- A scan with the client from before a press is refused, and the account sensor denies the
  session the press has just taken (`coordinator.py:1831`); `RefusalIsEvidence` is checked,
  and proved, for one task.
- Of two presses on one object, the second may write back the old value of the first one's
  field: it compares an object built before its awaits with the model after them
  (`coordinator.py:1098`). `PressAloneIsExact` says what holds.
- A device renamed in the account keeps its old label until something else of it changes:
  the label is in the snapshot and not in the stamp (`coordinator.py:1803`).
- The running day is taken as 86400 seconds, so the last hour of a day of 25 is lost
  (`coordinator.py:413`), and a day that begins with an unchanged payload is not reported
  before something changes.
- `DND_Mode` is noted as an object, and the field its switch shows is not, so the switch
  shows the old state until the next scan (`switch/do_not_disturb.py:70`).
- A meal whose defaults fail to be stored ends without a push: the numbers go on showing the
  amounts that were staged for it (`coordinator.py:1350`).
- While an update has left the feeder out of the data, an amount staged, the switch turned or
  a meal fed moves no stamp and pushes nothing (`coordinator.py:1217`, `1294`, `1353`),
  although the next meal uses it: the numbers show the old amounts until a scan
  (`silent` in `ShownIsUsed`).
- A meal stored while the model has no config of the feeder writes `mixMin` 1
  (`coordinator.py:1482`), and `set_property` keeps it, having nothing to compare it with:
  the machine's own minutes are overwritten, which `set_feed_config` says it preserves
  (`coordinator.py:1475-1476`). `KeptIsStored` states the 1.
- Amounts staged while a meal is being asked for are dropped with it (`coordinator.py:1337`);
  `StagedAreFed` excuses them.
- A switch of a device that is left out of the data computes "off", as if the machine said so
  (`OnOff`).
- An exchange that is answered by something else than JSON is a connection error whose text
  names the path `createSessionByAuthCode`, and is taken for an expired session
  (`api.py:155`, `api_client.py:42`).
- Options set while a setup has read them and does not listen yet wait for the next reload
  (`__init__.py:160`), and a device the user removed gets no entities until a reload though
  its machine answers again (`sensor/__init__.py:82`).
- A failed forced sign-in leaves the update with an untranslated error
  (`coordinator.py:1946`), and `connect` may log in twice under one count
  (`TwoLoginsAtMost`, `api.py:134`).

## 5. Proofs

All for any set of tasks, and any value of the bounds, from the assumptions named in the
modules (a task is not `NoTask`, limits are natural numbers or `NoLimit`, scans and
presses are disjoint).

- `SharedLockProofs` holds the lemmas about the lock (what joining, handing over and
  leaving do to the queue) and the two components that use it.
  *Of a cache*: `CacherTypeCorrect`, `SingleFetch`, `ValuesAdvance`,
  `CacherImplementsCache`, `PropertiesReadAfterCall`, `QuietMarksHold`. The first two rest
  on `CallsInv`: a caller that works holds the lock and owns `_inflight`, and a waiting
  caller is queued or has just been given the lock. `OneFetch` alone is not inductive,
  since it says nothing of who may resume. That an answer on its way is not older than the
  value held is `SampleInv`, from which `NeverBackwards` follows; with `Sampled` (an
  answer on its way is a value) each step is one of `SharedCache` or a stutter. What
  answers promise rests on `DataInv`, which adds that an answer is not older than the call
  it is for and the last quiet mark (`ReadInv`); it holds for caches whose refusals raise.
  `QuietMarkHonoured` is what is left of the documented promise: marks made while nothing
  is being fetched.
  *Of the registry*: `TypeCorrect`, `OneSignInAtATime`, `NewestIsShared`,
  `NoNeedlessSignIn`, `LoginsAreBounded`, `RegistryImplementsShared`. The invariant joins
  the lock's book-keeping (`LockInv`) with `SigningAlone` and `RegisteredIsNewest`, and
  strengthens `SignInsAreExplained` by what holds between sign-ins: when nothing usable is
  registered, as many clients were lost as sign-ins made. Each action is shown to keep it
  and to be a step of `SharedClient` or a stutter. `LoginsAreBounded` needs how many
  logins the sign-in under way may still send (`Left`).
  `NeverBackwards` and `SigningAlone` are proved and no longer run: the refinements, which
  are run, do not hold without them.
- `SessionRecoveryProofs`: `TypeCorrect`, `ForcedSignInsAreApart`,
  `RecoveriesOfOneTaskAreBounded`, `RefusalToOneTaskIsEvidence`. The first two share
  `TypeOK /\ OnceInv`: a forced sign-in counted in this cooldown means that the cooldown
  runs. The third assumes one task, as it must (section 4), and proves that its own tries
  never exceed the shared count (`Budget`). The fourth assumes one task too, and adds that
  nobody else signs in and that the client a task lists, reads or exchanges with is the
  registered one (`Own`): a client the cloud refuses is then the one the sensor speaks of.
- `ApiTokensProofs`: `TypeCorrect`, `ExchangesAreBounded`, `GivenUpForAReason`. That an
  ageing costs a task one exchange is not inductive: `Owed` adds that a task which asked
  with an aged token, is exchanging it, or would ask with one, is below its bound. That a
  client is given up for a reason rests on `FreshWhenRepeated`: while nothing is excused,
  a request is repeated with a token that is not aged.
- `DeviceReadProofs`: `TypeCorrect`, `NotedUsesAreRead`, `RecordsFollowCache`. The
  invariant of the second adds that a task states no use the cloud does not have
  (`KnownUses`), that who fetches holds the cache's lock, and that its answer covers the
  noted use unless that is excused (`Fetching`). The third maps each step to one of
  `SharedCache`; it needs that what is on its way is not older than what is held, nor
  newer than the machine's last use (`RecordsInv`).
- `EntryLifecycleProofs`: `TypeCorrect`, `ClientsHaveAReason`, `DevicesAreRead`,
  `SettledEntryIsCurrent`. The invariant says which steps a reload may be in for each
  state of the entry (`Stages`), that an entry exists once anything waits for it
  (`Entered`), and that a form waits in the queue at most once and only after it submitted
  (`Waiting`). `SettledIsCurrent` needs two more facts: a coordinator that differs from
  its entry has a reload waiting behind the one that holds the lock (`Served`), and the
  form that waits last submitted the credentials the entry has (`Named`), so that the last
  name given is theirs.
- `DeviceWritesProofs`: `TypeCorrect`, `AlonePressIsExact`, `OrderlyScanShows`. That a
  snapshot is free when new data needs one rests on counting: there is one more than
  presses (`FreeIsFree`); that the bumps stay in their bound counts the presses under way.
  `PressAloneIsExact` speaks of the moment of the write only: `Undisturbed` says what a
  press knows at each await before. `OrderlyUpdateShows` rests on `Orderly`: a stamp that
  is not ahead of the data is the one the entity noted, a report made while it was not
  ahead shows what the stamp was read with, and the bumps noted are bumps made. It assumes
  that scans alone update (`Refreshes = {}`): two updates may finish in the order they did
  not read in.
- `FeedingProofs`: `TypeCorrect`, `StoredAsServed`, `OnlyMealsDropStaged`,
  `NumbersShowTheNextFeed`, with a feeder that may state nothing and be left out of any
  update. Types need `Working`: a feed that stores has a config to store. `KeptIsStored`
  speaks of the moment after the merge; `Faithful` says that until then an undisturbed
  meal has the value wanted of it (`AsServed`), and that a field in which the cache, the
  model, a scan or its own snapshot states the same is so on the machine, and in the cache
  if that states anything (`Backed`, `Agreed`): what the merge copies from an answer is
  what was wanted. The minutes of a meal stored without a config are one, all others the
  machine's. `StagedAreFed` needs that a feed beside which nothing was staged asks for
  what is staged (`Uncrossed`). `ShownIsUsed` rests on `Orderly`: what was reported
  without the feeder has no stamp, and nothing else has none (`UnstampedIsOut`); a bump is
  noted at once by whoever shows the feeder (`BumpIsNoted`); what is shown is what a sound
  stamp was taken from (`ShownIsStamped`); a mark is of what was read, or bumped over
  (`MarkIsRead`); and when no feed is storing, the last stamp has what is staged and
  switched, unless that changed in silence (`StampedIsStaged`).
- `ControlsProofs`: `TypeCorrect`, `OneFieldMoves`, `ReportedAgrees`, `ServedAgrees`,
  `PressShows`. All of them go by one lemma, `Steps`: each of the many presses, services,
  changes, scans and reports is a `Writing` of one control, a `Serving`, a change from
  `Elsewhere`, an hour, a scan, or a device left out. `Typed` adds to the types that the
  objects a press rewrites are objects in the model too; `ReportInv` that while the stamp
  noted is that of a read, what is shown is what that read says (`NotedShows`);
  `ServedInv` that meals are past and the figures are those of the records they were built
  from; `MirrorInv` that a field of an object which the machine does not state is not
  stated in the model either, and is noted as a read would have it (`Mirrors`).
  The assumptions: hours are natural numbers with a midnight before them; `None`,
  `Missing` and `Junk` are no integers; a machine has the keys and fields of its category;
  and the app, like the integration, leaves no field of a nested object unstated
  (`SettingsAssumption`), which rules out machines that stop stating a field they stated
  before. Sums over meals are not unfolded: equal sets of meals have equal sums.

Every safety invariant and action property of section 3 is thus a theorem; what remains
model-checked only is liveness (`EveryCallEnds`, `EveryAskEnds`, `UpdateEnds`,
`EveryUseIsRead`, `EntrySettles`), which TLAPS does not prove under fairness. What a sum
over a set of meals is for every set (a fold) needs induction over data, out of the
prover's reach, and no theorem claims it.

## 6. Not modelled

Request signing and encryption (`iot_gateway.py`, `api_encryption.py`), redaction and
diagnostics are pure functions over bytes and text: no order of events can make them go
wrong. The parameters of single requests, serial numbers, attributes that only repeat when a
state was read, translations and names of numbered states are data no property tells apart.
The debug probe, an option that sends one write of the user's choice, and the schema for
diagnostics take no part in what the other components promise. `ValueCacher.clear` is
called by nothing. Several accounts share nothing but the lock, and one is modelled, except
in `EntryLifecycle`, where an entry may move from one account to another.

## 7. Plan

1. Compose `ApiTokens` with `SessionRecovery`: show that the outcomes of calls the recovery
   chooses freely (refused, garbled, unanswered, client given up) are those `ApiTokens` has,
   by a refinement mapping of the client it uses.
2. Proofs: the steps of that mapping; how far `RecoveriesBounded` and `RefusalIsEvidence` go
   for several tasks, with what another task reset or signed in under the first one counted.
3. Larger instances where time allows: two presses in `writes` (proved for any number,
   not run), a second machine in `lifecycle`.

The number of runs is kept to what a full check can repeat in reasonable time; where a new
module needs a run, the weakest run of section 3 or 4 gives way.
