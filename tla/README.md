# MiThings in TLA+

MiThings connects SmartThings to MiLight / LimitlessLED Wi-Fi bridges. A SmartThings app
sends HTTP requests to a web API; the API turns each into MiLight instructions and publishes
them on Redis; a TCP server in Go, to which every bridge keeps one connection, writes them to
the bridge. This directory models that program, checks the models with TLC and proves
theorems about them with TLAPS. Paths are relative to `src/`.

## 1. Inventory

| part | source | state | operations | hard behaviour |
|---|---|---|---|---|
| TCP server | `backend/main.go` | `macMap` (MAC -> Go channel), `cmdMutex`, one handler and one worker goroutine per connection, the Redis subscription | accept, read MAC, heartbeat, register channel, receive / probe / write / mark processed, clean up, dispatch | goroutines that share a map under a mutex not taken everywhere; channels closed by whoever comes last; stale sockets; panics that end the process; services that fail |
| v1 API | `frontend-v1/app/controllers/api/v1/rgbw_controller.rb` | rows `hubs.status` and `action_logs` | `/rgbw/:action/:value/:group`, `/rgbw/status`, admin notification | read-modify-write of a JSON column in concurrent Puma threads, a maximum read back after the commit, publish after the commit |
| v2 API | `frontend-v1/app/controllers/api/v2/rgbw_controller.rb` | none | index / show / update stubs | unfinished, drives nothing |
| hubs | `models/hub.rb`, `controllers/hubs_controller.rb` | rows `hubs` | create, destroy, `uppercase_mac`, `adjust_mac` | validations that read before they write and no unique index; the MAC is normalised after it is validated; arithmetic on one octet |
| accounts | `models/user.rb`, `models/identity.rb`, `omniauth_callbacks_controller.rb` | rows `users`, `identities` | `find_for_oauth` | find-or-create twice over, without a transaction, in concurrent sign-ins; a unique index behind one validation and none behind the other; `belongs_to` that may or may not be required; sign-ins that stop half-way |
| SmartThings apps | `smartapps/`, `devicetypes/` (copies under `smartthings/`) | device attributes, events | master and zone handlers, `httpCall`, `parseResponse` | events that cause commands that cause events; the master device is a child of its own app |
| dashboard, landing, contact, policies, `sessions_controller` | `frontend-v1/app/` | none | render, authorise | none |
| infrastructure, vendored code, assets | `shared/`, `backend/vendor/`, `frontend-v1/vendor/`, `public/` | none | - | none |

How they interact: SmartThings -> (HTTP GET) -> v1 API -> (PostgreSQL `hubs`, `action_logs`;
Redis `*_cmdQueue`) -> TCP server -> (TCP) -> bridge. The TCP server writes back
`action_logs.processed`, `hubs.heartbeat` and the Redis set `currentlyConnected`.

What makes each part correct:

- TCP server: at most once and in order to the bridge a command is for; the process survives
  reconnects; a live connection stays reachable; goroutines end with their connection.
- v1 API: a command is published only after it was saved, under a log id that is really its
  hub's; the saved status is the effect of the commands accepted; the instructions make the
  bulbs show what was asked for; every request is answered.
- hubs: no two hubs with one MAC, at most five per user, `adjusted_mac` is the MAC the bridge
  announces; a hub that passed validation can be saved again.
- accounts: one identity per `(uid, provider)`, which leads to its owner's user only; a sign-in
  that succeeds leaves a token for the SmartApp; one that fails can be repeated.
- SmartThings apps: one user action causes finitely many requests, and devices end up showing
  what was asked for.

## 2. Modules

| module | what it is | extends |
|---|---|---|
| `Backend` | the TCP server, one action per step of its goroutines | - |
| `BackendProperties` | its properties, and the refinement mapping to `CommandDelivery` | `Backend` |
| `CommandDelivery` | abstract: what becomes of each command published | - |
| `BackendProofs`, `BackendOrderProofs` | theorems about `Backend` | `BackendProperties`, each the one before |
| `RgbwApi` | the v1 API, one action per database or Redis statement of a request | - |
| `RgbwApiProperties` | its properties | `RgbwApi` |
| `RgbwApiOverlap` | which requests are served at the same time, and the refinement mapping to `HubCommands` | `RgbwApiProperties` |
| `HubCommands` | abstract: a command takes effect at once, is told to the bridge, is confirmed, and what commands that overlap may do to each other | - |
| `RgbwApiProofs` | theorems about `RgbwApi` | `RgbwApiProperties` |
| `RgbwApiOverlapProofs` | that `RgbwApi` implements `HubCommands` | `RgbwApiOverlap`, `RgbwApiProofs` |
| `LightControl` | the instructions, and the bridge and bulbs that obey them: the API composed with what comes after it | `RgbwApiOverlap` |
| `LightControlProofs` | theorems about instructions and bulbs | `LightControl`, `RgbwApiOverlapProofs` |
| `Accounts` | signing in, one action per statement, with its properties | - |
| `AccountsProofs` | theorems about `Accounts` | `Accounts` |
| `Hubs` | registration of hubs and the MAC normalisation, with its properties | - |
| `HubsProofs` | theorems about `Hubs` | `Hubs` |
| `SmartThings` | the devices and handlers of one bridge, with their properties | - |
| `SmartThingsProofs` | theorems about `SmartThings` | `SmartThings` |
| `MCBackend`, `MCRgbwApi`, `MCLightControl`, `MCHubs`, `MCAccounts` | instances for TLC; the `.cfg` files beside them choose one each (`MCLightControl` adds to the instances of `MCRgbwApi`; `SmartThings` needs none) | |

A definition whose comment starts with "Mutant" is a wrong version of the one after it. It is
in no next-state relation; it exists so that each property can be seen to fail.

### 2.1 `Backend`

State. `macMap` maps a MAC to a channel; a channel has the name of the connection whose handler
made it, so a channel that outlives its connection is recognised. `closed` are channels that
were closed. `hpc`/`wpc` say where the handler and the worker of a connection are, `chan` is the
channel the worker found at its last look-up, `job`/`step` the command it holds and the
instruction it is at. `ppc`/`msg`/`queue` are the dispatcher, the command in its hand and Redis'
pending messages. `link` is the socket: `up`, `stale` (the bridge is gone and the kernel does not
know: Go 1.6 sets no keepalive here), `broken` (a FIN or RST arrived), `closed`. `got` is what
each bridge received. `processed`, `connected` and `heartbeat` are the PostgreSQL and Redis data.

Actions. `H*` are `handleConnection` (234-307), `W*` are `waitForCommands` (309-366), `P*` are
`redisPubSub` (187-232). Each ends where another goroutine, the network or a service can next be
observed. `cmdMutex` is no variable of its own: the program counters say who is between `Lock`
and `Unlock` (`LockFree`). The unlocked reads of `macMap` (280, 318) may coincide with a write,
upon which Go's runtime throws (`UnlockedReadRaces`). A panic anywhere ends the process
(`Panic`); its container starts it again (`Restart`).

Abstractions. A command is the bridge it is for and the number of instructions that decode before
the list ends or one is not base64 (333-339). Bytes before a MAC and after it change nothing and
are left out. A MAC is read and added to the Redis set in one step; the heartbeat is "has been
set". A write on a broken connection may succeed or fail, on a closed one it fails. The result of
an instruction's write is ignored by the code, and so it is here: on a stale link it is lost.
`json.Unmarshal` never fails, as the API publishes only JSON. A bridge has one client socket and
dials again only when its last connection is not up.

### 2.2 `RgbwApi`

State. `hubs` and `status` are the table `hubs`, `log`, `logged` and `lastId` the table
`action_logs` with its sequence, `published` the messages on the command queue, `processed` the
flag the TCP server sets. Per request: `pc`, the row `hub` it works for, `copy` (the status it
computed), `dirty` (whether ActiveRecord will write it), `newest`, `updated`, `reply`, `body`.

Actions. `Authenticate`, `Validate`, `Save`, `Commit`, `Maximum`, `Publish`, `AuthenticateAgain`
and `LastLog` are the command route (78-168) cut at each statement. `save!` is a transaction:
its UPDATE takes the row lock (only when the status changed) and waits for another's; the UPDATE
and the INSERT of the log are one step, as nothing but the lock lies between. `DatabaseError`,
the error branch of `Publish` and `Killed` are the failures; a COMMIT whose outcome stays unknown
is left out. `HubCreated`, `HubDestroyed` and `Processed` are the other programs at work on the
same rows. `Threads` are those of all processes of Puma on all machines, by default five of each
process (`puma.rb:7`), behind one load balancer; they share nothing but the rows and Redis. A
process that is killed takes with it the requests it serves, any of those at work (`Killed`).

`RgbwApiOverlap` adds one history variable, `met`: for each request the others for the same MAC that
were being served while it was. Nothing depends on it. `HubCommands` uses it to say how much of
atomicity is left. A command that met none which took effect (`Disturbed`) makes its hub's new
status of the old one, exactly; it comes after all that took effect or were published before, under
its own number; its answer shows it. One that was disturbed may also put in place a status made of
an older one, which shows it all the same, or leave the status alone; it may be published under the
number of a later one it met; its answer may show something else. Whatever it does is one step on
one hub, never a part of its fields or groups.

Abstractions. A command is its action, value and group; `Nil` for a group is a path the route's
pattern does not match. The status route always answers 500: it names an undefined variable (67).
The instructions are in the next module.

### 2.3 `LightControl`

State, beside that of `RgbwApi`. `bridges` is, for each MAC, the group the bridge has selected and
what its four zones of bulbs show; `taken` are the messages the TCP server has dealt with, `carried`
those of which the bridge got every instruction.

Actions. `LightNext` is a step of the API, or `Take`: the TCP server takes the next message for a
bridge, in the order of publication, and writes its instructions (309-356) or, with `"bridge"` among
the `Unreliable`, only the first of them or none. That is all of `Backend` that matters to the bulbs:
its `BridgeOrder` is the order, its `ImplementsDelivery` says that what is missing is missing at the
end. A log can be marked processed only after its message was taken. `GenerateCommand` is
`generateCommand` and `groomCmds` (196-264), `ColorByte` and `BrightnessByte` the conversions
(98-119, 231): a colour without a `#` is given one first (`Prefixed`, 100). `Obeyed`, external, is the bridge: *on* and *off* of a group, *white* of a group, and
brightness and colour, which have no group and go to the one put on last. A command for a row and
one for another row of the same MAC go to the same bridge.

Abstractions. An instruction is its first two bytes, the third is always `0x55`; Base64 is left
out, `pack('c*')` keeps 8 bits (`Low`). `Number` is Ruby's `String#to_i` and `Hue` the gem's hue,
here whole degrees: the code's is a fraction, truncated the same way at the end. Reading the
conversions shows three things no property states: hues that give 127 (yellow) or 0 (blue) come out
white, where the comment of line 103 speaks of white alone; the white codes are looked for in upper
case only; and numbers above 100 are not refused and wrap around.

### 2.4 `Accounts`

State. `users` maps the addresses that have a user to the number of tokens it has been given,
`identities` the rows that exist to the address of their user or `Nil`. A row has the name of the
sign-in that inserted it, so rows with one account are told apart. Per sign-in: `pc`, `session`
(`signed_in_resource`), `row` and `owner` (the identity in memory), `user`, `tokenless`
(`user.token.nil?` as loaded). `alone` is a history variable: of a sign-in at
work, no other has run beside it.

An address has two forms. Devise puts the one of a new user in lower case and strips it, before the
validation and the INSERT (`devise.rb:48`, `53`): `Stored`, which is what `NewEmail` and so `users`
hold. `User.where(email: email)` (`user.rb:39`) converts nothing, so `KnownEmail` looks for the
address as the provider spells it. The comment above line 48 says that the keys are converted when
they are "used to authenticate or find a user", which is true of Devise's finders; this is not one.

Actions. `FindIdentity`, `ValidateNew` and `CreateIdentity` are `find_or_create_by` (`identity.rb`
4-8); `ChooseUser`, `FindUser`, `ValidateUser`, `InsertUser` lines 29-53 of `user.rb`;
`ValidateIdentity`, `SaveIdentity` 56-59; `SaveToken` 61-64. There is no transaction around them.
A SELECT of a validation is a step of its own; the unique index acts in `InsertUser`, and
`identities` has none. `Crash` is a kill or a failing statement anywhere.

Abstractions. Whether `belongs_to` requires a user depends on whether
`new_framework_defaults.rb:18` runs before Active Record is loaded, so `required` is either, for
good. Users are made only here, or before the first sign-in (`Legacy`, from before tokens);
`Overfull` are those whose `user.save!` fails because of `user.rb:5`. A browser may be
signed in as any user who has signed in before. The provider's dialogue, the session cookie and
Devise's trackable fields are left out: they are the library's. The validation of line 18 never fails, as
`\Acnot@provided` matches no address.

### 2.5 `Hubs`

`Arrives`, `ValidateHub`, `ValidateCount` and `Insert` are one `create` (11-23), a step per
statement; the row appears for others at the commit, which is `Insert`. `Destroy` is `destroy`.
A MAC is a record of six octets, five separators and a case, because what `adjust_mac` does
depends on all three: it keeps 15 characters and appends the incremented octet *after the last
colon* in hexadecimal without padding. `AdjustedIsNextMac` states exactly when that is the
bridge's address: for colons and last octets from `0F` to `FE`. The uniqueness of a MAC is asked for
the text as typed, rows hold it in upper case: `DuplicatesByRaceOnly` is about MACs typed so, as one
typed in lower case is never found taken, and is saved twice without any race (`hub.rb:3`, 11).

### 2.6 `SmartThings`

State. `attr` are the attributes of the master (device 0) and the zones, all children of one app.
`events` are events whose handler has not started, `running` those whose handler waits for the
answer to its request or has devices `left` to command. `told` is what the API was last asked for,
per zone; `last` and `hurried` record the commands given.

Actions. `Commands` is a command of the device's user, in a hurry at most `MaxHurried` times: else
the user waits until nothing is being handled; `Used` are the devices commanded so.
`BeginMaster`, `FollowMaster` and `EndMaster` are the three kinds of master handlers (131-176):
up to the answer to `httpCall`, the command to one child, in whatever order the platform lists
them and with anything in between, and the end. `BeginZone`/`EndZone` are those of a zone
(184-236) before and after `httpCall`. A handler starts in any order, or in the order of the
events if `Ordered`; handlers end in any order.

Abstractions. What the platform does is external: an event that repeats its attribute's value is
swallowed (the code counts on it, and on `unknown` to get around it). `httpCall` catches every
error and goes on, so a request is one sent. `parseResponse` changes nothing: the v1 API answers
`nick`, `mac`, `updated_at`, `status` and `processed_last_command` or a `result`, and it looks
for other fields. `refresh` asks for a status that is always answered 500. That the v1 API of this commit would refuse these requests, as `httpCall` sends the header `MAC` and no `Authorization`, changes nothing in the devices either. Whether the platform
keeps the preference `group` as a number or as a text decides if the master's colour handler
leaves the master out (line 172): both are possible.

## 3. Runs

| run | instance | what it shows |
|---|---|---|
| `backend_isolation` | two bridges; one dials up to twice, with stale and broken links, the other once; one command for each, the first without an instruction | types; mutual exclusion; `OneHolder`: a command is in one place and never handed out again; `OwnCommandsOnly`; `StableBridgeServed` and `StableBridgeListed`: a bridge that keeps its first connection stays registered, served and in `currentlyConnected` whatever the other one does; `NoChannelFaultWithoutChurn` |
| `backend_delivery` | one bridge that dials twice, two commands, three instructions, failing PostgreSQL and Redis, crashes and restarts | `BridgeOrder`: each instruction at most once, in order; `ProcessedMeansReceived`; `ImplementsDelivery`: refinement of `CommandDelivery` |
| `backend_liveness` | one bridge that dials twice, a command with and one without an instruction, weak fairness | the dispatcher drains, workers finish their command, handlers clean up, or the process dies |
| `backend_discard` | finding | a command is discarded although its bridge is connected: its worker is starting, writing or sleeping, or its map entry was deleted by the worker of the connection it replaced (210-214, 360) |
| `backend_clean_exit` | finding | a reconnect closes a channel that is closed already: the process dies (276-282) |
| `api_threads` | two threads, two requests (a colour for all groups, off for one), a hub destroyed and created anew, every failure, processes restarted together or one by one | types; `PublishedUnderItsHub`; `StatusOfNewestLog`: the status in a row is that of the newest log that changed it; every request that starts ends, though the other one failed or was killed with the lock in hand |
| `api_overlap` | `MCLightControl`: two threads, two requests (all groups off, a brightness for one) that overlap or do not, two rows with one MAC, every failure, messages lost whole or in part | `ImplementsHubCommands`: requests that did not meet are atomic, published in the order in which they took effect and visible in the answer, and those that met lose or undo only whole commands; `AnsweredWasPublished`; `EachCommandShows`: whatever a bridge was told before, a message it gets makes the bulbs of its group show its request and changes nothing else; `BulbsShowStatus`: while all that was saved was published and carried out and no two of these commands met, the bulbs are as the status says |
| `api_groups` | finding | a concurrent command for one group writes the others' old state over a command for all groups (137-154) |
| `hubs` | nine submissions of two users, two threads, a limit of two | the limit is exceeded only by submissions that raced, by fewer than the number of threads; so is the uniqueness of a MAC that was typed in upper case (one typed in lower case is validated as typed and duplicates without any race); adjusted MACs stay distinct, and which of them are right |
| `accounts` | four sign-ins of two accounts, two threads, a verified address that is not spelt as it is stored, a user without a token and with too many hubs; sign-ins stop anywhere | `DuplicatesByRaceOnly` and `TokensByRaceOnly`: rows of one account and tokens of one user are never more than the threads; `DoneIsLinked`; `OwnUserOnly`: an identity leads to no stranger's user; `FailsForACause`: a sign-in without company fails only for duplicates, a user left without identity under an address it is not looked for by, or too many hubs; `MovesForACause`: only a session or a race moves an identity |
| `things_patient` | two zones, two levels, one colour, a user who waits, handlers in any order; commands are not bounded | every command settles; zones show what the API was asked for; the master shows on or off only if all zones do; on and off of the master reach all zones, and so does a level or colour that changes its own (`MasterChangeReachesZones`) |
| `things_hurried` | finding; one zone, only the master is commanded | on and off of the master before its first handler is done: the zones may stay on (138, `INSTALL.md:42`) |

Why the bounds are enough. Every hazard of the TCP server needs at most two connections of one
bridge (an old one and its successor) and one more bridge to be disturbed; two commands show
reordering and repetition, and a command of two instructions an interruption in between. Two threads
are enough for every race of the API, as its steps touch one row; every failure is among them, so
that the lock and the sequence are seen to recover. Colours are in `api_threads` for the status;
what their instructions do is left to the theorem, which is about every request. A limit of two hubs
in place of five leaves the race at the limit reachable with few submissions. Two zones show one
differing from the other and from the master. Two sign-ins of one account race, with a verified
address in another spelling than it is stored; a third comes with an address it was given since and
which a user without a token has; a fourth, of another account, claims the first address in the
spelling that is stored. An account whose made-up address is left to a user without identity takes
one sign-in more and is left to the theorem. `Script`, `Conn`, `Request`, `Hub`, `Create`, `SignIn`
and `MaxHurried` bound the runs; there is no other bound. Symmetry is used on connections of one
bridge, rows of one MAC and sign-ins alike, in runs of safety properties only.

Fairness. The Go scheduler runs every runnable goroutine, so `FairSpec` of `Backend` has weak
fairness for each handler, each worker and the dispatcher. Nothing is assumed of bridges, of the
network, of the API, or that a dead process is restarted; `HIdentify` belongs to the bridge. In
`RgbwApi` Puma's threads and PostgreSQL make progress, so each request's `Step` is weakly fair.
In `SmartThings` the platform runs the handlers of every event: they are weakly fair together.

Deadlock is not checked. The systems may stop: requests, connections and commands of an instance
are finite, and a worker may wait on its channel for ever, as it should.

What is also in the models but not kept as runs, each a consequence of a step that can be read
off: a command for a bridge that just hung up is sent on a closed channel and the process dies
(211); a worker that finds its entry deleted waits for ever on nil (277, 318); SADD and SREM of
two connections of one bridge come in either order (263, 364), so that it may be missing from the
set; the worker of a replaced connection deletes the live one's entry (360), which the comment of
line 287 does not expect; two requests that meet save in one order and
publish in the other (154, 158), and the bulbs then differ from the status, which is why
`BulbsShowStatus` excludes them; `maximum(:id)` may return a younger log of the same hub, which is then marked
processed in its stead (159); a user made under an address that is made up, or verified but not
spelt as Devise stores it, whose sign-in stopped before its identity was saved, cannot sign in again
with that account, unless from a session or once its address is verified in that spelling
(`user.rb:39-58`, `devise.rb:48`: the case `Orphaned` of `FailsForACause`); one whose
account has two identities without a user cannot at all (`identity.rb:4`). The comment of `user.rb`
34-36 speaks of a `UsersController` the repository does not have.

## 4. Proofs

All are safety theorems for every value of the constants that meets the modules' assumptions,
`Conn`, `Mac`, `Script`, `Request`, `Hub` of any size, finite or not.

`Backend`. `BackendProofs` starts from `TypeInv`, which adds to `TypeOK` which program counters go
together: a goroutine has a command in hand exactly where it uses one, a worker exists only after
its handler made a channel. `MutualExclusion` is inductive beside it. `OwnInv` adds that a channel
stored at a MAC, or found there by a worker, was made by a connection of that MAC, and that a
command in hand is for the worker's bridge; `OwnCommandsOnly` follows. `StableInv` is
`StableBridgeServed` with what it rests on: entries and closed channels belong to handlers that
made them, and a handler that is about to close what it found is not the only one of its bridge;
so while a bridge has one connection nobody can have closed or replaced its channel.
`SpecNoChannelFault` is an action property from the same invariant. `BackendOrderProofs` orders
the commands along their way: what is in the queue is younger than what the dispatcher holds, that
than what workers hold, and the instruction a live connection writes next is later than all its
bridge received (`NextIsLater`; one connection per bridge is live, `OneLive`). `OneHolder` and
`BridgeOrder` are conjuncts of that invariant and `WrittenReceived` gives
`ProcessedMeansReceived`. The same module uses it to show that each action is a step of
`CommandDelivery` under `Fate`, or a stutter: `SpecImplementsDelivery`.

`RgbwApi`. `ApiInv` adds to `TypeOK` and `StatusOfNewestLog` that log ids are distinct and at most
`lastId`, that a committed log has a row, that one open transaction at most holds a row's lock
(`OneHoldsRow`), and that its log is newer than all that changed the row (`HolderIsNewest`). The
lock is why `StatusOfNewestLog` holds: ids are drawn while it is held, so the writers of a row
commit in the order of their ids. `PublishInv` adds that a request past its commit has a committed
log, and that the id it read belongs to its hub and is not older than its own. `OnceInv` says where
a request stands once it was published, and that only one the API does not refuse comes so far;
`AnsweredWasPublished` follows.

`RgbwApiOverlapProofs` is about any number of threads. `OverlapInv` says of each request (`Turn`) what
it can count on: its log's id is above those of all it did not meet (`IdIsLast`); what it computed
still follows from what the row holds, and was computed from some status of the row in any case
(`CopyIsFresh`, `CopyShows`); from its commit on the row shows the command, unless the hub was
destroyed or a request it met was saved (`CommandIsVisible`); the id it publishes under is its own
or a later one of a request it met (`OwnNewest`); and a row that took the hub's place has no log, so
an answer from it is never a 200 with a status (`ReplacementIsNew`, `AnswerShows`). A step of
another request keeps all this because the two either are at work for different MACs or have met
(`MetInv`, `OthersTurn`). With it each arrival is `Begin`, each commit `TakeEffect`, each
publication `Tell`, each answer 200 `Confirm`, a hub that comes or goes `Change`, requests that are
refused, fail or are killed `End`, and all else stutters: `SpecImplementsHubCommands`. That more
cannot be promised of requests which met is what `api_groups` shows.

`LightControl`. `BrightnessKept` and `HueKept` are facts about the conversions by arithmetic over
all their arguments. `InstructionsShow` runs the one or two instructions of any request on a bridge
in any state. `LightType` says that a bridge is always in some state and a message always one the
API could generate instructions for (with `OnceInv`), from which `SpecEachCommandShows` follows for
any number of threads and for requests the run has none of, such as one for group 44. `LightInv` says
of the bulbs and of the row alike that a field holds what the last command that sets it wanted: last
taken for the bulbs (`BulbsShowLast`), last logged for the row, if no two of its commands met
(`RowShowsLast`). With `InOrder`, messages are published in the order of their logs but for those of
requests that met, these two are one command as soon as the messages carried out are the logs saved:
`SpecBulbsShowStatus`, for any number of threads. That the bridge is a variable, and not a fold over the messages, is what spares
an induction over the sequence.

`Hubs`. `RowsInv` gives types. `RaceInv` bounds, for each user, the rows and the submissions past
the count, and for each MAC the rows and the submissions past the validation: those that may still
add one are in threads, and validated when the bound was not reached. `LimitExceededByRaceOnly`
and `DuplicatesByRaceOnly` follow for any number of threads; the two facts about `adjusted_mac`
are arithmetic on the digits.

`Accounts`. `TypeInv` adds to `TypeOK` what a sign-in holds at each place. `LinkInv` follows one
sign-in: from its link on, its row is saved and has a user, and that user has a token from its last
step on. `OwnInv` says where the user a sign-in is about to link came from. `CountInv` counts, for
an account, its rows and the sign-ins that may still insert one, and for a user its tokens and the
sign-ins that hold it without one: together at most `Threads`, since all of these run at once.
`AloneInv`, in `FullInv`, adds that a sign-in without company still sees what it read, which is what
`FailsForACause` and `MovesForACause` need: whatever it does not find and then meets was left by
one before it. A user it meets at the INSERT it would have found, had the address been verified and
spelt as it is stored.

`SmartThings`. `TypeOK` is inductive. `MasterMeansAll` and `ShownIsTold` speak of a state at rest,
so `CascadeInv` says what is true on the way: everything under way stems from the last command and
carries one of its values (`StemsFromLast`), which is why handlers may run in any order; the device
commanded shows it (`LastShown`); a master's handler asked the API before it commands a zone
(`AskedFirst`); and what a zone shows differs from what the API was asked for, or from the master's
switch, only while an event or a handler is there to make it equal (`ShownOrPending`,
`MasterOrPending`). `MasterOrPending` rests on `unknown()`: a zone's own event may contradict the
master only until its handler has put the master to unknown.

Assumptions. Those named in the modules: finite or infinite sets of any size, `Threads` at least
one, hues within the circle, brightnesses that are numbers, an address that is stored is its
own stored form (`StoredAssumption`), a colour has its `#` put before it once (`PrefixedAssumption`),
made-up addresses that belong to one account each. One more is in the theorems
that need it: `MaxHurried = 0` in `SpecMasterMeansAll` and `SpecShownIsTold` is a user who waits
until the lights have settled; `things_hurried` shows what becomes of the others.

Only model-checked: liveness (`DispatcherDrains`, `CommandsFinish`, `HandlersFinish`,
`RequestsEnd`, `Settles`, `MasterControlsZones`, `MasterChangeReachesZones`), which is out of the
prover's reach, and the findings, which are counterexamples. Every invariant, action property and
refinement of the passing runs is a theorem.

## 5. Not modelled

The program itself is Go, Ruby and Groovy, and the parts above are all of it that keeps state. What
is left out:

- JavaScript: every `.js` file is third-party (Bootstrap, prettyPhoto, Modernizr, jQuery plugins)
  or a page template's effects under `app/assets` and `public/templates`, without a part in what
  the system does.
- The administrator's notification routes (170-182), which overwrite one Redis string that one page
  reads, and the health check.
- Base64 and JSON, which the libraries encode on one side and decode on the other.
- The v2 API, a stub that stores and publishes nothing.
- The SmartThings setup pages, and `parseResponse`, which finds none of its fields in an answer of
  the v1 API.
- Pages, policies, `sessions_controller` (not routed), deployment scripts, vendored code.

`PROJECT.json` gives the reason for each, and for each hazard no property covers.

## 6. Plan

What is left: API and TCP server in one state machine. A message discarded by the server leaves
the row's `processed` unset, and a row marked in another's stead (159) would be seen at both ends.
The two are joined today by `Take` of `LightControl`, which loses messages as `Backend` may, and by
`Publish` and `Processed` of each other's models.
