# A verification development for R-Type

This directory holds TLA+ models of the R-Type game in this repository (an
authoritative UDP server, a client, and the ECS both are built on), the TLC
configurations that check them on small instances, and theorems about them that
the TLAPS proof system checks for all instances. `PROJECT.json` is the index:
which definition stands for which lines, what each run checks, which mutation
of the code breaks which property, which hazards are covered.

    tlc -workers 4 -config MCGameSession.cfg MCGameSession     # a model
    tlapm GameSessionProofs.tla                                # a proof

## 1. Where things stand

| module | models | runs | proved in |
|---|---|---|---|
| `GameSession` | one room with its two threads: `server/src/GameSession.cpp`, and the routing of one room in `Server.cpp` | `session`, `session_live`, `session_deadlock`, `session_zombie` | `GameSessionProofs` |
| `Server` | the rooms of a server and who is routed where: `server/src/Server.cpp` | `server`, `server_live`, `server_moved` | `ServerProofs` |
| `Registry` | the entities of `ecs/src/Registry.cpp`, as operators on a registry value | within `world`, `client_session` | the lemmas of `WorldProofs` |
| `Spawner` | waves, levels and the boss warning of `SpawnSystem`, as operators on a spawner value | within `world` | within `WorldProofs` |
| `World` | a room's game world, system by system: collisions, lives, pods, weapons, score | `world` | `WorldProofs` |
| `Replication` | `BroadcastSystem`, UDP, the client's `NetworkSystem` | `replication`, `replication_twice` | `ReplicationProofs` |
| `ClientSession` | the client's identity and rooms, `Client.cpp`, against the rooms of a server | `client_session` | `ClientSessionProofs`, `ClientStayProofs`, `ClientScreenProofs` |
| `Scores` | the scoreboard and its file, as operators | within `screens` | within `ScreensProofs` |
| `Menus`, `Lobby`, `Screens` | the client's screens; each extends the one before | `screens` | `ScreensProofs` |
| `Room` | abstract: what a room promises | implemented by `GameSession` and by `World` (`RoomSpec`) | both refinements are theorems |

The `MC*` modules and `.cfg` files hold the instances. 12 runs, 4 of them
show a disagreement of the code with its documentation (section 5); 36 listed
theorems in 8 modules (section 6).

## 2. Inventory

### 2.1 The server process

* **`server/src/main.cpp`, `UdpServer.cpp`** - one UDP socket on an asio
  `io_context`. *State*: the socket, the running flag. *Operations*: receive
  (calls the server's message handler with one datagram at a time), send. SIGINT
  calls `Server::stop`. *Hard*: the signal handler locks and joins; datagrams are
  lost, repeated and reordered. *Correct if* handlers never overlap (asio runs the
  context on one thread).

* **`Server`** (`Server.cpp`) - *State*: `sessions_`, `client_session_map_`
  (address to session id), `session_names_`, `session_rules_`,
  `next_session_id_`, all under `sessions_mutex_`. *Operations*: `ListRooms`,
  `CreateRoom`, `PlayerJoin`, everything else (forwarded), `unmap_client` (callback
  from a session, on either thread), `remove_session` (posted by a session's
  thread to the network thread), `stop`. *Hard*: a handler keeps a raw session
  pointer after it has released the mutex; removals run later than they are
  decided; routes are erased by address from several threads; a client may be a
  member of several rooms. *Correct if* no pointer, route or posted removal
  outlives the session it means; ids are not handed out twice; a room plays by the
  rules it was created with; a client that sends is heard.

* **`GameSession`** - *State*: `clients_` (under `clients_mutex_`), `registry_`
  with the systems (under `registry_mutex_`), the atomics `running_`,
  `game_started_`, `game_over_`, the counter `next_player_id_`. *Threads*: the
  network thread runs `handle_player_join` and `handle_packet`; the game thread runs
  `game_loop` at 60 Hz (timeouts once a second, the empty-room check, the
  all-players-dead check, the systems, the broadcast). *Hard*: every handler is a
  chain of short critical sections; both threads disconnect clients, from copies;
  the two mutexes are nested in two orders. *Correct if* ids are unique, capacity
  holds, a player's entity goes when its client goes, lobby counts and rosters end
  up true, game over is final, silent clients are dropped, empty rooms end.

* **`BroadcastSystem`** - *State*: the last set of networked entities and their
  last sent states, per session; a map from entities to network ids. *Operations*:
  `update` (spawns, destroys and moves as differences with the last tick),
  `send_initial_state`. *Hard*: differences are sent once, over UDP; a newcomer
  gets the initial state and the running differences from two threads. *Correct
  if* a client that receives everything shows what the server has, and one that
  does not is repaired.

### 2.2 The ECS (`ecs/`)

* **`Registry`, `SparseArray`** - *State*: the next entity number, the valid
  entities, one optional-array per component type. *Operations*: create, destroy,
  add, get (throws when absent), remove, view (a snapshot of entities), clear.
  *Hard*: destroy leaves the components; views outlive destructions and removals;
  references into arrays move when arrays grow; clear restarts the numbering.
  *Correct if* a view can always read what it promised, a new entity starts bare,
  and numbers are not reused between clears.
* **Systems** - `SpawnSystem` (waves, levels, bosses), `CollisionSystem` (damage,
  power-ups, force pods, boss kills), `LivesSystem`, `ScoreSystem`,
  `ForcePodSystem`, `WeaponSystem`, `ProjectileSystem`, `MobSystem`,
  `BoundarySystem`, `MovementSystem`, `SpawnEffectSystem`. They run one after the
  other on the game thread and talk through components (`ScoreEvent`, `Lives`,
  `HitFlash`...). *Hard*: the order of the systems within a tick, one event slot
  per entity, counters at their limits. *Correct if* every kill is paid once, a
  life is lost once per death, levels advance and wrap, no player is both dead and
  playing.

### 2.3 The client (`client/`)

* **`Client`, `UdpClient`** - *State*: connection flag, own player id, room id,
  the room name it waits for, chat and roster queues; *threads*: a receive thread and
  the frame loop. *Operations*: connect, create, join and leave rooms, heartbeat,
  one handler per message type. *Hard*: its identity is taken from the first
  `PlayerJoin` that arrives; leaving clears a registry the receive thread is
  using. *Correct if* it believes to be who and where the server says it is.
* **`NetworkSystem`** - applies spawns, moves, destroys and snapshots to the
  client's registry. *Correct if* lost, repeated or reordered messages do not leave
  ghosts or doubles.
* **States** (`MenuState`, `LobbyState`, `GameState`, `ScoreboardState`...) - a
  stack of screens; most of their text is layout. *Hard*: what decides game over,
  spectating and the return to the menu. *Correct if* exactly one of these
  endings is reached.
* **`ScoreboardManager`** - scores on disk. *Correct if* what is saved is read
  back.
* **Renderer, audio, input, accessibility, metrics overlays** - I/O without
  decisions another part depends on; not modelled.

### 2.4 The wire protocol (`shared/net`)

`ProtocolAdapter` (header, magic, sizes), `Serializer`, `Deserializer`,
`MessageSerializer` (one layout per message). *Hard*: 16-bit sizes, fixed-width
names. *Correct if* what is written is read back and nothing shorter is accepted.

### 2.5 Outside the models

The platformer demo (a second, offline game of float physics on the same ECS),
installer, build files, benchmarks and assets.

### 2.6 How the parts interact

    UDP datagram -> UdpServer (network thread) -> Server::handle_client_message
        -> GameSession::handle_player_join / handle_packet       (same thread)
    GameSession::game_loop (own thread) -> systems -> BroadcastSystem -> UDP
        -> on_client_unmapped_ -> Server::unmap_client            (sessions_mutex_)
        -> on_session_empty_  -> posted remove_session            (network thread)
    UDP -> UdpClient -> Client handlers -> NetworkSystem -> registry -> screens

## 3. How the modules fit together

Two modules describe a room, from two sides. `GameSession` has the threads and
mutexes, and of the game only that players die; `World` has the game, and of the
clients only that they come and go between two ticks, which is what
`registry_mutex_` guarantees (`GameSession.cpp:418-419` runs the systems under it).
What the two must agree on is `Room`: a place is taken under a number nobody had
before, an avatar comes with it and never comes back, lives go one at a time and
only from avatars that are there. Both are shown to implement it, by TLC as the
property `RoomSpec` and by TLAPS for all instances. The refinement mappings are

* `GameSession`: `members <- clients`, `last <- nextId - 1`, `avatars` and `lives`
  as they are. Enter is the section that inserts, Vanish and GiveUpPlace are two
  sections of a disconnect.
* `World`: `members <- seats`, `last <- lastId`; `avatars` are the ids of the
  entities with a player's components, `lives` their `Lives` components. Hurt is
  `LivesSystem` within `FinishTick`.

`Registry` and `Spawner` are modules of operators on a value (a registry, a
spawner) without variables, so that the server's world and the client's copies use
the same registry. `Server` keeps of each `GameSession` what the server sees of it.
`ClientSession` and `Replication` each hold one side of the client and as much of
the server as answers it. `Screens` has the client's frame loop and takes from
`ClientSession` only what a screen reads: connected, own id, own ship. The three
are not composed: their products are far past TLC, and what they share is little
(the queue of entity messages, three fields of the client).

**What could come next.** `Server::stop` once it no longer runs in a signal
handler; two clients in `ClientSession`; positions in `World` on a small grid, so
that which entities meet is no longer a choice.

## 4. How the models read the code

**Everywhere**

* **Steps are critical sections.** A section under one mutex is one action,
  enabled when the mutex is free. A section that takes a second mutex while it
  holds the first is two actions, and the first mutex is kept in between
  (`held`). Reads and writes of an atomic are steps of their own. In `Server` no
  section waits for another mutex while it changes anything, so no mutex has to be a
  variable there.
* **Threads are program counters.** `pc["net"]`, `pc["game"]` (and `net.step`,
  `game[s]` in `Server`, `main` and `parting` in `ClientSession`, `turn` in the
  screens) name the section the thread runs next; `job` and `todo` are the thread's
  local copies (`ClientInfo`, the `timed_out` list), which is where stale decisions
  live.
* **Time is nondeterminism**, except in `Spawner`. `SilenceElapses` lets a
  client's `last_seen` grow old at any moment between two of its packets;
  `EmptyTimeElapses` the same for `empty_since_`. Two things are assumed of time:
  one handler takes less than the ten seconds that make a client silent (in
  `Server`, `net.key # k`), and `empty_since_` cannot be ten seconds old while
  anyone is in the room. `Spawner` counts its timers in ticks, because a wave's
  duration, the times of its enemies and the boss warning are compared with each
  other.
* **Geometry is nondeterminism.** Which entities overlap, leave the map, or are in
  range is a choice; what then happens to them is the code's.
* **Payloads are gone.** Names, chat and positions decide nothing here, except a
  room's name in `ClientSession` and a player's name in `Scores`.
* **Histories** guard nothing and are there for the properties: `mixedUp`, `told`,
  `lobby`, `created`, `home`; `stray` and the fields `hits`, `lost`, `earned` in
  `World`; `announced`, `odd`, `flashes` in `Replication`; `blur`, `asked`, `ignored`,
  `left`, `creations`, `autoJoins` in `ClientSession`; `seen`, `stale`, `left`, `kept`,
  `stray` in the screens.
* **Bounds in guards** are marked `\* bound`; they cap ids, rooms, entities, joins,
  faults, requests and games.

**`GameSession` and `Server`.** A player's entity has its player's id, because
both come from counters that are advanced together in one section and never go
back. A leave or a timeout is in `Server` two sections, the erase and the unmap
callback; what lies between is `GameSession`'s. `ListRooms` only reads and has no
action. `start()` is part of the step that makes the session.

**`World`.** A tick is three kinds of steps: `StartTick` (the systems before
`CollisionSystem`), one step for each pair that `CollisionSystem` handles, in any
order, and `FinishTick` (the systems after it, in the order of
`GameSession.cpp:101-111`, one operator each). `CollisionSystem` takes its list of
entities at the start (`crowd`) and asks of each pair whether both are still valid;
that check, and the components that stay readable after a destruction, are what
`OneHitPerShot` rests on. A player has `PlayerHealth` in steps of five points.

**`Replication`.** The wire to a client is a bag, so reordering needs no action;
losing and doubling are counted. A client's screen is a bag of copies, because
`handle_spawn` never looks whether an entity is there. `handle_player_join` is two
steps: the place in `clients_`, and the initial state. `odd[k]` collects the numbers
that may be wrong on a client's screen and why is said at `GhostsHaveACause`. An
entity can be hit before the first broadcast has given it a number (`early`); its
first state on the wire then carries the flash. The
tables of sub-types are written out from `BroadcastSystem.cpp`, both of them.

**`ClientSession`.** The wire is a pair of queues: UDP's loss, doubling and
overtaking are actions that write "udp" into `blur`, so that the properties can say
what holds without them. The other entries of `blur` are the client's own doing:
"kept" (a second join before the first room is left), "late" (a message for an
earlier id), "early" (moves before the answer to the join), "wiped" (the registry
cleared after the answer); or the server's: "full" (a refusal, which the client takes
for an identity), "stranded" (a session removed with the client's place in it),
"again" (a later session of a room the client left gave it the same id).
`live` is what the server has behind each room. A session stops once it is empty,
even with a join between the `running_` test and its insertion; while it stops it
drops every further join without a message (`GameSession.cpp:167-168`, `ignored`); it
is removed with its players and routes, and the next join starts another, which
counts its players from 1. `Jams` is the deadlock of `session_deadlock`: after it the
network thread serves nobody.

**Screens.** A screen object is the record `page`; a new screen is a new record,
which is how state that outlives a screen shows (`lasting`, `client`). A frame is
input events, change of screen, update, as in `StateManager`. The network thread's
callbacks come between any two. A save is two steps (truncate, write), because the
process may end in between. A client that is not connected becomes whoever the next
`PlayerJoin` tells of (`Client.cpp:152-154`): itself, a peer whose message came first,
a player of a room it left, or player 0 of a full one; `stray` says that it is not
the one its seat is. Which of the two lists a solo game's score goes to is decided by
the ships counted when it was entered (`GameState.cpp:53-60`, `458-462`), which may
still be those of an earlier room, so the list is a choice at `EnterGame`. A name with
a ':' comes back from the file as another entry if a number follows it (`Misread`;
"a:5" is read as a score of 5 of "a"), and else not at all.

## 5. What the runs show

| run | instance | states | result |
|---|---|---|---|
| `session` | 3 addresses, 2 places, 1 life, 3 ids | 680 000 | all invariants, `OverIsFinal`, `RoomSpec` |
| `session_live` | 2 addresses, 2 places, 2 ids, fairness | | silent clients are dropped, empty rooms end, or the deadlock below |
| `session_deadlock` | the same | | `LoopKeepsTurning` fails |
| `session_zombie` | the same, no fairness | | `NoZombiePlayers` fails |
| `server` | 2 addresses, 2 rooms of 1 place | 1 900 000 | all invariants |
| `server_live` | 1 address, 2 rooms, fairness | | a client that a room can no longer hear is dropped there |
| `server_moved` | 1 address, 2 rooms | | `LastSeenIsTrue` fails |
| `world` | 2 clients, 2 lives, 3 levels, 5 entities, friendly fire | 300 000 | shots hit once, shields end, points and levels are accounted for, bosses are announced, `RoomSpec` |
| `replication` | 2 clients, 1 entity, 2 joins, 1 fault, 1 hit | 330 000 | what is wrong on a screen has a cause; ghosts vanish |
| `replication_twice` | 1 client, 1 entity, no fault | | `NoEntityIsShownTwice` fails |
| `client_session` | 2 rooms, one of which may stop, 4 ids a room, 2 other players, 3 requests or faults, fairness | 880 000 | identity, picture of the room, automatic joins, answers |
| `screens` | 2 rooms, 2 ids, 2 names (one that the file cannot carry), 2 games, 2 joins, a board of 1, 2 keys | 1 360 000 | buttons mean what they show, scores are of played games and stay |

**Why these bounds.**

* `session`: three addresses for two places make the capacity test matter while
  two others come and go; a third id lets an address return under a new id, which
  is what the stale disconnects need; one life is enough for a player to die in the
  world while its client stays. Every disagreement found needs at most two addresses.
* `server`: two rooms are the least in which a client can move, and two clients
  the least in which a room can be full and one client's leaving can hit another;
  both ids can be created, joined by number, emptied, removed and taken again.
* `world`: five entities are the obstacle, two players, an enemy and a shot, the
  least for one shot to overlap two targets in a tick; or one player, two enemies
  and a charged shot that kills both in one tick, so that a score event is lost.
  Three levels let a Boss_1 outlive its own level and die in the last one. Health
  and shield are at the least values with a before and an after.
  The theorems of section 6 cover all other values.
* `replication`: everything promised is promised per entity, and entities share
  nothing but the counter of numbers, which a second life of the room
  (`NewRoom`) exercises with one; two clients, because the hit flag is cleared for
  both at once. The tag in the instance, "Boss_1", is one of those that both tables
  have; the exception of `LatecomersSeeTheSameKinds`, "Boss_2_Projectile_2", is
  not in it.
* `client_session`: the bound on ids lets the client come back into a room three
  times; three requests are a create, its automatic join and a change of room, or two
  joins and a leave. The first room is the one that fills up and refuses, the second
  the one that stops, is removed and starts again. `Followed` cuts the graph after a
  deadlock, and after a UDP fault next to a session that ends. Every state behind
  such a cut satisfies the right side of `AskedIsAnswered` for good; behind a fault
  the identity and the screen are excepted too; and the theorems know no cut.
* `screens`: a board of one makes a second score push out the first. `Apart` keeps
  three questions from multiplying one another: settings are opened before anything
  is joined (nothing else reads or writes them but the panel of a paused game), and
  once a solo game was entered the client knows one id (a game asks of it only
  whether it is 0 or the ship's), browses no rooms and enters no game with others. Lobby with two joins, two rooms and two ids,
  and two games with everything a killed process can leave, are whole. The theorems
  know no such bound.

`SYMMETRY` is used where the permuted values are only compared: addresses in
`MCGameSession`, `MCServer` and `MCWorld`, rooms in `MCScreens`; never in a run that
checks liveness. Deadlock checking is off everywhere: when a bound is used up and
nobody is connected the system really stops.

**Fairness.** Weak fairness of the network thread (`NetStep`) and of each game
thread (`GameStep`): they are operating-system threads that are always scheduled,
and a mutex that is free is eventually obtained. Strong fairness for what competes
with an endless stream of packets or loop rounds: the posted `remove_session` (the
`io_context` runs handlers in order of posting), the timeout check (a second
elapses again and again), and, in `Server`, the ageing of a `last_seen` that nobody
refreshes. `Replication`: the room's loop broadcasts, joins get to their initial
state, and what UDP does not lose arrives. `ClientSession`: the server serves what
arrives and the client's two threads run. Nothing is assumed of clients and their
users: they need never send anything.

The deadlock of `session_deadlock` breaks such fairness for good, and each liveness
property says how it takes that. `SilentClientsLeave`, `EmptyRoomsEnd` and
`AskedIsAnswered` name it as an outcome (the two mutexes held crosswise; `Jammed`).
`Server` and `Replication` have no mutexes, so `UnreachedMembersLeave` and
`GhostsVanish` are promises about rooms it has not met; their comments say so.

**Disagreements between the code and its documentation.**

1. `session_deadlock` - `game_loop` takes `clients_mutex_` then `registry_mutex_`
   for the all-players-dead check (`GameSession.cpp:354-355`);
   `handle_player_join` takes them the other way round (`203-204`). A join into a
   started game can stop the room, and with the network thread every room.
2. `session_zombie` - `disconnect_client` erases by address (`616`) what a copy
   told it to. A client that leaves and joins again between the copy and the
   erase loses its entry; its entity stays for good.
3. `server_moved` - `unmap_client` erases the route of an address whatever room
   it names (`Server.cpp:154`). A client that has moved from one room to another is
   cut off when the first one times it out, and the second then takes it for
   silent.
4. `replication_twice` - the protocol document says that duplicate spawns are
   rejected by id (`RTYPE_BINARY_PROTOCOL.md:452`); `handle_spawn` creates an entity
   for each (`NetworkSystem.cpp:67`), and the server sends two to a newcomer whose join
   has a tick in it. A destroy later removes one of the two.

**What the passing properties make explicit.** Several hold only with an
exception, and the exception is the finding: an entity's points can be overwritten
by another kill of the same tick (`PointsAddUp`, `lost`); the levels end for good
after a Boss_1 that outlived its level (`SpawnsGoOn`, `stray`); ghosts on a screen
come from exactly the causes named at `GhostsHaveACause`; a client is somebody
else after a second join without a leave, or when its session was removed with its
place in it or came again with the same ids (`IdentityIsOwn`: "kept", "stranded",
"again"); a join into a stopping session is never answered (`AskedIsAnswered`,
`ignored`); a lobby that left a room, or a client that took a `PlayerJoin` of
somebody else for its own, offers the start button to the wrong player
(`StarterIsFirst`: `page.left`, `stray`); a solo game can be over before its ship was
there if the client still took itself for connected (`ScoresArePlayed`, `stale`);
names with a ':' and a process that ends while it saves cost scores (`ScoresStay`).
One more is in the model without a property: the answer to a `CreateRoom` that is
read before `create_room` has remembered the name (`Client.cpp:752-754`) is not
recognised, and the room is joined only if a later list names it.

## 6. What is proved

The theorems hold for every value of the constants. They assume only the named
`ASSUME`s of the modules (the sets are finite, the limits are natural numbers), and,
where said, `BossesLead`. Each invariant below was run through TLC before it was
proved.

**`GameSessionProofs`.** Each theorem has its own inductive invariant, on top of
`TypeInv` (the types, plus what the position of a thread says of its local data).

* `TypeCorrect`.
* `IdsAreUnique`: inductive by itself; ids come from a counter that only grows.
* `CapacityHolds`: `AtMostMaxPlayers` is not inductive, since `JoinInsert` does
  not test. `CapacityInv` adds that between the test and the insertion there is
  still room; it holds because only the network thread inserts.
* `AvatarsOwned`: `OwnershipInv` adds that entities, copies and the timeout list
  carry ids below the counter, and that a thread past the destruction of an entity
  is not about to see that entity again; `FreshKey` says the address that
  is being inserted is still absent. So an entity without a client comes from an
  erase that hit another id, and from nothing else: the repair of disagreement
  2 is to compare ids before the erase.
* `OneStrandedAtMost`: `StrandedInv` adds that as long as a join is between its
  `running_` test and its insertion, a stopped room is empty.
* `OverStays`: `OverInv` says that once `game_over_` is up the game thread is in
  none of the sections that play; the flag is read and written outside the mutex
  that guards the world, and only because the same thread does both is this safe.
* `LobbyIsTold`: `LobbyInv` says of every state, settled or not, that either a
  thread is still to count and send (`CountIsDue`), or everybody was last told the
  true number. Counting and sending are one section under `clients_mutex_`, so it
  does not matter which of two threads sends last.
* `RosterIsTold`: `RosterInv` adds to the roster the news that is still under way
  (`WillHear`: a newcomer that has not been announced, or has not been given the
  others). It needs `HomeInv`: an id in use sits at the address its disconnect was
  called for, so a disconnect that erases by address takes nobody's place away from a
  roster that counts on it, and an id once erased does not come back.
* `ImplementsRoom`: from `CapacityInv` and `FreshKey`. What a join tested in one
  section still holds in the section that inserts, so the insertion is the atomic
  Enter of `Room`.

**`ServerProofs`.** `SessionInv` is the conjunction of the three safety
properties and of `ThreadInv` (a thread that has not ended belongs to a session
that exists; one that is about to end has lowered `running_`). The argument:
removals run only between two handlers, on the handlers' thread, and an id is taken
again only after its removal.

* `TypeCorrect`, `HandlersAreSafe`, `RoutesAreLive`, `RemovalIsExact`.
* `RoomsAreCreatedOnce`, `RulesAreKept`: `CreatedInv` adds that the counter is
  past every created room and that its rules are on record. It rests on
  `AllocatedIsFree`, that `allocate_session_id` finds a number at all, which rests on
  `LeastElement`, the well-ordering of the natural numbers, derived from the
  well-foundedness of strict inclusion on finite sets.

**`WorldProofs`.** One invariant, `WorldInv`. Its heart is `Sound(r, X)`: every
entity that was ever created is `Fit` (a shot has hit at most once; a player is
untouchable exactly while its shield runs; points add up; a Boss_1 is not of the last
level), and every entity that still exists, but for those in X that a system is just
at work on, is `Fresh` (a shot has hit nothing, a player has a life left, a foe has
health). `OneHitPerShot` alone is not inductive: that an existing shot is unused is
what makes its next hit the first. Lemmas say of `Put`, `CreateAll`, `Destroy` and of
maps over all entities that they keep `Sound`; every collision and every system is
composed of these. `Timed` and `LevelInv` are the spawner's part.

* `TypeCorrect`, `ShotsHitOnce`, `NoGhostPlayers`, `PointsAreKept`.
* `LevelsGoOn`, `BossesComeAnnounced`: for all levels that satisfy `BossesLead` (a
  boss is only ever the first enemy of its level's first wave, Boss_1 is not in the
  last level), which the levels of `shared/utils/LevelDefs.hpp` do.
* `ImplementsRoom`: `NumberInv` (players have numbers of their own, among those
  given) and `Follows`, which every system but `LivesSystem` satisfies: the players
  keep their numbers and lives.

**`ReplicationProofs`.**

* `TypesAreKept`: `TypeInv`, the bags among them.
* `NewcomersAreTold` from `ToldInv` (whoever was told is in the room and past its
  join, so every tick announces to it).
* `KindsAgree` from `KindInv`: whatever is on the way or on a screen is of a number
  below the counter, so that no later entity can take its number over.
* `GhostsAreExplained`: `GhostsHaveACause` speaks of a client whose wire is empty,
  and no step keeps that. `TraceInv` says where the word of an entity is in every
  state (`Trace`): an entity the server knows is once on its way or once on the
  screen of a client that it was announced to, and its end is not on the way; one
  that it no longer knows is nowhere, or its end is on the way too. What is in a bag
  is counted as the set of its tokens (`Each`), each message as often as it is there;
  lemmas say what sending, receiving and losing do to that set, which stands in for
  sums over a bag, whose recursion the provers cannot use.
* `FlashesAreHits`: `HitInv`, that what was shown, what is on the way and what the
  next tick will tell, of entities that have a number and of those it is about to
  give one, are together no more than the hits there were and what UDP doubled.

**`ClientSessionProofs`.**

* `TypesAreKept`: `TypeInv` adds that a join on its way names a room of the server.
* `RoomsAreJoinedOnce` from `CreationInv`: the room being created, the room waited
  for and the joins already sent are together no more than were asked for.

**`ClientStayProofs`.**

* `IdentityIsKept`: the property speaks of a connected client and says nothing of the
  wire, so a step that connects one need not keep it. `IdentInv` follows a stay through
  six stages (`Parted`, `Asking`, `Seated`, `Answered`, `Refused`, `In`) and says of
  each what is on both wires: only messages that neither join nor leave follow a join;
  an answer is behind the stale messages of seats that were left and before those of
  the new seat (`Around`); once in, all that comes is for this seat. It speaks of
  histories without the excepted causes only: a session that was removed under the
  client or gave an id again leaves none of the stages, so `RemovesStages` shows that
  any other removal took no place of this client. A join that a stopping session
  dropped takes the client back to `Parted`.
* `NobodyWaitsForNothing`, of the same invariant: unless its join was dropped by a
  stopping session (`ignored`), what a waiting client waits for is there. With the
  fairness of `AskedIsAnswered`, which only TLC can use, it arrives.

**`ClientScreenProofs`.**

* `ScreensAreKept`: the property speaks of an empty wire only. `ScreenInv` says of
  every player what the messages still on their way will make of it (`Told`): it is
  in the room and shown or named by one of them; nobody ever spoke of it; or its leave
  is on the way, and nothing behind that names it. Each server step that changes the
  seats is shown to tell the room of exactly that change (`MoreNews`), and each
  handler to make of the screen what the message said (`NewsOn`). While the answer to
  a join is on its way the same holds of what is behind the answer, and the screen is
  empty. It rests on `IdentInv`, that what comes is for the seat the client has, and
  on `SeatInv`, that no id of a seat is still to be given by the session it is in.

**`ScreensProofs`.**

* `TypeCorrect`: `LobbyGood` adds that the buttons on the screen are a prefix of
  the list, so that what is picked is in it.
* `ScreensAreTrue`: from `SeatInv` (a client that did not join again before it left
  has one join or one seat at a time, and once connected is the player of that seat,
  unless it took another's `PlayerJoin` for its own), `LocalInv` (a lobby that left no
  room takes itself for that player) and `SettingsInv`.
* `OnlyPlayedGamesScore`: `PlayedInv` relates the number of games entered to the
  games scored and the one whose score is still to come (`Pending`).
* `ScoresAreKept`: `FileInv`, that except during a save the file has what the
  board has and it can carry.

**Only model-checked.** `SilentClientsLeave`, `EmptyRoomsEnd`,
`UnreachedMembersLeave`, `GhostsVanish` and `AskedIsAnswered`: liveness under fairness
is out of the prover's reach. Every other property of a passing run is a theorem. What
the violation runs check is false of the code, so there is nothing to prove.

## 7. Mutations

Every property of a passing run has a mutant: an operator `Mut<Name>` just before
the definition `<Name>` it mutates, the way a plausible bug would (a test with `>`
for `>=`, an announcement forgotten, a removal run on the wrong thread), under
which TLC finds that property violated. They are never used by the specifications
themselves.

## 8. Not modelled, and why

* **`GameSession::stop` from outside and `Server::stop`.** They run in the SIGINT
  handler (`main.cpp:15`), with locks and joins: undefined behaviour before any state
  of the models is touched.
* **The wire protocol**: conversions without state, covered by the repository's
  unit tests. **UDP transport**: `Client::connect` starts a receive of its own each
  time, on one buffer (`Client.cpp:65-70`); what that can do to a message is memory,
  not control.
* **Data races** on strings, vectors and functions (`LobbyState.cpp:320`, and others in
  the hazards) are kept whole: an access is a step. References that a growing
  component array moves (`CollisionSystem.cpp:97`) are memory too; the models have
  values.
* **Handlers that change nothing the properties speak of**: input, chat, player
  names, ping, map sizes, `ListRooms`. Real time, so that the 200 ms a disconnect
  sleeps on the network thread are only an interleaving. Entries of `session_names_`
  that are never erased (memory only; the rules are there, in `ruled`).
* **World**: positions, speeds and cooldowns; the laser; the pods' shots give no
  points, as in the code, because a pod is not a player; the entity that
  `spawnForcePodCompanion` has created before it finds two pods there stays bare and
  is left out; the obstacles of the map but one.
* **Replication**: players, power-ups, scores and charge levels, each of which is
  a message of its own that overwrites what was there.
* **Client**: `disconnect` at the end of the process; "Back to menu" does not leave
  the room (`GameState.cpp:272`), which the screens' model has as `kept`; text fields,
  chat and player lists; `ScoreboardState`, which only draws. A multiplayer game never
  sets `game_over_` (`GameState.cpp:440`) and so writes no score; the multiplayer list
  is written all the same, by a solo game that was entered with ships of an earlier
  room, and both lists are modelled.
* **Rendering, audio, devices, metrics overlays, the platformer demo, installer,
  benchmarks**: section 2.5.
