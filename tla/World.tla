-------------------------------- MODULE World --------------------------------
(***************************************************************************)
(* The game world of a room: the systems of ecs/src/systems in the order   *)
(* in which GameSession adds them (GameSession.cpp:101-111): the ones      *)
(* before CollisionSystem in one step, a step per pair of entities that    *)
(* CollisionSystem handles, and the ones after it in another.              *)
(*                                                                         *)
(* GameSession holds registry_mutex_ during a whole tick, so joins, leaves *)
(* and shots come between ticks (phase "idle").                            *)
(*                                                                         *)
(* Positions are left out: which entities meet, leave the map or can fire  *)
(* is a choice.  Damage is counted in steps of 5 points of health for      *)
(* players and in hits for enemies.  A volley of several projectiles is    *)
(* one entity, and entities that only carry a sound are left out.          *)
(***************************************************************************)
EXTENDS Registry, Spawner, SequencesExt

CONSTANTS
    Keys,          \* addresses of the clients
    MaxPlayers,    \* constants::MAX_PLAYERS
    MaxId,         \* bound on player ids
    MaxEntities,   \* bound on the entities a behaviour creates; pods, which
                   \* items bound, come on top
    InitialLives,  \* GameRules::initial_lives
    PlayerHealth,  \* Health of a player: 100, in steps of 5
    BossHits,      \* hits a boss takes
    ShieldTime,    \* InvincibilityTimer, 2 s
    FriendlyFire   \* GameRules::friendly_fire_enabled

ASSUME WorldAssumption ==
    /\ IsFiniteSet(Keys)
    /\ MaxPlayers \in Nat \ {0} /\ MaxId \in Nat /\ MaxEntities \in Nat
    /\ InitialLives \in 1..255 /\ PlayerHealth \in Nat \ {0}
    /\ BossHits \in Nat \ {0} /\ ShieldTime \in Nat \ {0}
    /\ FriendlyFire \in BOOLEAN

VARIABLES
    reg,      \* registry_
    spawner,  \* the EnemySpawner component
    seats,    \* clients_: address -> player id, 0 where absent
    lastId,   \* next_player_id_ - 1
    phase,    \* "collide" while CollisionSystem is at work, else "idle"
    crowd,    \* CollisionSystem's list of entities
    met,      \* the pairs it has been through in this tick, of those still there
    stray     \* history: a Boss_1 died in another level than its own

vars == <<reg, spawner, seats, lastId, phase, crowd, met, stray>>

Shots  == {"shot", "charge", "eshot"}
Kinds  == {"obstacle", "player", "item", "pod"} \cup Foes \cup Shots
Ids    == 1..MaxId

(* The components of an entity; a field that its kind has not keeps the    *)
(* value of Plain.  hits, lost and earned are history.                     *)
Plain == [kind |-> "obstacle", id |-> 0, hp |-> 0, lives |-> 0, active |-> TRUE,
          shield |-> 0, trigger |-> "none", owner |-> 0,
          score |-> 0, event |-> 0, home |-> 0,
          hits |-> 0, lost |-> 0, earned |-> 0]

Components == [kind : Kinds, id : 0..MaxId, hp : Nat, lives : 0..InitialLives,
               active : BOOLEAN, shield : 0..ShieldTime,
               trigger : {"none", "shot", "charge"}, owner : Nat, score : Nat, event : Nat,
               home : Nat, hits : Nat, lost : Nat, earned : Nat]

NewPlayer(id)    == [Plain EXCEPT !.kind = "player", !.id = id,
                                  !.hp = PlayerHealth,
                                  !.lives = InitialLives]
NewFoe(kind)     == [Plain EXCEPT !.kind = kind, !.home = spawner.level,
                                  !.hp = IF kind \in Bosses THEN BossHits
                                         ELSE 1]
NewShot(kind, o) == [Plain EXCEPT !.kind = kind, !.owner = o]
NewItem          == [Plain EXCEPT !.kind = "item"]
NewPod(o)        == [Plain EXCEPT !.kind = "pod", !.owner = o]

the(e)     == reg.data[e]
Fits(n)    == reg.next + n <= MaxEntities                       \* bound
Players    == View(reg, {"player"})
Enemies    == View(reg, Foes)
Seated     == {k \in Keys : seats[k] # 0}

----------------------------------------------------------------------------
(* start(): of the entities it creates, one obstacle of the map.  It keeps *)
(* number 0 busy: no player is entity 0, and an owner 0 is nobody.         *)

Init == /\ reg = Create(Cleared, Plain)
        /\ spawner = FirstSpawner
        /\ seats = [k \in Keys |-> 0] /\ lastId = 0
        /\ phase = "idle" /\ crowd = {} /\ met = {} /\ stray = FALSE

----------------------------------------------------------------------------
(* Between ticks: what clients do.                                         *)

Join(k) ==
    /\ phase = "idle" /\ seats[k] = 0
    /\ Cardinality(Seated) < MaxPlayers
    /\ lastId < MaxId /\ Fits(1)                                \* bounds
    /\ lastId' = lastId + 1
    /\ seats' = [seats EXCEPT ![k] = lastId']
    /\ reg' = Create(reg, NewPlayer(lastId'))
    /\ UNCHANGED <<spawner, phase, crowd, met, stray>>

(* disconnect_client: the entity first, the place later.                   *)
LeaveWorld(k) ==
    /\ phase = "idle"
    /\ \E e \in Players : the(e).id = seats[k] /\ reg' = Destroy(reg, {e})
    /\ UNCHANGED <<spawner, seats, lastId, phase, crowd, met, stray>>

LeaveRoom(k) ==
    /\ phase = "idle" /\ seats[k] # 0
    /\ \A e \in Players : the(e).id # seats[k]
    /\ seats' = [seats EXCEPT ![k] = 0]
    /\ UNCHANGED <<reg, spawner, lastId, phase, crowd, met, stray>>

(* isShooting and chargeLevel: what the next shot will be.                 *)
Shoot(k, shot) ==
    /\ phase = "idle"
    /\ \E e \in Players :
          /\ the(e).id = seats[k]
          /\ reg' = Put(reg, e, [the(e) EXCEPT !.trigger = shot])
    /\ UNCHANGED <<spawner, seats, lastId, phase, crowd, met, stray>>

----------------------------------------------------------------------------
(* A tick begins: SpawnSystem, then Movement, Mob and Boundary, where      *)
(* whatever flies off the map goes.  Players are held inside it, pods stay *)
(* with them, and an obstacle that is gone is one that nothing meets.      *)

Spawned(born) == CreateAll(reg, [i \in DOMAIN born |-> NewFoe(born[i])])
Loose(r)      == View(r, Foes \cup Shots \cup {"item"})

StartTick ==
    LET tick == Ticked(spawner) grown == Spawned(tick.born)
    IN  /\ phase = "idle" /\ phase' = "collide"
        /\ Fits(Len(tick.born))
        /\ spawner' = tick.spawner
        /\ \E gone \in SUBSET Loose(grown) : reg' = Destroy(grown, gone)
        /\ crowd' = reg'.valid /\ met' = {}
        /\ UNCHANGED <<seats, lastId, stray>>

----------------------------------------------------------------------------
(* CollisionSystem: every pair of the list that overlaps, if both are      *)
(* still there, active, and of layers that collide.                        *)

Layer(kind) == CASE kind \in Foes -> "Enemy"
                 [] kind \in {"shot", "charge"} -> "PlayerProjectile"
                 [] kind = "eshot" -> "EnemyProjectile"
                 [] kind = "player" -> "Player"
                 [] kind = "item" -> "PowerUp"
                 [] kind = "pod" -> "Companion"
                 [] kind = "obstacle" -> "Obstacle"

CollidingLayers ==
    {{"Player", "Enemy"}, {"Player", "EnemyProjectile"},
     {"Enemy", "PlayerProjectile"}, {"Player", "PowerUp"},
     {"PlayerProjectile", "EnemyProjectile"}}
    \cup (IF FriendlyFire THEN {{"Player"}, {"Player", "PlayerProjectile"}}
          ELSE {})

ShouldCollide(k1, k2) == \/ {Layer(k1), Layer(k2)} \in CollidingLayers
                         \/ "Obstacle" \in {Layer(k1), Layer(k2)}

\* mutant: entities destroyed earlier in the tick still collide
MutCanMeet(e1, e2) ==
    /\ phase = "collide" /\ e1 # e2 /\ {e1, e2} \subseteq crowd
    /\ {e1, e2} \notin met
    /\ the(e1).active /\ the(e2).active
    /\ ShouldCollide(the(e1).kind, the(e2).kind)
CanMeet(e1, e2) ==
    /\ phase = "collide" /\ e1 # e2 /\ {e1, e2} \subseteq crowd
    /\ IsValid(reg, e1) /\ IsValid(reg, e2)
    /\ {e1, e2} \notin met
    /\ the(e1).active /\ the(e2).active
    /\ ShouldCollide(the(e1).kind, the(e2).kind)

Met(e1, e2) == /\ met' = {m \in met \cup {{e1, e2}} : m \subseteq reg'.valid}
               /\ UNCHANGED <<seats, lastId, phase, crowd>>

(* A player at 0 stays until LivesSystem; until then nothing hurts it.     *)
(* Below 0 is as good as 0.                                                *)
Hurt(r, p, damage) ==
    LET c == r.data[p]
    IN  IF c.hp <= 0 THEN r ELSE Put(r, p, [c EXCEPT !.hp = IF @ > damage
                                                         THEN @ - damage ELSE 0])

(* A shot is spent on what it hits; a charged one goes on.                 *)
Spent(r, s) ==
    LET c == r.data[s]
        r2 == Put(r, s, [c EXCEPT !.hits = @ + 1])
    IN  IF c.kind = "charge" THEN r2 ELSE Destroy(r2, {s})

PlayerMeetsFoe(p, e) ==
    /\ CanMeet(p, e) /\ the(p).kind = "player" /\ the(e).kind \in Foes
    /\ reg' = Hurt(reg, p, 2)
    /\ Met(p, e) /\ UNCHANGED <<spawner, stray>>

Points(kind) == IF kind \in Bosses THEN 2 ELSE 1

(* A ScoreEvent for the shooter, over the one that may be there.           *)
Rewarded(r, e, shooter) ==
    LET c == r.data[shooter] n == Points(r.data[e].kind)
    IN  IF shooter # 0 /\ IsValid(r, shooter) /\ c.kind = "player"
        THEN Put(r, shooter, [c EXCEPT !.event = n, !.lost = @ + c.event,
                                       !.earned = @ + n])
        ELSE r

PodsOf(r, p) == {d \in View(r, {"pod"}) : r.data[d].owner = p}

ShotHitsFoe(s, e) ==
    /\ CanMeet(s, e) /\ the(s).kind \in {"shot", "charge"}
    /\ the(e).kind \in Foes
    /\ LET hit == Put(Spent(reg, s), e, [the(e) EXCEPT !.hp = @ - 1])
           shooter == the(s).owner
           paid == Rewarded(hit, e, shooter)
       IN  \/ /\ hit.data[e].hp > 0
              /\ reg' = hit /\ UNCHANGED <<spawner, stray>>
           \/ /\ hit.data[e].hp <= 0
              /\ reg' = Destroy(paid, {e})
              /\ spawner' = IF the(e).kind = "boss1" THEN BossDown(spawner)
                            ELSE spawner
              /\ stray' = (stray \/ /\ the(e).kind = "boss1"
                                    /\ the(e).home # spawner.level)
           \/ /\ hit.data[e].hp <= 0 /\ the(e).kind \notin Bosses
              /\ Cardinality(PodsOf(hit, shooter)) < 2
              /\ Fits(1)
              /\ reg' = Destroy(Create(paid, NewItem), {e})
              /\ UNCHANGED <<spawner, stray>>
    /\ Met(s, e)

ShotLands(s, p, damage) ==
    /\ LET hit == Put(reg, s, [the(s) EXCEPT !.hits = @ + 1])
       IN  reg' = Hurt(Destroy(hit, {s}), p, damage)
    /\ Met(s, p) /\ UNCHANGED <<spawner, stray>>

FoeHitsPlayer(s, p) ==
    /\ CanMeet(s, p) /\ the(s).kind = "eshot" /\ the(p).kind = "player"
    /\ ShotLands(s, p, 4)

FriendHitsPlayer(s, p) ==
    /\ CanMeet(s, p) /\ the(s).kind \in {"shot", "charge"}
    /\ the(p).kind = "player"
    /\ ShotLands(s, p, 3)

PlayersMeet(p, q) ==
    /\ CanMeet(p, q) /\ the(p).kind = "player" /\ the(q).kind = "player"
    /\ reg' = Hurt(Hurt(reg, p, 2), q, 2)
    /\ Met(p, q) /\ UNCHANGED <<spawner, stray>>

ShotsMeet(s, t) ==
    /\ CanMeet(s, t) /\ the(s).kind \in {"shot", "charge"}
    /\ the(t).kind = "eshot"
    /\ reg' = Destroy(Spent(reg, s), {t})
    /\ Met(s, t) /\ UNCHANGED <<spawner, stray>>

(* Players are pushed back, shots are spent, charged ones too; nothing     *)
(* else minds an obstacle.                                                 *)
MeetsObstacle(e, o) ==
    /\ CanMeet(e, o) /\ the(o).kind = "obstacle"
    /\ the(e).kind \in {"player", "shot", "charge"}
    /\ reg' = IF the(e).kind = "player" THEN reg ELSE Destroy(reg, {e})
    /\ Met(e, o) /\ UNCHANGED <<spawner, stray>>

(* spawnForcePodCompanion: the second pod takes every item off the map.    *)
(* Past two, the entity it has already created stays bare, and is left out *)
(* here.                                                                   *)
TakesItem(p, i) ==
    /\ CanMeet(p, i) /\ the(p).kind = "player" /\ the(i).kind = "item"
    /\ LET n == Cardinality(PodsOf(reg, p))
           others == IF n = 1 THEN View(reg, {"item"}) ELSE {}
       IN  reg' = IF n >= 2 THEN Destroy(reg, {i})
                  ELSE Create(Destroy(reg, {i} \cup others), NewPod(p))
    /\ Met(p, i) /\ UNCHANGED <<spawner, stray>>

Collide(e1, e2) ==
    \/ PlayerMeetsFoe(e1, e2) \/ ShotHitsFoe(e1, e2)
    \/ FoeHitsPlayer(e1, e2) \/ FriendHitsPlayer(e1, e2)
    \/ PlayersMeet(e1, e2) \/ ShotsMeet(e1, e2)
    \/ MeetsObstacle(e1, e2) \/ TakesItem(e1, e2)

----------------------------------------------------------------------------
(* The systems after CollisionSystem, each as what it makes of a registry. *)

(* LivesSystem: a player at 0 loses a life and is shielded, or goes; then  *)
(* the shields run down.                                                   *)
Respawned(c) == [c EXCEPT !.lives = @ - 1, !.hp = PlayerHealth,
                          !.active = FALSE, !.shield = ShieldTime]

\* mutant: the end of a shield does not make its player solid again
MutShieldRunsDown(c) ==
    IF c.shield = 0 THEN c ELSE [c EXCEPT !.shield = @ - 1]
ShieldRunsDown(c) ==
    IF c.shield = 0 THEN c
    ELSE [c EXCEPT !.shield = @ - 1, !.active = (c.shield = 1)]

Judged(c) == IF c.hp > 0 THEN ShieldRunsDown(c)
             ELSE IF c.lives - 1 > 0 THEN ShieldRunsDown(Respawned(c))
             ELSE [c EXCEPT !.lives = @ - 1]

\* mutant: a player on its last life is spared
MutAfterLives(r) ==
    LET out == {p \in View(r, {"player"}) : r.data[p].lives < 1}
    IN  [Destroy(r, out) EXCEPT !.data =
           [e \in DOMAIN @ |-> IF e \in View(r, {"player"})
                               THEN Judged(@[e]) ELSE @[e]]]
AfterLives(r) ==
    LET players == View(r, {"player"})
        out == {p \in players : r.data[p].hp <= 0 /\ r.data[p].lives <= 1}
    IN  [Destroy(r, out) EXCEPT !.data =
           [e \in DOMAIN @ |-> IF e \in players THEN Judged(@[e]) ELSE @[e]]]

(* ForcePodSystem: a pod shoots when its owner does.                       *)
AfterPods(r) ==
    LET led == {d \in View(r, {"pod"}) : IsValid(r, r.data[d].owner)}
    IN  [r EXCEPT !.data =
           [e \in DOMAIN @ |->
              IF e \in led THEN [@[e] EXCEPT !.trigger =
                                   r.data[r.data[e].owner].trigger]
              ELSE @[e]]]

(* WeaponSystem: whether the pause between two shots is over is left to    *)
(* the clock.                                                              *)
Armed(r) == {e \in View(r, {"player", "pod"}) : r.data[e].trigger # "none"}
            \cup View(r, Foes)

ShotOf(c) == CASE c.kind \in Foes -> "eshot"
               [] c.kind = "pod" -> "shot"
               [] c.kind = "player" -> c.trigger

Calmed(r, fired) ==
    [r EXCEPT !.data = [e \in DOMAIN @ |->
        IF e \in fired THEN [@[e] EXCEPT !.trigger = "none"] ELSE @[e]]]

AfterWeapons(r, firing) ==
    CreateAll(Calmed(r, {firing[i] : i \in DOMAIN firing}),
              [i \in DOMAIN firing |->
                  NewShot(ShotOf(r.data[firing[i]]), firing[i])])

(* ScoreSystem: the event is counted and removed.                          *)
\* mutant: an event stays and is counted again
MutScored(c) == [c EXCEPT !.score = @ + c.event]
Scored(c) == [c EXCEPT !.score = @ + c.event, !.event = 0]

AfterScore(r) ==
    [r EXCEPT !.data = [e \in DOMAIN @ |->
        IF e \in View(r, {"player"}) THEN Scored(@[e]) ELSE @[e]]]

(* LivesSystem, ForcePodSystem, WeaponSystem with a set of weapons that    *)
(* fire, ProjectileSystem with a set of old shots whose lifetime ends, and *)
(* ScoreSystem.                                                            *)
FinishTick ==
    LET lived == AfterPods(AfterLives(reg))
    IN  /\ phase = "collide" /\ phase' = "idle"
        /\ \E fired \in SUBSET Armed(lived) :
           \E gone \in SUBSET View(lived, Shots) :
              /\ Fits(Cardinality(fired))
              /\ reg' = AfterScore(Destroy(
                          AfterWeapons(lived, SetToSeq(fired)), gone))
        /\ crowd' = {} /\ met' = {}
        /\ UNCHANGED <<spawner, seats, lastId, stray>>

----------------------------------------------------------------------------

Clients == \E k \in Keys : \/ Join(k) \/ LeaveWorld(k) \/ LeaveRoom(k)
                           \/ \E shot \in {"shot", "charge"} : Shoot(k, shot)

Tick == \/ StartTick
        \/ \E e1, e2 \in crowd : Collide(e1, e2)
        \/ FinishTick

Next == Clients \/ Tick

Spec == Init /\ [][Next]_vars

----------------------------------------------------------------------------
(* Properties.                                                             *)

TypeOK == /\ RegistryOK(reg, Components)
          /\ spawner \in SpawnerType
          /\ seats \in [Keys -> 0..MaxId] /\ lastId \in 0..MaxId
          /\ phase \in {"idle", "collide"} /\ stray \in BOOLEAN
          /\ crowd \subseteq Numbers(reg) /\ met \subseteq SUBSET crowd

(* A shot that is not charged hits one thing and is gone, whatever else it *)
(* overlaps in the same tick and in whatever order the pairs come.         *)
OneHitPerShot ==
    \A e \in Numbers(reg) : the(e).kind \in {"shot", "eshot"} =>
       the(e).hits <= 1

(* Whoever cannot be touched has a shield that is running down: nobody     *)
(* comes back from a lost life as a ghost.                                 *)
ShieldsAreTimed ==
    \A p \in Players : the(p).active <=> (the(p).shield = 0)

(* Every point earned is on the board, waits for ScoreSystem, or was       *)
(* overwritten by another kill of the same tick; none is counted twice.    *)
PointsAddUp ==
    \A p \in Numbers(reg) : the(p).kind = "player" =>
       the(p).score + the(p).event + the(p).lost = the(p).earned

(* The spawner runs out of levels, for good, only after a Boss_1 outlived  *)
(* its level and was killed in a later one.                                *)
SpawnsGoOn == OutOfLevels(spawner) => stray

(* No boss enters but in the tick that ends a warning.                     *)
BossesIn(r) == View(r, Bosses)
BossStep == BossesIn(reg') \ BossesIn(reg) # {} => spawner.warning
BossesAreAnnounced == [][BossStep]_vars

(* The world keeps the promises of a room: lives go one by one, avatars    *)
(* never come back, and only players that are in lose any.                 *)
AvatarIds == {the(e).id : e \in Players}
LivesById == [p \in Ids |-> IF \E e \in Players : the(e).id = p
                            THEN the(CHOOSE e \in Players : the(e).id = p).lives
                            ELSE 0]
R == INSTANCE Room WITH members <- seats, last <- lastId,
                        avatars <- AvatarIds, lives <- LivesById
RoomSpec == R!Spec
=============================================================================
