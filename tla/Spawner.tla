------------------------------- MODULE Spawner -------------------------------
(***************************************************************************)
(* SpawnSystem (ecs/src/systems/SpawnSystem.cpp) on one EnemySpawner:      *)
(* which enemies a tick spawns, and how waves, levels and the warning      *)
(* before a boss go on.  A spawner is a value [level, wave, index, timer,  *)
(* warning, left]; time is counted in ticks.                               *)
(***************************************************************************)
EXTENDS Integers, Sequences, FiniteSets

CONSTANTS
    Levels,       \* config::getLevels(): levels of waves of timed enemies
    WarningTime,  \* bossWarningTimer, 4 s
    MaxTimer      \* bound on waveTimer

Bosses == {"boss1", "boss2"}
Foes   == {"mob"} \cup Bosses

ASSUME LevelsAssumption ==
    /\ WarningTime \in Nat \ {0, 1}
    /\ MaxTimer \in Nat
    /\ Levels \in Seq(Seq([enemies : Seq([kind : Foes, at : Nat]),
                           duration : Nat]))
    /\ \A l \in DOMAIN Levels : \A w \in DOMAIN Levels[l] :
          Levels[l][w].duration <= MaxTimer

SpawnerType == [level : Nat, wave : Nat, index : Nat, timer : 0..MaxTimer,
                warning : BOOLEAN, left : 0..WarningTime]

FirstSpawner == [level |-> 0, wave |-> 0, index |-> 0, timer |-> 0,
                 warning |-> FALSE, left |-> 0]

OutOfLevels(s) == s.level >= Len(Levels)
OutOfWaves(s)  == s.wave >= Len(Levels[s.level + 1])
Wave(s)        == Levels[s.level + 1][s.wave + 1]
Waiting(s)     == s.index < Len(Wave(s).enemies)

Aged(s) == [s EXCEPT !.timer = IF @ < MaxTimer THEN @ + 1 ELSE @]   \* bound

\* mutant: the first boss of a level comes without a warning
MutOpensWithBoss(s) == s.wave = 0 /\ s.index = 0 /\ s.level > 1
                       /\ Wave(s).enemies[1].kind \in Bosses
OpensWithBoss(s) == s.wave = 0 /\ s.index = 0
                    /\ Wave(s).enemies[1].kind \in Bosses

\* mutant: the warning stays on for a tick after its time is up
MutWarned(s) ==
    LET on == IF OpensWithBoss(s) /\ ~s.warning /\ s.left = 0
              THEN [s EXCEPT !.warning = TRUE, !.left = WarningTime] ELSE s
    IN  IF on.warning
        THEN [on EXCEPT !.left = @ - 1, !.warning = on.left > 0]
        ELSE on
(* The warning starts before the first enemy of a boss level, unless it is *)
(* on, and runs down.                                                      *)
Warned(s) ==
    LET on == IF OpensWithBoss(s) /\ ~s.warning /\ s.left = 0
              THEN [s EXCEPT !.warning = TRUE, !.left = WarningTime] ELSE s
    IN  IF on.warning
        THEN [on EXCEPT !.left = @ - 1, !.warning = on.left > 1]
        ELSE on

(* The enemies of the wave whose turn and time have come.                  *)
Due(s) == {i \in (s.index + 1)..Len(Wave(s).enemies) :
             \A j \in (s.index + 1)..i : Wave(s).enemies[j].at <= s.timer}

NextWave(s) ==
    LET last == s.wave + 1 >= Len(Levels[s.level + 1])
    IN  [s EXCEPT !.timer = 0, !.index = 0,
                  !.wave  = IF last THEN 0 ELSE @ + 1,
                  !.level = IF ~last THEN @
                            ELSE IF @ + 1 >= Len(Levels) THEN 0 ELSE @ + 1]

(* The spawner after one tick, and the enemies it spawned.                 *)
Stays(s) == [spawner |-> s, born |-> <<>>]

SpawnWave(s) ==
    LET n == Cardinality(Due(s))
        t == [s EXCEPT !.index = @ + n]
    IN  [spawner |-> IF t.timer >= Wave(t).duration THEN NextWave(t) ELSE t,
         born    |-> [i \in 1..n |-> Wave(s).enemies[s.index + i].kind]]

Ticked(old) ==
    LET s == Aged(old)
    IN  IF OutOfLevels(s) THEN Stays(s)
        ELSE IF OutOfWaves(s)
             THEN Stays([s EXCEPT !.level = 0, !.wave = 0, !.timer = 0,
                                  !.index = 0])
        ELSE IF ~Waiting(s) THEN SpawnWave(s)
        ELSE IF Warned(s).warning THEN Stays(Warned(s))
        ELSE SpawnWave(Warned(s))

\* mutant: a level too many
MutBossDown(s) == [FirstSpawner EXCEPT !.level = s.level + 2]
(* CollisionSystem, on the death of Boss_1: the next level, at once.       *)
BossDown(s) == [FirstSpawner EXCEPT !.level = s.level + 1]
=============================================================================
