---------------------------- MODULE WorldProofs ----------------------------
(***************************************************************************)
(* Proofs about the game world, for every number of clients, entities and  *)
(* levels.                                                                 *)
(*                                                                         *)
(* The invariant is WorldInv.  Its heart is Sound: whatever was created    *)
(* is Fit for ever (a shot hits once, a shield is timed, points add up, a  *)
(* Boss_1 is not of the last level), and whatever still exists and is not  *)
(* being worked on is Fresh (a shot has hit nothing, a player has a life,  *)
(* a foe has health).  The registry's operations keep both, so every       *)
(* system of a tick is a composition of them.                              *)
(***************************************************************************)
EXTENDS World, FiniteSetTheorems, TLAPS

----------------------------------------------------------------------------
(* The registry: what its operations keep.                                 *)

(* What every entity keeps for ever, and what it keeps while it exists.    *)
Shielded(c) == c.kind = "player" => (c.active <=> (c.shield = 0))
Counted(c)  == c.kind = "player" => c.score + c.event + c.lost = c.earned
Bounded(c)  == c.kind \in {"shot", "eshot"} => c.hits <= 1

(* What the levels of LevelDefs.hpp are like: a boss comes first in its     *)
(* level, and Boss_1 is not in the last one.                               *)
BossesLead ==
    /\ Levels # <<>>
    /\ \A l \in DOMAIN Levels : \A w \in DOMAIN Levels[l] :
       \A i \in DOMAIN Levels[l][w].enemies :
          Levels[l][w].enemies[i].kind \in Bosses =>
             /\ w = 1 /\ i = 1
             /\ Levels[l][w].enemies[i].kind = "boss1" => l < Len(Levels)

Settled(c) == BossesLead /\ c.kind = "boss1" => c.home + 1 < Len(Levels)

Fit(c)   == /\ c \in Components
            /\ Shielded(c) /\ Counted(c) /\ Bounded(c) /\ Settled(c)
Fresh(c) == /\ c.kind \in {"shot", "eshot"} => c.hits = 0
            /\ c.kind = "player" => c.lives >= 1
            /\ c.kind \in Foes => c.hp >= 1

IsRegistry(r) == r = [next |-> r.next, valid |-> r.valid, data |-> r.data]

(* All but the entities of X, which an action is at work on, are fresh.    *)
Sound(r, X) == /\ IsRegistry(r)
               /\ RegistryOK(r, Components)
               /\ \A e \in Numbers(r) : Fit(r.data[e])
               /\ \A e \in r.valid \ X : Fresh(r.data[e])

(* The players stay as they are, and no boss comes.                        *)
Same(r, s) == /\ View(s, {"player"}) = View(r, {"player"})
              /\ \A p \in View(r, {"player"}) :
                    s.data[p].id = r.data[p].id /\ s.data[p].lives = r.data[p].lives
              /\ View(s, Bosses) \subseteq View(r, Bosses)

LEMMA SameIsTransitive ==
    ASSUME NEW r, NEW s, NEW t, Same(r, s), Same(s, t)
    PROVE  Same(r, t)
BY DEF Same

LEMMA SameIsReflexive == \A r : Same(r, r)
BY DEF Same

LEMMA PutIs ==
    ASSUME NEW r, IsRegistry(r), NEW e, NEW c
    PROVE  Put(r, e, c) = [next |-> r.next, valid |-> r.valid,
                           data |-> [r.data EXCEPT ![e] = c]]
BY DEF Put, IsRegistry

LEMMA PutKeepsNumbers ==
    ASSUME NEW r, IsRegistry(r), NEW e, NEW c
    PROVE  Numbers(Put(r, e, c)) = Numbers(r) /\ Put(r, e, c).valid = r.valid
BY PutIs DEF Numbers

LEMMA DestroyIs ==
    ASSUME NEW r, IsRegistry(r), NEW gone
    PROVE  Destroy(r, gone) = [next |-> r.next, valid |-> r.valid \ gone,
                               data |-> r.data]
BY DEF Destroy, IsRegistry

LEMMA SoundPut ==
    ASSUME NEW r, NEW X, Sound(r, X), NEW e \in Numbers(r), NEW c, Fit(c)
    PROVE  /\ Sound(Put(r, e, c), X \cup {e})
           /\ Fresh(c) => Sound(Put(r, e, c), X)
           /\ /\ c.kind = r.data[e].kind /\ c.id = r.data[e].id
              /\ c.lives = r.data[e].lives
              => Same(r, Put(r, e, c))
<1>1. Put(r, e, c) = [next |-> r.next, valid |-> r.valid,
                      data |-> [r.data EXCEPT ![e] = c]]
    BY PutIs DEF Sound
<1> DEFINE p == Put(r, e, c)
<1>2. p.next = r.next /\ p.valid = r.valid /\ p.data = [r.data EXCEPT ![e] = c]
    BY <1>1
<1>3. IsRegistry(p)
    BY <1>1 DEF IsRegistry
<1>4. Numbers(p) = Numbers(r)
    BY <1>2 DEF Numbers
<1>5. c \in Components /\ r.data \in [Numbers(r) -> Components]
    BY DEF Fit, Sound, RegistryOK
<1> HIDE DEF p
<1>6. RegistryOK(p, Components)
    BY <1>2, <1>4, <1>5 DEF Sound, RegistryOK
<1>7. \A d \in Numbers(p) : p.data[d] = IF d = e THEN c ELSE r.data[d]
    BY <1>2, <1>4, <1>5
<1>8. \A d \in Numbers(p) : Fit(p.data[d])
    BY <1>4, <1>7 DEF Sound
<1>9. p.valid \subseteq Numbers(p) /\ p.valid = r.valid
    BY <1>2, <1>6 DEF RegistryOK
<1>10. \A d \in p.valid \ (X \cup {e}) : Fresh(p.data[d])
    BY <1>7, <1>9 DEF Sound
<1>11. Fresh(c) => \A d \in p.valid \ X : Fresh(p.data[d])
    BY <1>7, <1>9 DEF Sound
<1>12. Sound(p, X \cup {e}) /\ (Fresh(c) => Sound(p, X))
    BY <1>3, <1>6, <1>8, <1>10, <1>11 DEF Sound
<1>13. c.kind = r.data[e].kind /\ c.id = r.data[e].id /\ c.lives = r.data[e].lives
       => Same(r, p)
    BY <1>4, <1>7, <1>9 DEF Same, View
<1> QED
    BY <1>12, <1>13 DEF p

LEMMA SoundDestroy ==
    ASSUME NEW r, NEW X, Sound(r, X), NEW gone
    PROVE  /\ Sound(Destroy(r, gone), X \ gone)
           /\ Numbers(Destroy(r, gone)) = Numbers(r)
           /\ Destroy(r, gone).valid = r.valid \ gone
           /\ Destroy(r, gone).data = r.data
           /\ gone \cap View(r, {"player"}) = {} => Same(r, Destroy(r, gone))
<1> DEFINE d == Destroy(r, gone)
<1>1. d = [next |-> r.next, valid |-> r.valid \ gone, data |-> r.data]
    BY DestroyIs DEF Sound
<1>2. d.next = r.next /\ d.valid = r.valid \ gone /\ d.data = r.data
    BY <1>1
<1>3. IsRegistry(d)
    BY <1>1 DEF IsRegistry
<1> HIDE DEF d
<1>4. Numbers(d) = Numbers(r)
    BY <1>2 DEF Numbers
<1>5. RegistryOK(d, Components)
    BY <1>2, <1>4 DEF Sound, RegistryOK
<1>6. Sound(d, X \ gone)
    BY <1>2, <1>3, <1>4, <1>5 DEF Sound
<1>7. gone \cap View(r, {"player"}) = {} => Same(r, d)
    BY <1>2 DEF Same, View
<1> QED
    BY <1>2, <1>4, <1>6, <1>7 DEF d

LEMMA SoundCreateAll ==
    ASSUME NEW r, NEW X, Sound(r, X), NEW new \in Seq(Components),
           \A i \in DOMAIN new : Fit(new[i]) /\ Fresh(new[i])
    PROVE  /\ Sound(CreateAll(r, new), X)
           /\ Numbers(r) \subseteq Numbers(CreateAll(r, new))
           /\ r.valid \subseteq CreateAll(r, new).valid
           /\ \A e \in Numbers(r) : CreateAll(r, new).data[e] = r.data[e]
           /\ \A e \in CreateAll(r, new).valid \ r.valid :
                 \E i \in DOMAIN new : CreateAll(r, new).data[e] = new[i]
           /\ (\A i \in DOMAIN new : new[i].kind \notin {"player"} \cup Bosses)
              => Same(r, CreateAll(r, new))
<1> DEFINE n == Len(new)
           upto == r.next + n - 1
           s == CreateAll(r, new)
<1>1. n \in Nat /\ r.next \in Nat /\ DOMAIN new = 1..n
    BY DEF Sound, RegistryOK
<1>2. s.next = r.next + n /\ s.valid = r.valid \cup r.next..upto
      /\ s.data = [e \in 0..upto |-> IF e < r.next THEN r.data[e]
                                     ELSE new[e - r.next + 1]]
      /\ IsRegistry(s)
    BY DEF CreateAll, IsRegistry
<1> HIDE DEF s
<1>3. Numbers(s) = 0..upto /\ Numbers(r) = 0..(r.next - 1)
    BY <1>1, <1>2, SMTT(20) DEF Numbers
<1>4. Numbers(r) \subseteq Numbers(s) /\ r.valid \subseteq Numbers(r)
      /\ r.next..upto \subseteq Numbers(s)
    BY <1>1, <1>3 DEF Sound, RegistryOK
<1>5. \A e \in Numbers(r) : s.data[e] = r.data[e]
    BY <1>1, <1>2, <1>3
<1>6. \A e \in Numbers(s) \ Numbers(r) : \E i \in DOMAIN new : s.data[e] = new[i]
  <2> SUFFICES ASSUME NEW e \in 0..upto, ~(e < r.next)
               PROVE  \E i \in DOMAIN new : s.data[e] = new[i]
      BY <1>1, <1>3
  <2>1. e - r.next + 1 \in DOMAIN new
      BY <1>1
  <2>2. s.data[e] = new[e - r.next + 1]
      BY <1>2
  <2> QED
      BY <2>1, <2>2
<1>7. \A e \in Numbers(s) : Fit(s.data[e]) /\ s.data[e] \in Components
    BY <1>5, <1>6 DEF Sound, Fit
<1>8. RegistryOK(s, Components)
  <2>1. s.next \in Nat
      BY <1>1, <1>2
  <2>2. s.valid \subseteq Numbers(s)
      BY <1>2, <1>4
  <2>3. s.data \in [Numbers(s) -> Components]
      BY <1>2, <1>3, <1>7
  <2> QED
      BY <2>1, <2>2, <2>3 DEF RegistryOK
<1>9. \A e \in s.valid \ X : Fresh(s.data[e])
  <2>1. \A e \in r.valid \ X : Fresh(s.data[e])
      BY <1>4, <1>5 DEF Sound
  <2>2. \A e \in r.next..upto : e \in Numbers(s) \ Numbers(r)
      BY <1>1, <1>3
  <2>3. \A e \in r.next..upto : Fresh(s.data[e])
      BY <1>6, <2>2
  <2> QED
      BY <1>2, <2>1, <2>3
<1>10. Sound(s, X) /\ Numbers(r) \subseteq Numbers(s)
    BY <1>2, <1>4, <1>7, <1>8, <1>9 DEF Sound
<1>11. r.valid \subseteq s.valid /\ r.valid \subseteq Numbers(r)
    BY <1>2, <1>4
<1>12. \A e \in s.valid \ r.valid : \E i \in DOMAIN new : s.data[e] = new[i]
  <2>1. \A e \in r.next..upto : e \in Numbers(s) \ Numbers(r)
      BY <1>1, <1>3
  <2> QED
      BY <1>2, <1>6, <2>1
<1>13. (\A i \in DOMAIN new : new[i].kind \notin {"player"} \cup Bosses) => Same(r, s)
  <2> SUFFICES ASSUME \A i \in DOMAIN new : new[i].kind \notin {"player"} \cup Bosses
               PROVE  Same(r, s)
      OBVIOUS
  <2>1. \A e \in s.valid \ r.valid : s.data[e].kind \notin {"player"} \cup Bosses
      BY <1>12
  <2>2. \A e \in r.valid : e \in s.valid /\ s.data[e] = r.data[e]
      BY <1>5, <1>11
  <2> QED
      BY <2>1, <2>2 DEF Same, View
<1> QED
    BY <1>5, <1>10, <1>11, <1>12, <1>13 DEF s

LEMMA SoundMap ==
    ASSUME NEW r, NEW X, Sound(r, X), NEW F, DOMAIN F = Numbers(r),
           F = [e \in Numbers(r) |-> F[e]],
           \A e \in Numbers(r) : Fit(F[e]),
           \A e \in r.valid \ X : Fresh(F[e])
    PROVE  /\ Sound([next |-> r.next, valid |-> r.valid, data |-> F], X)
           /\ Numbers([next |-> r.next, valid |-> r.valid, data |-> F]) = Numbers(r)
           /\ (\A e \in Numbers(r) : F[e].kind = r.data[e].kind /\ F[e].id = r.data[e].id
                                     /\ F[e].lives = r.data[e].lives)
              => Same(r, [next |-> r.next, valid |-> r.valid, data |-> F])
<1> DEFINE s == [next |-> r.next, valid |-> r.valid, data |-> F]
<1>1. s.next = r.next /\ s.valid = r.valid /\ s.data = F /\ IsRegistry(s)
    BY DEF IsRegistry
<1> HIDE DEF s
<1>2. Numbers(s) = Numbers(r)
    BY <1>1 DEF Numbers
<1>3. \A e \in Numbers(r) : F[e] \in Components
    BY DEF Fit
<1>4. F \in [Numbers(r) -> Components]
    BY <1>3
<1>5. RegistryOK(s, Components)
    BY <1>1, <1>2, <1>4 DEF Sound, RegistryOK
<1>6. Sound(s, X)
    BY <1>1, <1>2, <1>5 DEF Sound
<1>7. (\A e \in Numbers(r) : F[e].kind = r.data[e].kind /\ F[e].id = r.data[e].id
                              /\ F[e].lives = r.data[e].lives)
      => Same(r, s)
  <2>1. r.valid \subseteq Numbers(r)
      BY DEF Sound, RegistryOK
  <2> QED
      BY <1>1, <2>1 DEF Same, View
<1> QED
    BY <1>2, <1>6, <1>7 DEF s

----------------------------------------------------------------------------
(* Entities as they are created.                                           *)

LEMMA Facts == /\ IsFiniteSet(Keys)
               /\ MaxId \in Nat /\ InitialLives \in Nat /\ InitialLives >= 1
               /\ PlayerHealth \in Nat /\ PlayerHealth >= 1
               /\ BossHits \in Nat /\ BossHits >= 1
               /\ ShieldTime \in Nat /\ ShieldTime >= 1
               /\ WarningTime \in Nat /\ WarningTime >= 2 /\ MaxTimer \in Nat
BY WorldAssumption, LevelsAssumption

LEMMA PlainIsFit == /\ Plain \in Components /\ Fit(Plain) /\ Fresh(Plain)
                    /\ Plain.kind = "obstacle"
<1>1. Plain.kind = "obstacle"
    BY DEF Plain
<1>2. Plain \in Components
    BY Facts DEF Plain, Components, Kinds, Foes, Bosses, Shots
<1> QED
    BY <1>1, <1>2 DEF Fit, Fresh, Shielded, Counted, Bounded, Settled, Foes, Bosses

LEMMA NewPlayerIsFit ==
    ASSUME NEW id \in Ids
    PROVE  /\ Fit(NewPlayer(id)) /\ Fresh(NewPlayer(id))
           /\ NewPlayer(id).kind = "player" /\ NewPlayer(id).id = id
           /\ NewPlayer(id).lives = InitialLives
<1> DEFINE c == NewPlayer(id)
<1>0. /\ "player" \in Kinds /\ id \in 0..MaxId
      /\ InitialLives \in 0..InitialLives /\ PlayerHealth \in Nat
    BY Facts DEF Kinds, Ids
<1>1. c \in Components
    BY <1>0, PlainIsFit DEF NewPlayer, Plain, Components
<1>2. c.kind = "player" /\ c.id = id /\ c.lives = InitialLives
    BY DEF NewPlayer, Plain
<1>3. c.active = TRUE /\ c.shield = 0
    BY DEF NewPlayer, Plain
<1>4. c.score = 0 /\ c.event = 0 /\ c.lost = 0 /\ c.earned = 0
    BY DEF NewPlayer, Plain
<1> HIDE DEF c
<1>5. Fit(c)
    BY <1>1, <1>2, <1>3, <1>4 DEF Fit, Shielded, Counted, Bounded, Settled
<1>6. Fresh(c)
    BY <1>2, Facts DEF Fresh, Foes, Bosses
<1> QED
    BY <1>2, <1>5, <1>6 DEF c

LEMMA NewFoeIsFit ==
    ASSUME NEW kind \in Foes, spawner.level \in Nat,
           BossesLead /\ kind = "boss1" => spawner.level + 1 < Len(Levels)
    PROVE  /\ Fit(NewFoe(kind)) /\ Fresh(NewFoe(kind))
           /\ NewFoe(kind).kind = kind /\ NewFoe(kind).home = spawner.level
<1> DEFINE c == NewFoe(kind)
<1>1. c.kind = kind /\ c.home = spawner.level
    BY DEF NewFoe, Plain
<1>2. c.hp \in Nat /\ c.hp >= 1
    BY Facts DEF NewFoe, Plain
<1>3. c = [Plain EXCEPT !.kind = kind, !.home = spawner.level, !.hp = c.hp]
    BY DEF NewFoe, Plain
<1>4. kind \in Kinds
    BY DEF Kinds
<1> HIDE DEF c
<1>5. c \in Components
  <2>1. ASSUME NEW p \in Components, NEW h \in Nat, NEW l \in Nat
        PROVE  [p EXCEPT !.kind = kind, !.home = l, !.hp = h] \in Components
      BY <1>4, ZenonT(40) DEF Components
  <2>2. Plain \in Components /\ spawner.level \in Nat
      BY PlainIsFit
  <2> QED
      BY <1>2, <1>3, <2>1, <2>2, ZenonT(40)
<1>6. Fit(c) /\ Fresh(c)
    BY <1>1, <1>2, <1>5 DEF Fit, Fresh, Shielded, Counted, Bounded, Settled, Foes, Bosses
<1> QED
    BY <1>1, <1>6 DEF c

LEMMA NewShotIsFit ==
    ASSUME NEW kind \in Shots, NEW o \in Nat
    PROVE  /\ Fit(NewShot(kind, o)) /\ Fresh(NewShot(kind, o))
           /\ NewShot(kind, o).kind = kind
<1> DEFINE c == NewShot(kind, o)
<1>1. c.kind = kind /\ c.hits = 0
    BY DEF NewShot, Plain
<1>2. kind \in Kinds
    BY DEF Kinds
<1>3. c \in Components
    BY <1>2, PlainIsFit DEF NewShot, Plain, Components
<1> HIDE DEF c
<1>4. Fit(c) /\ Fresh(c)
    BY <1>1, <1>3 DEF Fit, Fresh, Shielded, Counted, Bounded, Settled, Foes, Bosses, Shots
<1> QED
    BY <1>1, <1>4 DEF c

LEMMA NewItemIsFit == /\ Fit(NewItem) /\ Fresh(NewItem) /\ NewItem.kind = "item"
<1>1. NewItem.kind = "item"
    BY DEF NewItem, Plain
<1>2. NewItem \in Components
    BY PlainIsFit DEF NewItem, Plain, Components, Kinds
<1> QED
    BY <1>1, <1>2 DEF Fit, Fresh, Shielded, Counted, Bounded, Settled, Foes, Bosses

LEMMA NewPodIsFit ==
    ASSUME NEW o \in Nat
    PROVE  /\ Fit(NewPod(o)) /\ Fresh(NewPod(o)) /\ NewPod(o).kind = "pod"
<1>1. NewPod(o).kind = "pod"
    BY DEF NewPod, Plain
<1>2. NewPod(o) \in Components
    BY PlainIsFit DEF NewPod, Plain, Components, Kinds
<1> QED
    BY <1>1, <1>2 DEF Fit, Fresh, Shielded, Counted, Bounded, Settled, Foes, Bosses

(* A warning is on just as long as its time runs.                          *)
Timed(s) == s \in SpawnerType /\ (s.warning => s.left >= 1) /\ (~s.warning => s.left = 0)

InLevels(s) == ~OutOfLevels(s) /\ ~OutOfWaves(s)

LEMMA AgedIsTimed ==
    ASSUME NEW s, Timed(s)
    PROVE  /\ Timed(Aged(s))
           /\ Aged(s).level = s.level /\ Aged(s).wave = s.wave
           /\ Aged(s).index = s.index /\ Aged(s).warning = s.warning
           /\ Aged(s).left = s.left
<1>1. s \in SpawnerType /\ s.timer \in 0..MaxTimer
    BY DEF Timed, SpawnerType
<1>2. Aged(s) = [s EXCEPT !.timer = Aged(s).timer]
    BY <1>1 DEF Aged, SpawnerType
<1>3. Aged(s).timer \in 0..MaxTimer
    BY <1>1, Facts DEF Aged, SpawnerType
<1> DEFINE t == Aged(s).timer
<1> HIDE DEF t
<1>4. [s EXCEPT !.timer = t] \in SpawnerType
    BY <1>1, <1>3 DEF SpawnerType, t
<1>5. Aged(s) \in SpawnerType
    BY <1>2, <1>4 DEF t
<1>6. /\ Aged(s).level = s.level /\ Aged(s).wave = s.wave
      /\ Aged(s).index = s.index /\ Aged(s).warning = s.warning
      /\ Aged(s).left = s.left
    BY <1>1 DEF Aged, SpawnerType
<1> QED
    BY <1>5, <1>6 DEF Timed

LEMMA WaveIsThere ==
    ASSUME NEW s, s \in SpawnerType, InLevels(s)
    PROVE  /\ s.level + 1 \in DOMAIN Levels /\ s.wave + 1 \in DOMAIN Levels[s.level + 1]
           /\ Wave(s) = Levels[s.level + 1][s.wave + 1]
           /\ Wave(s) \in [enemies : Seq([kind : Foes, at : Nat]), duration : Nat]
           /\ Wave(s).enemies \in Seq([kind : Foes, at : Nat])
<1>1. s.level \in Nat /\ s.wave \in Nat
    BY DEF SpawnerType
<1> DEFINE W == [enemies : Seq([kind : Foes, at : Nat]), duration : Nat]
<1> HIDE DEF W
<1>2. Levels \in Seq(Seq(W))
    BY LevelsAssumption DEF W
<1>3. s.level + 1 \in DOMAIN Levels
    BY <1>1, <1>2 DEF InLevels, OutOfLevels
<1>4. Levels[s.level + 1] \in Seq(W)
    BY <1>2, <1>3
<1>5. s.wave + 1 \in DOMAIN Levels[s.level + 1]
    BY <1>1, <1>4 DEF InLevels, OutOfWaves
<1>6. Wave(s) = Levels[s.level + 1][s.wave + 1]
    BY DEF Wave
<1>7. Wave(s) \in W
    BY <1>4, <1>5, <1>6
<1>8. Wave(s).enemies \in Seq([kind : Foes, at : Nat])
    BY <1>7 DEF W
<1> QED
    BY <1>3, <1>5, <1>6, <1>7, <1>8 DEF W

LEMMA WarnedIsTimed ==
    ASSUME NEW s, Timed(s), InLevels(s)
    PROVE  /\ Timed(Warned(s))
           /\ Warned(s).level = s.level /\ Warned(s).wave = s.wave
           /\ Warned(s).index = s.index /\ Warned(s).timer = s.timer
           /\ OpensWithBoss(s) /\ ~s.warning => Warned(s).warning
<1> DEFINE warn == OpensWithBoss(s) /\ ~s.warning /\ s.left = 0
           on == IF warn THEN [s EXCEPT !.warning = TRUE, !.left = WarningTime] ELSE s
<1>1. s \in SpawnerType /\ s.left \in 0..WarningTime /\ s.warning \in BOOLEAN
    BY DEF Timed, SpawnerType
<1>2. on \in SpawnerType
  <2>1. CASE warn
    <3>1. WarningTime \in 0..WarningTime
        BY Facts
    <3> QED
        BY <1>1, <2>1, <3>1 DEF SpawnerType
  <2>2. CASE ~warn
      BY <1>1, <2>2
  <2> QED
      BY <2>1, <2>2
<1>3. /\ on.level = s.level /\ on.wave = s.wave
      /\ on.index = s.index /\ on.timer = s.timer
    BY <1>1 DEF SpawnerType
<1>4. on.warning => on.left >= 1 /\ on.left <= WarningTime /\ on.left \in Nat
  <2>1. CASE warn
    <3>1. on.left = WarningTime
        BY <1>1, <2>1 DEF SpawnerType
    <3> QED
        BY <3>1, Facts
  <2>2. CASE ~warn
    <3>1. on = s
        BY <2>2
    <3>2. s.left \in Nat /\ s.left <= WarningTime
        BY <1>1
    <3> QED
        BY <3>1, <3>2 DEF Timed
  <2> QED
      BY <2>1, <2>2
<1>5. ~on.warning => on.left = 0
  <2>1. warn => on.warning
      BY <1>1 DEF SpawnerType
  <2> QED
      BY <2>1 DEF Timed
<1>6. OpensWithBoss(s) /\ ~s.warning => on.warning /\ on.left = WarningTime
    BY <1>1 DEF Timed, SpawnerType
<1>7. Warned(s) = IF on.warning
                  THEN [on EXCEPT !.left = on.left - 1, !.warning = on.left > 1]
                  ELSE on
    BY DEF Warned
<1> HIDE DEF on
<1>8. CASE ~on.warning
  <2>1. Warned(s) = on
      BY <1>7, <1>8
  <2> QED
      BY <1>2, <1>3, <1>5, <1>6, <1>8, <2>1 DEF Timed
<1>9. CASE on.warning
  <2> DEFINE n == on.left - 1
             b == on.left > 1
  <2>1. Warned(s) = [on EXCEPT !.left = n, !.warning = b]
      BY <1>7, <1>9
  <2>2. n \in 0..WarningTime /\ b \in BOOLEAN /\ (b => n >= 1) /\ (~b => n = 0)
      BY <1>4, <1>9, Facts
  <2>3. OpensWithBoss(s) /\ ~s.warning => b
      BY <1>6, Facts
  <2> HIDE DEF n, b
  <2>4. Warned(s) \in SpawnerType
      BY <1>2, <2>1, <2>2 DEF SpawnerType
  <2>5. /\ Warned(s).warning = b /\ Warned(s).left = n
        /\ Warned(s).level = on.level /\ Warned(s).wave = on.wave
        /\ Warned(s).index = on.index /\ Warned(s).timer = on.timer
      BY <1>2, <2>1 DEF SpawnerType
  <2> QED
      BY <1>3, <2>2, <2>3, <2>4, <2>5 DEF Timed
<1> QED
    BY <1>8, <1>9

LEMMA DueIsBounded ==
    ASSUME NEW s, s \in SpawnerType, InLevels(s)
    PROVE  /\ Cardinality(Due(s)) \in Nat
           /\ \A i \in 1..Cardinality(Due(s)) :
                 s.index + i \in DOMAIN Wave(s).enemies
<1> DEFINE lo == s.index + 1
           hi == Len(Wave(s).enemies)
<1>1. s.index \in Nat /\ hi \in Nat /\ DOMAIN Wave(s).enemies = 1..hi
    BY WaveIsThere DEF SpawnerType
<1>2. Due(s) \subseteq lo..hi
    BY DEF Due
<1>0. lo \in Int /\ hi \in Int
    BY <1>1
<1> HIDE DEF lo, hi
<1>3. IsFiniteSet(lo..hi)
      /\ Cardinality(lo..hi) = IF lo > hi THEN 0 ELSE hi - lo + 1
    BY <1>0, FS_Interval
<1>4. Cardinality(Due(s)) \in Nat /\ Cardinality(Due(s)) <= Cardinality(lo..hi)
    BY <1>2, <1>3, FS_Subset, FS_CardinalityType
<1>5. \A i \in 1..Cardinality(Due(s)) : s.index + i \in 1..hi
    BY <1>1, <1>3, <1>4 DEF lo
<1> QED
    BY <1>1, <1>4, <1>5

LEMMA SpawnWaveIsSound ==
    ASSUME NEW s, Timed(s), InLevels(s)
    PROVE  /\ Timed(SpawnWave(s).spawner)
           /\ ~OutOfLevels(SpawnWave(s).spawner)
           /\ SpawnWave(s).born \in Seq(Foes)
           /\ \A i \in DOMAIN SpawnWave(s).born :
                 /\ s.index + i \in DOMAIN Wave(s).enemies
                 /\ SpawnWave(s).born[i] = Wave(s).enemies[s.index + i].kind
<1> DEFINE n == Cardinality(Due(s))
           t == [s EXCEPT !.index = s.index + n]
           born == [i \in 1..n |-> Wave(s).enemies[s.index + i].kind]
           after == IF t.timer >= Wave(t).duration THEN NextWave(t) ELSE t
<1>1. n \in Nat /\ s \in SpawnerType /\ s.index \in Nat
    BY DueIsBounded DEF Timed, SpawnerType
<1>2. SpawnWave(s) = [spawner |-> after, born |-> born]
    BY DEF SpawnWave
<1>3. SpawnWave(s).spawner = after /\ SpawnWave(s).born = born
    BY <1>2
<1>4. \A i \in 1..n : /\ s.index + i \in DOMAIN Wave(s).enemies
                      /\ Wave(s).enemies[s.index + i].kind \in Foes
  <2>1. \A i \in 1..n : s.index + i \in DOMAIN Wave(s).enemies
      BY <1>1, DueIsBounded
  <2> DEFINE es == Wave(s).enemies
             E  == [kind : Foes, at : Nat]
  <2>4. es \in Seq(E)
      BY <1>1, WaveIsThere
  <2> HIDE DEF es, E
  <2>5. \A j \in DOMAIN es : es[j] \in E
      BY <2>4
  <2>2. \A j \in DOMAIN Wave(s).enemies : Wave(s).enemies[j] \in [kind : Foes, at : Nat]
      BY <2>5 DEF es, E
  <2>3. \A j \in DOMAIN Wave(s).enemies : Wave(s).enemies[j].kind \in Foes
      BY <2>2
  <2> QED
      BY <2>1, <2>3
<1>5. born \in Seq(Foes) /\ DOMAIN born = 1..n
    BY <1>1, <1>4
<1>6. t \in SpawnerType /\ t.warning = s.warning /\ t.left = s.left
      /\ t.level = s.level /\ t.wave = s.wave
    BY <1>1 DEF SpawnerType
<1>7. Len(Levels) \in Nat
    BY LevelsAssumption
<1> HIDE DEF t
<1>8. Timed(t) /\ ~OutOfLevels(t)
    BY <1>6 DEF Timed, InLevels, OutOfLevels
<1>9. Timed(NextWave(t)) /\ ~OutOfLevels(NextWave(t))
  <2> DEFINE last == t.wave + 1 >= Len(Levels[t.level + 1])
             w == IF last THEN 0 ELSE t.wave + 1
             l == IF ~last THEN t.level
                  ELSE IF t.level + 1 >= Len(Levels) THEN 0 ELSE t.level + 1
  <2>1. NextWave(t) = [t EXCEPT !.timer = 0, !.index = 0, !.wave = w, !.level = l]
      BY <1>6 DEF NextWave, SpawnerType
  <2>2. w \in Nat /\ l \in Nat /\ l < Len(Levels)
    <3>1. t.level \in Nat /\ t.wave \in Nat /\ t.level < Len(Levels)
        BY <1>6, <1>7, <1>8 DEF SpawnerType, OutOfLevels
    <3> QED
        BY <1>7, <3>1
  <2>0. 0 \in 0..MaxTimer /\ 0 \in Nat
      BY Facts
  <2> HIDE DEF w, l
  <2>3. NextWave(t) \in SpawnerType
      BY <1>6, <2>0, <2>1, <2>2 DEF SpawnerType
  <2>4. /\ NextWave(t).warning = t.warning /\ NextWave(t).left = t.left
        /\ NextWave(t).level = l
      BY <1>6, <2>1 DEF SpawnerType
  <2> QED
      BY <1>7, <1>8, <2>2, <2>3, <2>4 DEF Timed, OutOfLevels
<1> QED
    BY <1>3, <1>4, <1>5, <1>8, <1>9

(* What a tick of the spawner makes of it, and of what it spawns.          *)
Births(s) == Ticked(s).born

LEMMA TickedIsSound ==
    ASSUME NEW s, Timed(s)
    PROVE  /\ Timed(Ticked(s).spawner)
           /\ ~OutOfLevels(s) => ~OutOfLevels(Ticked(s).spawner)
           /\ Births(s) \in Seq(Foes)
           /\ \A i \in DOMAIN Births(s) :
                 /\ InLevels(s)
                 /\ s.index + i \in DOMAIN Wave(s).enemies
                 /\ Births(s)[i] = Wave(s).enemies[s.index + i].kind
                 /\ OpensWithBoss(s) => s.warning
<1> DEFINE a == Aged(s)
           w == Warned(a)
<1>1. /\ Timed(a) /\ a.level = s.level /\ a.wave = s.wave
      /\ a.index = s.index /\ a.warning = s.warning /\ a.left = s.left
    BY AgedIsTimed
<1>2. OutOfLevels(a) = OutOfLevels(s) /\ OutOfWaves(a) = OutOfWaves(s)
    BY <1>1 DEF OutOfLevels, OutOfWaves
<1>3. Wave(a) = Wave(s)
    BY <1>1 DEF Wave
<1>4. InLevels(a) = InLevels(s) /\ OpensWithBoss(a) = OpensWithBoss(s)
    BY <1>1, <1>2, <1>3 DEF InLevels, OpensWithBoss
<1> HIDE DEF a
<1>5. \A x : Stays(x).spawner = x /\ Stays(x).born = <<>>
    BY DEF Stays
<1>6. <<>> \in Seq(Foes) /\ DOMAIN <<>> = {}
    OBVIOUS
<1>7. Ticked(s) =
        IF OutOfLevels(a) THEN Stays(a)
        ELSE IF OutOfWaves(a)
             THEN Stays([a EXCEPT !.level = 0, !.wave = 0, !.timer = 0, !.index = 0])
        ELSE IF ~Waiting(a) THEN SpawnWave(a)
        ELSE IF w.warning THEN Stays(w)
        ELSE SpawnWave(w)
    BY DEF Ticked, a
<1>8. CASE OutOfLevels(a)
    BY <1>1, <1>2, <1>5, <1>6, <1>7, <1>8 DEF Births
<1>9. CASE ~OutOfLevels(a) /\ OutOfWaves(a)
  <2> DEFINE z == [a EXCEPT !.level = 0, !.wave = 0, !.timer = 0, !.index = 0]
  <2>1. Ticked(s) = Stays(z)
      BY <1>7, <1>9
  <2>2. a \in SpawnerType
      BY <1>1 DEF Timed
  <2>0. 0 \in 0..MaxTimer /\ 0 \in Nat
      BY Facts
  <2>3. z \in SpawnerType
      BY <2>0, <2>2 DEF SpawnerType
  <2>4. z.level = 0 /\ z.warning = a.warning /\ z.left = a.left
      BY <2>2 DEF SpawnerType
  <2> HIDE DEF z
  <2>5. a.level \in Nat /\ Len(Levels) \in Nat
      BY <2>2, LevelsAssumption DEF SpawnerType
  <2>6. Timed(z) /\ ~OutOfLevels(z)
      BY <1>1, <1>9, <2>3, <2>4, <2>5 DEF Timed, OutOfLevels
  <2> QED
      BY <1>5, <1>6, <2>1, <2>6 DEF Births
<1>10. CASE InLevels(a) /\ ~Waiting(a)
  <2>1. Ticked(s) = SpawnWave(a)
      BY <1>7, <1>10 DEF InLevels
  <2>2. /\ Timed(SpawnWave(a).spawner) /\ ~OutOfLevels(SpawnWave(a).spawner)
        /\ SpawnWave(a).born \in Seq(Foes)
        /\ \A i \in DOMAIN SpawnWave(a).born :
              /\ a.index + i \in DOMAIN Wave(a).enemies
              /\ SpawnWave(a).born[i] = Wave(a).enemies[a.index + i].kind
      BY <1>1, <1>10, SpawnWaveIsSound
  <2>3. ASSUME NEW i \in DOMAIN SpawnWave(a).born
        PROVE  FALSE
    <3>1. a.index + i \in DOMAIN Wave(a).enemies /\ i >= 1
        BY <2>2
    <3>2. a.index \in Nat /\ Wave(a).enemies \in Seq([kind : Foes, at : Nat])
        BY <1>1, <1>10, WaveIsThere DEF Timed, SpawnerType
    <3>3. i \in Nat
        BY <2>2
    <3> QED
        BY <1>10, <3>1, <3>2, <3>3 DEF Waiting
  <2> QED
      BY <2>1, <2>2, <2>3 DEF Births
<1>11. CASE InLevels(a) /\ Waiting(a)
  <2>1. /\ Timed(w) /\ w.level = a.level /\ w.wave = a.wave /\ w.index = a.index
        /\ OpensWithBoss(a) /\ ~a.warning => w.warning
      BY <1>1, <1>11, WarnedIsTimed
  <2>2. Wave(w) = Wave(a)
      BY <2>1 DEF Wave
  <2>3. InLevels(w)
      BY <1>11, <2>1 DEF InLevels, OutOfLevels, OutOfWaves
  <2>4. Ticked(s) = IF w.warning THEN Stays(w) ELSE SpawnWave(w)
      BY <1>7, <1>11 DEF InLevels
  <2> HIDE DEF w
  <2>5. CASE w.warning
      BY <1>5, <1>6, <2>1, <2>3, <2>4, <2>5 DEF InLevels, Births
  <2>6. CASE ~w.warning
    <3>1. Births(s) = SpawnWave(w).born /\ Ticked(s).spawner = SpawnWave(w).spawner
        BY <2>4, <2>6 DEF Births
    <3>2. /\ Timed(SpawnWave(w).spawner) /\ ~OutOfLevels(SpawnWave(w).spawner)
          /\ SpawnWave(w).born \in Seq(Foes)
          /\ \A i \in DOMAIN SpawnWave(w).born :
                /\ w.index + i \in DOMAIN Wave(w).enemies
                /\ SpawnWave(w).born[i] = Wave(w).enemies[w.index + i].kind
        BY <2>1, <2>3, SpawnWaveIsSound
    <3>3. InLevels(s) /\ (OpensWithBoss(s) => s.warning)
        BY <1>1, <1>4, <1>11, <2>1, <2>6
    <3> QED
        BY <1>1, <1>3, <2>1, <2>2, <3>1, <3>2, <3>3
  <2> QED
      BY <2>5, <2>6
<1> QED
    BY <1>8, <1>9, <1>10, <1>11 DEF InLevels

(* Edits of an entity.                                                     *)

Like(c, d) == c.kind = d.kind /\ c.id = d.id /\ c.lives = d.lives

LEMMA HealthEdit ==
    ASSUME NEW c, Fit(c), NEW n \in Nat
    PROVE  LET d == [c EXCEPT !.hp = n]
           IN  Fit(d) /\ Like(d, c) /\ d.hp = n /\ d.hits = c.hits
<1> DEFINE d == [c EXCEPT !.hp = n]
<1>1. c \in Components
    BY DEF Fit
<1>2. d \in Components
    BY <1>1 DEF Components
<1>3. /\ d.kind = c.kind /\ d.id = c.id /\ d.lives = c.lives /\ d.active = c.active
      /\ d.shield = c.shield /\ d.score = c.score /\ d.event = c.event
      /\ d.lost = c.lost /\ d.earned = c.earned /\ d.hits = c.hits /\ d.home = c.home
      /\ d.hp = n
    BY <1>1 DEF Components
<1> HIDE DEF d
<1>4. Fit(d) /\ Like(d, c) /\ d.hp = n /\ d.hits = c.hits
    BY <1>2, <1>3 DEF Fit, Shielded, Counted, Bounded, Settled, Like
<1> QED
    BY <1>4 DEF d

LEMMA HitsEdit ==
    ASSUME NEW c, Fit(c), NEW n \in Nat, c.kind \in {"shot", "eshot"} => n <= 1
    PROVE  LET d == [c EXCEPT !.hits = n]
           IN  Fit(d) /\ Like(d, c) /\ d.hits = n /\ d.hp = c.hp
<1> DEFINE d == [c EXCEPT !.hits = n]
<1>1. c \in Components
    BY DEF Fit
<1>2. d \in Components
    BY <1>1 DEF Components
<1>3. /\ d.kind = c.kind /\ d.id = c.id /\ d.lives = c.lives /\ d.active = c.active
      /\ d.shield = c.shield /\ d.score = c.score /\ d.event = c.event
      /\ d.lost = c.lost /\ d.earned = c.earned /\ d.hp = c.hp /\ d.home = c.home
      /\ d.hits = n
    BY <1>1 DEF Components
<1> HIDE DEF d
<1>4. Fit(d) /\ Like(d, c) /\ d.hits = n /\ d.hp = c.hp
    BY <1>2, <1>3 DEF Fit, Shielded, Counted, Bounded, Settled, Like
<1> QED
    BY <1>4 DEF d

LEMMA TriggerEdit ==
    ASSUME NEW c, Fit(c), NEW t \in {"none", "shot", "charge"}
    PROVE  LET d == [c EXCEPT !.trigger = t]
           IN  Fit(d) /\ Like(d, c) /\ d.hp = c.hp /\ d.hits = c.hits /\ d.trigger = t
<1> DEFINE d == [c EXCEPT !.trigger = t]
<1>1. c \in Components
    BY DEF Fit
<1>2. d \in Components
    BY <1>1 DEF Components
<1>3. /\ d.kind = c.kind /\ d.id = c.id /\ d.lives = c.lives /\ d.active = c.active
      /\ d.shield = c.shield /\ d.score = c.score /\ d.event = c.event
      /\ d.lost = c.lost /\ d.earned = c.earned /\ d.hp = c.hp /\ d.home = c.home
      /\ d.hits = c.hits /\ d.trigger = t
    BY <1>1 DEF Components
<1> HIDE DEF d
<1>4. Fit(d) /\ Like(d, c) /\ d.hp = c.hp /\ d.hits = c.hits /\ d.trigger = t
    BY <1>2, <1>3 DEF Fit, Shielded, Counted, Bounded, Settled, Like
<1> QED
    BY <1>4 DEF d

LEMMA RewardEdit ==
    ASSUME NEW c, Fit(c), NEW n \in Nat
    PROVE  LET d == [c EXCEPT !.event = n, !.lost = @ + c.event, !.earned = @ + n]
           IN  Fit(d) /\ Like(d, c) /\ d.hp = c.hp /\ d.hits = c.hits
<1> DEFINE d == [c EXCEPT !.event = n, !.lost = @ + c.event, !.earned = @ + n]
<1>1. c \in Components
    BY DEF Fit
<1>2. c.lost \in Nat /\ c.event \in Nat /\ c.earned \in Nat /\ c.score \in Nat
    BY <1>1 DEF Components
<1>3. d \in Components
  <2> DEFINE l == c.lost + c.event
             e == c.earned + n
  <2>1. l \in Nat /\ e \in Nat
      BY <1>2
  <2>2. d = [c EXCEPT !.event = n, !.lost = l, !.earned = e]
      BY <1>1 DEF Components
  <2> HIDE DEF l, e, d
  <2> QED
      BY <1>1, <2>1, <2>2 DEF Components
<1>4. /\ d.kind = c.kind /\ d.id = c.id /\ d.lives = c.lives /\ d.active = c.active
      /\ d.shield = c.shield /\ d.score = c.score /\ d.hp = c.hp /\ d.home = c.home
      /\ d.hits = c.hits
    BY <1>1 DEF Components
<1>5. d.event = n /\ d.lost = c.lost + c.event /\ d.earned = c.earned + n
    BY <1>1 DEF Components
<1> HIDE DEF d
<1>6. Counted(d)
  <2>1. c.kind = "player" => c.score + c.event + c.lost = c.earned
      BY DEF Fit, Counted
  <2>2. c.score + c.event + c.lost = c.earned
        => d.score + d.event + d.lost = d.earned
      BY <1>2, <1>4, <1>5
  <2> QED
      BY <1>4, <2>1, <2>2 DEF Counted
<1>7. Fit(d) /\ Like(d, c) /\ d.hp = c.hp /\ d.hits = c.hits
    BY <1>3, <1>4, <1>6 DEF Fit, Shielded, Bounded, Settled, Like
<1> QED
    BY <1>7 DEF d

LEMMA ScoredIsFit ==
    ASSUME NEW c, Fit(c)
    PROVE  Fit(Scored(c)) /\ Like(Scored(c), c) /\ (Fresh(c) => Fresh(Scored(c)))
<1> DEFINE d == Scored(c)
<1>1. c \in Components
    BY DEF Fit
<1>2. c.score \in Nat /\ c.event \in Nat /\ c.lost \in Nat /\ c.earned \in Nat
    BY <1>1 DEF Components
<1>3. d \in Components
  <2> DEFINE n == c.score + c.event
  <2>1. n \in Nat
      BY <1>2
  <2>2. d = [c EXCEPT !.score = n, !.event = 0]
      BY <1>1 DEF Components, Scored
  <2> HIDE DEF n, d
  <2> QED
      BY <1>1, <2>1, <2>2 DEF Components
<1>4. /\ d.kind = c.kind /\ d.id = c.id /\ d.lives = c.lives /\ d.active = c.active
      /\ d.shield = c.shield /\ d.hp = c.hp /\ d.home = c.home /\ d.hits = c.hits
    BY <1>1 DEF Components, Scored
<1>5. d.score = c.score + c.event /\ d.event = 0 /\ d.lost = c.lost
      /\ d.earned = c.earned
    BY <1>1 DEF Components, Scored
<1> HIDE DEF d
<1>6. Counted(d)
  <2>1. c.kind = "player" => c.score + c.event + c.lost = c.earned
      BY DEF Fit, Counted
  <2>2. c.score + c.event + c.lost = c.earned
        => d.score + d.event + d.lost = d.earned
      BY <1>2, <1>5
  <2> QED
      BY <1>4, <2>1, <2>2 DEF Counted
<1>7. Fit(d) /\ Like(d, c) /\ (Fresh(c) => Fresh(d))
    BY <1>3, <1>4, <1>6 DEF Fit, Fresh, Shielded, Bounded, Settled, Like
<1> QED
    BY <1>7 DEF d

(* A judged player has one life less, and a shield while it cannot be hit. *)
LEMMA ShieldRunsDownIsFit ==
    ASSUME NEW c, Fit(c), c.kind = "player"
    PROVE  LET d == ShieldRunsDown(c)
           IN  Fit(d) /\ Like(d, c)
<1> DEFINE d == ShieldRunsDown(c)
<1>1. c \in Components /\ c.shield \in 0..ShieldTime
    BY DEF Fit, Components
<1>2. CASE c.shield = 0
  <2>1. d = c
      BY <1>2 DEF ShieldRunsDown
  <2> QED
      BY <2>1 DEF Like
<1>3. CASE c.shield # 0
  <2> DEFINE n == c.shield - 1
             b == (c.shield = 1)
  <2>1. d = [c EXCEPT !.shield = n, !.active = b]
      BY <1>1, <1>3 DEF ShieldRunsDown, Components
  <2>2. n \in 0..ShieldTime /\ b \in BOOLEAN /\ (b <=> n = 0)
      BY <1>1, <1>3, Facts
  <2> HIDE DEF n, b, d
  <2>3. d \in Components
      BY <1>1, <2>1, <2>2 DEF Components
  <2>4. /\ d.kind = c.kind /\ d.id = c.id /\ d.lives = c.lives /\ d.hits = c.hits
        /\ d.score = c.score /\ d.event = c.event /\ d.home = c.home
        /\ d.lost = c.lost /\ d.earned = c.earned
        /\ d.shield = n /\ d.active = b
      BY <1>1, <2>1 DEF Components
  <2>5. Shielded(d)
      BY <2>2, <2>4 DEF Shielded
  <2>6. Counted(d) /\ Bounded(d) /\ Settled(d)
      BY <2>4 DEF Fit, Counted, Bounded, Settled
  <2>7. Fit(d) /\ Like(d, c)
      BY <2>3, <2>4, <2>5, <2>6 DEF Fit, Like
  <2> QED
      BY <2>7 DEF d
<1> QED
    BY <1>2, <1>3

LEMMA JudgedIsFit ==
    ASSUME NEW c, Fit(c), Fresh(c), c.kind = "player"
    PROVE  LET d == Judged(c)
           IN  /\ Fit(d) /\ d.kind = "player" /\ d.id = c.id
               /\ c.hp > 0 => d.lives = c.lives
               /\ ~(c.hp > 0) => d.lives = c.lives - 1
               /\ d.lives \in 0..InitialLives
<1> DEFINE d == Judged(c)
<1>1. c \in Components /\ c.lives \in 0..InitialLives /\ c.lives >= 1
    BY DEF Fit, Fresh, Components
<1>2. CASE c.hp > 0
  <2>1. d = ShieldRunsDown(c)
      BY <1>2 DEF Judged
  <2> QED
      BY <1>1, <1>2, <2>1, ShieldRunsDownIsFit DEF Like
<1> DEFINE n == c.lives - 1
<1>3. n \in 0..InitialLives
    BY <1>1, Facts
<1>4. CASE ~(c.hp > 0) /\ n > 0
  <2> DEFINE r == Respawned(c)
  <2>1. d = ShieldRunsDown(r)
      BY <1>4 DEF Judged
  <2>2. r = [c EXCEPT !.lives = n, !.hp = PlayerHealth, !.active = FALSE,
                      !.shield = ShieldTime]
      BY <1>1 DEF Respawned, Components
  <2>3. ShieldTime \in 0..ShieldTime /\ ShieldTime # 0 /\ PlayerHealth \in Nat
      BY Facts
  <2> HIDE DEF r, n
  <2>4. r \in Components
      BY <1>1, <1>3, <2>2, <2>3 DEF Components
  <2>5. /\ r.kind = c.kind /\ r.id = c.id /\ r.hits = c.hits
        /\ r.score = c.score /\ r.event = c.event /\ r.home = c.home
        /\ r.lost = c.lost /\ r.earned = c.earned
      BY <1>1, <2>2 DEF Components
  <2>6. r.lives = n /\ ~r.active /\ r.shield = ShieldTime
      BY <1>1, <2>2 DEF Components
  <2>7. Fit(r)
      BY <2>3, <2>4, <2>5, <2>6 DEF Fit, Shielded, Counted, Bounded, Settled
  <2> QED
      BY <1>3, <1>4, <2>1, <2>5, <2>6, <2>7, ShieldRunsDownIsFit DEF Like, n
<1>5. CASE ~(c.hp > 0) /\ ~(n > 0)
  <2>1. d = [c EXCEPT !.lives = n]
      BY <1>1, <1>5 DEF Judged, Components
  <2> HIDE DEF d, n
  <2>2. d \in Components
      BY <1>1, <1>3, <2>1 DEF Components
  <2>3. /\ d.kind = c.kind /\ d.id = c.id /\ d.hits = c.hits /\ d.lives = n
        /\ d.score = c.score /\ d.event = c.event /\ d.home = c.home
        /\ d.lost = c.lost /\ d.earned = c.earned
        /\ d.active = c.active /\ d.shield = c.shield
      BY <1>1, <2>1 DEF Components
  <2>4. Fit(d)
      BY <2>2, <2>3 DEF Fit, Shielded, Counted, Bounded, Settled
  <2> QED
      BY <1>3, <1>5, <2>3, <2>4 DEF d, n
<1> QED
    BY <1>2, <1>4, <1>5

----------------------------------------------------------------------------
(* What collisions make of a registry.                                     *)

(* s follows r: no entity is forgotten, no player changes.                 *)
Follows(r, s) == Same(r, s) /\ Numbers(r) \subseteq Numbers(s)

LEMMA FollowsIsTransitive ==
    ASSUME NEW r, NEW s, NEW t, Follows(r, s), Follows(s, t)
    PROVE  Follows(r, t)
BY SameIsTransitive DEF Follows

LEMMA FollowsIsReflexive == \A r : Follows(r, r)
BY SameIsReflexive DEF Follows

LEMMA ValidIsNumbered ==
    ASSUME NEW r, NEW X, Sound(r, X)
    PROVE  /\ r.valid \subseteq Numbers(r) /\ r.valid \subseteq Nat
           /\ \A e \in r.valid : Fit(r.data[e]) /\ r.data[e] \in Components
           /\ \A e \in r.valid \ X : Fresh(r.data[e])
BY DEF Sound, RegistryOK, Numbers, Fit

LEMMA CreateIsSound ==
    ASSUME NEW r, NEW X, Sound(r, X), NEW c, Fit(c), Fresh(c)
    PROVE  /\ Sound(Create(r, c), X)
           /\ Numbers(r) \subseteq Numbers(Create(r, c))
           /\ r.valid \subseteq Create(r, c).valid
           /\ \A e \in Numbers(r) : Create(r, c).data[e] = r.data[e]
           /\ \A e \in Create(r, c).valid \ r.valid : Create(r, c).data[e] = c
           /\ c.kind \notin {"player"} \cup Bosses => Follows(r, Create(r, c))
<1> DEFINE new == <<c>>
<1>1. new \in Seq(Components) /\ DOMAIN new = {1} /\ new[1] = c
    BY DEF Fit
<1>2. Create(r, c) = CreateAll(r, new)
    BY DEF Create
<1> HIDE DEF new
<1>3. \A i \in DOMAIN new : Fit(new[i]) /\ Fresh(new[i]) /\ new[i] = c
    BY <1>1
<1> QED
    BY <1>1, <1>2, <1>3, SoundCreateAll DEF Follows

LEMMA HurtIsSound ==
    ASSUME NEW r, Sound(r, {}), NEW p \in r.valid, r.data[p].kind = "player",
           NEW damage \in Nat
    PROVE  /\ Sound(Hurt(r, p, damage), {})
           /\ Follows(r, Hurt(r, p, damage))
           /\ Hurt(r, p, damage).valid = r.valid
<1> DEFINE c == r.data[p]
<1>1. Fit(c) /\ Fresh(c) /\ p \in Numbers(r) /\ c.hp \in Nat
    BY ValidIsNumbered DEF Components
<1>2. CASE c.hp <= 0
  <2>1. Hurt(r, p, damage) = r
      BY <1>2 DEF Hurt
  <2> QED
      BY <2>1, FollowsIsReflexive
<1>3. CASE ~(c.hp <= 0)
  <2> DEFINE n == IF c.hp > damage THEN c.hp - damage ELSE 0
             d == [c EXCEPT !.hp = n]
  <2>1. n \in Nat
      BY <1>1
  <2>2. Hurt(r, p, damage) = Put(r, p, d)
    <3>1. c \in Components
        BY <1>1 DEF Fit
    <3>2. [c EXCEPT !.hp = IF @ > damage THEN @ - damage ELSE 0] = d
        BY <3>1 DEF Components
    <3> QED
        BY <1>3, <3>2 DEF Hurt
  <2> HIDE DEF n
  <2>3. Fit(d) /\ Like(d, c)
      BY <1>1, <2>1, HealthEdit
  <2> HIDE DEF d
  <2>4. Fresh(d)
      BY <1>1, <2>3 DEF Fresh, Like, Foes, Bosses
  <2>6. d.kind = c.kind /\ d.id = c.id /\ d.lives = c.lives
      BY <2>3 DEF Like
  <2> HIDE DEF c
  <2>5. /\ Sound(Put(r, p, d), {}) /\ Numbers(Put(r, p, d)) = Numbers(r)
        /\ Put(r, p, d).valid = r.valid /\ Same(r, Put(r, p, d))
    <3>1. Sound(Put(r, p, d), {}) /\ Same(r, Put(r, p, d))
        BY <1>1, <2>3, <2>4, <2>6, SoundPut DEF c
    <3>2. IsRegistry(r)
        BY DEF Sound
    <3> QED
        BY <3>1, <3>2, PutKeepsNumbers
  <2> QED
      BY <2>2, <2>5 DEF Follows
<1> QED
    BY <1>2, <1>3

(* A shot that hits something, and goes.                                   *)
Marked(r, s) == Put(r, s, [r.data[s] EXCEPT !.hits = @ + 1])

LEMMA MarkedIsSound ==
    ASSUME NEW r, Sound(r, {}), NEW s \in r.valid, r.data[s].kind \in Shots
    PROVE  /\ Sound(Marked(r, s), {s})
           /\ r.data[s].kind = "charge" => Sound(Marked(r, s), {})
           /\ Follows(r, Marked(r, s))
           /\ Marked(r, s).valid = r.valid
           /\ \A e \in Numbers(r) \ {s} : Marked(r, s).data[e] = r.data[e]
           /\ Marked(r, s).data[s].kind = r.data[s].kind
<1> DEFINE c == r.data[s]
           n == c.hits + 1
           d == [c EXCEPT !.hits = n]
<1>1. Fit(c) /\ Fresh(c) /\ s \in Numbers(r) /\ c.hits \in Nat /\ c \in Components
    BY ValidIsNumbered DEF Components
<1>2. n \in Nat /\ (c.kind \in {"shot", "eshot"} => n <= 1)
    BY <1>1 DEF Fresh
<1>3. Marked(r, s) = Put(r, s, d)
    BY <1>1 DEF Marked, Components
<1> HIDE DEF n
<1>4. Fit(d) /\ Like(d, c)
    BY <1>1, <1>2, HitsEdit
<1> HIDE DEF d
<1>5. c.kind = "charge" => Fresh(d)
    BY <1>4 DEF Fresh, Like, Foes, Bosses
<1>6. /\ Sound(Put(r, s, d), {} \cup {s})
      /\ Fresh(d) => Sound(Put(r, s, d), {})
      /\ Numbers(Put(r, s, d)) = Numbers(r)
      /\ Put(r, s, d).valid = r.valid
      /\ Put(r, s, d).data[s] = d
      /\ \A e \in Numbers(r) \ {s} : Put(r, s, d).data[e] = r.data[e]
      /\ Same(r, Put(r, s, d))
  <2>1. d.kind = c.kind /\ d.id = c.id /\ d.lives = c.lives
      BY <1>4 DEF Like
  <2>2. /\ Sound(Put(r, s, d), {} \cup {s})
        /\ Fresh(d) => Sound(Put(r, s, d), {})
        /\ Same(r, Put(r, s, d))
      BY <1>1, <1>4, <2>1, SoundPut
  <2>3. IsRegistry(r) /\ r.data = [e \in Numbers(r) |-> r.data[e]]
      BY DEF Sound, RegistryOK
  <2>4. /\ Put(r, s, d).data[s] = d
        /\ \A e \in Numbers(r) \ {s} : Put(r, s, d).data[e] = r.data[e]
      BY <1>1, <2>3, PutIs
  <2> QED
      BY <2>2, <2>3, <2>4, PutKeepsNumbers
<1>7. {} \cup {s} = {s}
    OBVIOUS
<1> QED
    BY <1>3, <1>4, <1>5, <1>6, <1>7 DEF Follows, Like

LEMMA ShotGoneIsSound ==
    ASSUME NEW r, Sound(r, {}), NEW s \in r.valid, r.data[s].kind \in Shots
    PROVE  LET g == Destroy(Marked(r, s), {s})
           IN  /\ Sound(g, {}) /\ Follows(r, g) /\ g.valid = r.valid \ {s}
               /\ \A e \in Numbers(r) \ {s} : g.data[e] = r.data[e]
<1> DEFINE m == Marked(r, s)
           g == Destroy(m, {s})
<1>1. /\ Sound(m, {s}) /\ Follows(r, m) /\ m.valid = r.valid
      /\ \A e \in Numbers(r) \ {s} : m.data[e] = r.data[e]
      /\ m.data[s].kind = r.data[s].kind
    BY MarkedIsSound
<1> HIDE DEF m
<1>2. {s} \cap View(m, {"player"}) = {}
    BY <1>1 DEF View, Shots
<1>3. /\ Sound(g, {s} \ {s}) /\ Numbers(g) = Numbers(m)
      /\ g.valid = m.valid \ {s} /\ g.data = m.data /\ Same(m, g)
    BY <1>1, <1>2, SoundDestroy, ZenonT(40)
<1>4. {s} \ {s} = {}
    OBVIOUS
<1>5. Follows(m, g)
    BY <1>3 DEF Follows
<1>6. Follows(r, g)
    BY <1>1, <1>5, FollowsIsTransitive
<1> HIDE DEF g
<1>7. /\ Sound(g, {}) /\ Follows(r, g) /\ g.valid = r.valid \ {s}
      /\ \A e \in Numbers(r) \ {s} : g.data[e] = r.data[e]
    BY <1>1, <1>3, <1>4, <1>6
<1> QED
    BY <1>7 DEF g, m

LEMMA SpentIsSound ==
    ASSUME NEW r, Sound(r, {}), NEW s \in r.valid, r.data[s].kind \in Shots
    PROVE  /\ Sound(Spent(r, s), {}) /\ Follows(r, Spent(r, s))
           /\ r.valid \ {s} \subseteq Spent(r, s).valid
           /\ Spent(r, s).valid \subseteq r.valid
           /\ \A e \in Numbers(r) \ {s} : Spent(r, s).data[e] = r.data[e]
<1>1. Spent(r, s) = IF r.data[s].kind = "charge" THEN Marked(r, s)
                    ELSE Destroy(Marked(r, s), {s})
    BY DEF Spent, Marked
<1>2. CASE r.data[s].kind = "charge"
    BY <1>1, <1>2, MarkedIsSound, ZenonT(40)
<1>3. CASE r.data[s].kind # "charge"
    BY <1>1, <1>3, ShotGoneIsSound
<1> QED
    BY <1>2, <1>3

LEMMA RewardedIsSound ==
    ASSUME NEW r, NEW e \in r.valid, Sound(r, {e}), r.data[e].kind \in Foes,
           NEW shooter
    PROVE  LET w == Rewarded(r, e, shooter)
           IN  Sound(w, {e}) /\ Follows(r, w) /\ w.valid = r.valid
<1> DEFINE c == r.data[shooter]
           n == Points(r.data[e].kind)
           d == [c EXCEPT !.event = n, !.lost = @ + c.event, !.earned = @ + n]
           paid == shooter # 0 /\ IsValid(r, shooter) /\ c.kind = "player"
<1>1. Rewarded(r, e, shooter) = IF paid THEN Put(r, shooter, d) ELSE r
    BY DEF Rewarded
<1>2. CASE ~paid
    BY <1>1, <1>2, FollowsIsReflexive
<1>3. CASE paid
  <2>1. shooter \in r.valid /\ c.kind = "player" /\ shooter # e
      BY <1>3 DEF IsValid, Foes, Bosses
  <2>2. Fit(c) /\ Fresh(c) /\ shooter \in Numbers(r)
      BY <2>1, ValidIsNumbered
  <2>3. n \in Nat
      BY DEF Points
  <2> HIDE DEF n
  <2>4. Fit(d) /\ Like(d, c) /\ d.hp = c.hp /\ d.hits = c.hits
      BY <2>2, <2>3, RewardEdit
  <2> HIDE DEF d
  <2>5. Fresh(d)
      BY <2>1, <2>2, <2>4 DEF Fresh, Like, Foes, Bosses
  <2>7. d.kind = c.kind /\ d.id = c.id /\ d.lives = c.lives
      BY <2>4 DEF Like
  <2>6. /\ Sound(Put(r, shooter, d), {e})
        /\ Numbers(Put(r, shooter, d)) = Numbers(r)
        /\ Put(r, shooter, d).valid = r.valid /\ Same(r, Put(r, shooter, d))
    <3>1. Sound(Put(r, shooter, d), {e}) /\ Same(r, Put(r, shooter, d))
        BY <2>2, <2>4, <2>5, <2>7, SoundPut
    <3>2. IsRegistry(r)
        BY DEF Sound
    <3> QED
        BY <3>1, <3>2, PutKeepsNumbers
  <2> QED
      BY <1>1, <1>3, <2>6 DEF Follows
<1> QED
    BY <1>2, <1>3

----------------------------------------------------------------------------
(* The invariant.                                                          *)

(* Only a Boss_1 that died in another level lets the levels run out.       *)
LevelInv == BossesLead /\ OutOfLevels(spawner) => stray

RestInv == /\ seats \in [Keys -> 0..MaxId] /\ lastId \in 0..MaxId
           /\ phase \in {"idle", "collide"} /\ stray \in BOOLEAN

CrowdInv == crowd \subseteq Numbers(reg) /\ met \subseteq SUBSET crowd

WorldInv == Sound(reg, {}) /\ Timed(spawner) /\ LevelInv /\ RestInv /\ CrowdInv

----------------------------------------------------------------------------
(* Collisions.                                                             *)

(* What every collision keeps.                                             *)
Keeps == /\ Sound(reg', {}) /\ Follows(reg, reg')
         /\ Timed(spawner') /\ LevelInv' /\ stray' \in BOOLEAN

LEMMA NothingElse ==
    ASSUME Timed(spawner), LevelInv, stray \in BOOLEAN, UNCHANGED <<spawner, stray>>,
           Sound(reg', {}), Follows(reg, reg')
    PROVE  Keeps
BY DEF Keeps, LevelInv, Timed, OutOfLevels

LEMMA CanMeetFacts ==
    ASSUME WorldInv, NEW e1, NEW e2, CanMeet(e1, e2)
    PROVE  /\ e1 \in reg.valid /\ e2 \in reg.valid /\ e1 # e2
           /\ e1 \in crowd /\ e2 \in crowd
BY DEF CanMeet, IsValid

LEMMA FoeKilled ==
    ASSUME WorldInv, NEW s \in reg.valid, NEW e \in reg.valid, s # e,
           the(s).kind \in {"shot", "charge"}, the(e).kind \in Foes
    PROVE  LET hit == Put(Spent(reg, s), e, [the(e) EXCEPT !.hp = @ - 1])
           IN  /\ hit.data[e].hp > 0 => Sound(hit, {})
               /\ Sound(hit, {e}) /\ Follows(reg, hit) /\ e \in hit.valid
               /\ hit.data[e].kind = the(e).kind
<1> DEFINE r == Spent(reg, s)
           c == reg.data[e]
           n == c.hp - 1
           d == [c EXCEPT !.hp = n]
           hit == Put(r, e, d)
<1>1. Sound(reg, {}) /\ reg.data[s].kind \in Shots
    BY DEF WorldInv, Shots, the
<1>2. /\ Sound(r, {}) /\ Follows(reg, r)
      /\ reg.valid \ {s} \subseteq r.valid
      /\ \A x \in Numbers(reg) \ {s} : r.data[x] = reg.data[x]
    BY <1>1, SpentIsSound
<1>3. Fit(c) /\ Fresh(c) /\ e \in Numbers(reg) /\ c.hp \in Nat /\ c \in Components
    BY <1>1, ValidIsNumbered DEF Components
<1>4. c.kind \in Foes /\ n \in Nat
    BY <1>3 DEF Fresh, the
<1> HIDE DEF r
<1>5. e \in r.valid /\ e \in Numbers(r) /\ r.data[e] = c
    BY <1>2, <1>3, ValidIsNumbered
<1>6. [the(e) EXCEPT !.hp = @ - 1] = d
    BY <1>3 DEF the, Components
<1> HIDE DEF n
<1>7. Fit(d) /\ Like(d, c) /\ d.hp = n
    BY <1>3, <1>4, HealthEdit
<1> HIDE DEF d
<1>8. d.hp > 0 => Fresh(d)
    BY <1>4, <1>7 DEF Fresh, Like, Foes, Bosses
<1>9. d.kind = c.kind /\ d.id = c.id /\ d.lives = c.lives
    BY <1>7 DEF Like
<1> HIDE DEF c
<1>10. Sound(hit, {} \cup {e}) /\ (Fresh(d) => Sound(hit, {})) /\ Same(r, hit)
    BY <1>2, <1>5, <1>7, <1>9, SoundPut
<1>11. {} \cup {e} = {e}
    OBVIOUS
<1>12. IsRegistry(r) /\ r.data = [x \in Numbers(r) |-> r.data[x]]
    BY <1>2 DEF Sound, RegistryOK
<1>13. hit.data[e] = d
    BY <1>5, <1>12, PutIs
<1>14. Numbers(hit) = Numbers(r) /\ hit.valid = r.valid
    BY <1>12, PutKeepsNumbers
<1> HIDE DEF hit
<1>15. Follows(reg, hit)
  <2>1. Follows(r, hit)
      BY <1>10, <1>14 DEF Follows
  <2> QED
      BY <1>2, <2>1, FollowsIsTransitive
<1>16. /\ hit.data[e].hp > 0 => Sound(hit, {})
       /\ Sound(hit, {e}) /\ Follows(reg, hit) /\ e \in hit.valid
       /\ hit.data[e].kind = reg.data[e].kind
    BY <1>5, <1>8, <1>9, <1>10, <1>11, <1>13, <1>14, <1>15 DEF c
<1> QED
    BY <1>6, <1>16 DEF hit, r, the

LEMMA Killed ==
    ASSUME NEW r, NEW e \in r.valid, Sound(r, {e}), r.data[e].kind # "player"
    PROVE  Sound(Destroy(r, {e}), {}) /\ Follows(r, Destroy(r, {e}))
<1>1. {e} \cap View(r, {"player"}) = {} /\ {e} \ {e} = {}
    BY DEF View
<1>2. /\ Sound(Destroy(r, {e}), {e} \ {e}) /\ Same(r, Destroy(r, {e}))
      /\ Numbers(Destroy(r, {e})) = Numbers(r)
    BY <1>1, SoundDestroy
<1> QED
    BY <1>1, <1>2 DEF Follows

LEMMA ShotHitsFoeKeeps ==
    ASSUME WorldInv, NEW s, NEW e, ShotHitsFoe(s, e)
    PROVE  Keeps
<1> DEFINE hit == Put(Spent(reg, s), e, [the(e) EXCEPT !.hp = @ - 1])
           paid == Rewarded(hit, e, the(s).owner)
<1>1. /\ s \in reg.valid /\ e \in reg.valid /\ s # e
      /\ the(s).kind \in {"shot", "charge"} /\ the(e).kind \in Foes
    BY CanMeetFacts DEF ShotHitsFoe
<1>2. /\ hit.data[e].hp > 0 => Sound(hit, {})
      /\ Sound(hit, {e}) /\ Follows(reg, hit) /\ e \in hit.valid
      /\ hit.data[e].kind = the(e).kind
    BY <1>1, FoeKilled
<1>3. \/ /\ hit.data[e].hp > 0 /\ reg' = hit /\ UNCHANGED <<spawner, stray>>
      \/ /\ reg' = Destroy(paid, {e})
         /\ spawner' = IF the(e).kind = "boss1" THEN BossDown(spawner) ELSE spawner
         /\ stray' = (stray \/ /\ the(e).kind = "boss1"
                               /\ the(e).home # spawner.level)
      \/ /\ reg' = Destroy(Create(paid, NewItem), {e}) /\ UNCHANGED <<spawner, stray>>
    BY DEF ShotHitsFoe
<1> HIDE DEF hit
<1>4. Sound(paid, {e}) /\ Follows(hit, paid) /\ paid.valid = hit.valid
    BY <1>1, <1>2, RewardedIsSound
<1> HIDE DEF paid
<1>5. Follows(reg, paid) /\ e \in paid.valid
    BY <1>2, <1>4, FollowsIsTransitive
<1>6. paid.data[e].kind # "player"
  <2>1. e \notin View(reg, {"player"})
      BY <1>1 DEF View, the, Foes, Bosses
  <2>2. e \notin View(paid, {"player"})
      BY <1>5, <2>1 DEF Follows, Same
  <2> QED
      BY <1>5, <2>2 DEF View
<1>7. CASE hit.data[e].hp > 0 /\ reg' = hit /\ UNCHANGED <<spawner, stray>>
    BY <1>2, <1>7, NothingElse DEF WorldInv, RestInv
<1>8. CASE /\ reg' = Destroy(paid, {e})
           /\ spawner' = IF the(e).kind = "boss1" THEN BossDown(spawner) ELSE spawner
           /\ stray' = (stray \/ /\ the(e).kind = "boss1"
                                 /\ the(e).home # spawner.level)
  <2>1. Sound(reg', {}) /\ Follows(reg, reg')
    <3>1. Sound(Destroy(paid, {e}), {}) /\ Follows(paid, Destroy(paid, {e}))
        BY <1>4, <1>5, <1>6, Killed
    <3> QED
        BY <1>5, <1>8, <3>1, FollowsIsTransitive
  <2>2. stray' \in BOOLEAN
      BY <1>8
  <2>3. CASE the(e).kind # "boss1"
    <3>1. spawner' = spawner /\ (stray => stray')
        BY <1>8, <2>3
    <3> QED
        BY <2>1, <2>2, <3>1 DEF Keeps, WorldInv, LevelInv, Timed, OutOfLevels
  <2>4. CASE the(e).kind = "boss1"
    <3>1. spawner' = BossDown(spawner) /\ (the(e).home # spawner.level => stray')
        BY <1>8, <2>4
    <3>2. spawner.level \in Nat /\ Len(Levels) \in Nat
        BY LevelsAssumption DEF WorldInv, Timed, SpawnerType
    <3>3. BossDown(spawner).level = spawner.level + 1
          /\ BossDown(spawner).warning = FALSE /\ BossDown(spawner).left = 0
        BY DEF BossDown, FirstSpawner
    <3>4. BossDown(spawner) \in SpawnerType
      <4>1. 0 \in 0..MaxTimer /\ 0 \in 0..WarningTime /\ 0 \in Nat
            /\ spawner.level + 1 \in Nat
          BY <3>2, Facts
      <4> DEFINE l == spawner.level + 1
      <4>2. BossDown(spawner) = [FirstSpawner EXCEPT !.level = l]
          BY DEF BossDown
      <4>3. FirstSpawner \in SpawnerType
          BY <4>1 DEF FirstSpawner, SpawnerType
      <4>4. l \in Nat
          BY <4>1
      <4> HIDE DEF l
      <4> QED
          BY <4>2, <4>3, <4>4 DEF SpawnerType
    <3>5. Timed(spawner')
        BY <3>1, <3>3, <3>4 DEF Timed
    <3>6. BossesLead => the(e).home + 1 < Len(Levels)
      <4>1. Fit(reg.data[e])
          BY <1>1, ValidIsNumbered DEF WorldInv
      <4> QED
          BY <2>4, <4>1 DEF Fit, Settled, the
    <3>7. LevelInv'
        BY <3>1, <3>2, <3>3, <3>6 DEF LevelInv, OutOfLevels
    <3> QED
        BY <2>1, <2>2, <3>5, <3>7 DEF Keeps
  <2> QED
      BY <2>3, <2>4
<1>9. CASE reg' = Destroy(Create(paid, NewItem), {e}) /\ UNCHANGED <<spawner, stray>>
  <2> DEFINE made == Create(paid, NewItem)
  <2>1. /\ Sound(made, {e}) /\ paid.valid \subseteq made.valid
        /\ \A x \in Numbers(paid) : made.data[x] = paid.data[x]
      BY <1>4, CreateIsSound, NewItemIsFit
  <2>2. Follows(paid, made)
    <3>1. NewItem.kind \notin {"player"} \cup Bosses
        BY NewItemIsFit DEF Bosses
    <3> QED
        BY <1>4, <3>1, CreateIsSound, NewItemIsFit
  <2>3. e \in made.valid /\ made.data[e].kind # "player"
      BY <1>4, <1>5, <1>6, <2>1, ValidIsNumbered
  <2> HIDE DEF made
  <2>4. Sound(Destroy(made, {e}), {}) /\ Follows(made, Destroy(made, {e}))
      BY <2>1, <2>3, Killed
  <2>5. Sound(reg', {}) /\ Follows(reg, reg')
      BY <1>5, <1>9, <2>2, <2>4, FollowsIsTransitive DEF made
  <2> QED
      BY <1>9, <2>5, NothingElse DEF WorldInv, RestInv
<1> QED
    BY <1>3, <1>7, <1>8, <1>9

LEMMA ShotLandsKeeps ==
    ASSUME WorldInv, NEW s \in reg.valid, NEW p \in reg.valid, s # p,
           the(s).kind \in Shots, the(p).kind = "player", NEW damage \in Nat,
           ShotLands(s, p, damage)
    PROVE  Keeps
<1> DEFINE g == Destroy(Marked(reg, s), {s})
<1>1. Sound(reg, {}) /\ p \in Numbers(reg)
    BY ValidIsNumbered DEF WorldInv
<1>2. /\ Sound(g, {}) /\ Follows(reg, g) /\ g.valid = reg.valid \ {s}
      /\ \A e \in Numbers(reg) \ {s} : g.data[e] = reg.data[e]
    BY <1>1, ShotGoneIsSound DEF the
<1>3. reg' = Hurt(g, p, damage) /\ UNCHANGED <<spawner, stray>>
    BY DEF ShotLands, Marked, the
<1> HIDE DEF g
<1>4. p \in g.valid /\ g.data[p].kind = "player"
    BY <1>1, <1>2 DEF the
<1>5. Sound(reg', {}) /\ Follows(g, reg')
    BY <1>2, <1>3, <1>4, HurtIsSound
<1>6. Follows(reg, reg')
    BY <1>2, <1>5, FollowsIsTransitive
<1> QED
    BY <1>3, <1>5, <1>6, NothingElse DEF WorldInv, RestInv

LEMMA TakesItemKeeps ==
    ASSUME WorldInv, NEW p, NEW i, TakesItem(p, i)
    PROVE  Keeps
<1> DEFINE n == Cardinality(PodsOf(reg, p))
           others == IF n = 1 THEN View(reg, {"item"}) ELSE {}
           gone == IF n >= 2 THEN {i} ELSE {i} \cup others
           d == Destroy(reg, gone)
<1>1. p \in reg.valid /\ i \in reg.valid /\ the(i).kind = "item" /\ Sound(reg, {})
    BY CanMeetFacts DEF TakesItem, WorldInv
<1>2. reg' = (IF n >= 2 THEN d ELSE Create(d, NewPod(p))) /\ UNCHANGED <<spawner, stray>>
    BY DEF TakesItem
<1> HIDE DEF n
<1>3. gone \cap View(reg, {"player"}) = {} /\ {} \ gone = {}
    BY <1>1 DEF View, the
<1> HIDE DEF gone
<1>4. Sound(d, {} \ gone) /\ Same(reg, d) /\ Numbers(d) = Numbers(reg)
    BY <1>1, <1>3, SoundDestroy
<1>5. Sound(d, {}) /\ Follows(reg, d)
    BY <1>3, <1>4 DEF Follows
<1> HIDE DEF d
<1>6. p \in Nat
    BY <1>1, ValidIsNumbered
<1>7. Fit(NewPod(p)) /\ Fresh(NewPod(p)) /\ NewPod(p).kind = "pod"
    BY <1>6, NewPodIsFit
<1>8. NewPod(p).kind \notin {"player"} \cup Bosses
    BY <1>7 DEF Bosses
<1>9. Sound(Create(d, NewPod(p)), {}) /\ Follows(d, Create(d, NewPod(p)))
    BY <1>5, <1>7, <1>8, CreateIsSound
<1>10. Sound(reg', {}) /\ Follows(reg, reg')
    BY <1>2, <1>5, <1>9, FollowsIsTransitive
<1> QED
    BY <1>2, <1>10, NothingElse DEF WorldInv, RestInv

LEMMA CollideKeeps ==
    ASSUME WorldInv, NEW e1, NEW e2, Collide(e1, e2)
    PROVE  Keeps /\ Met(e1, e2) /\ e1 \in crowd /\ e2 \in crowd
<1>1. CanMeet(e1, e2) /\ Met(e1, e2)
    BY DEF Collide, PlayerMeetsFoe, ShotHitsFoe, FoeHitsPlayer, FriendHitsPlayer,
           ShotLands, PlayersMeet, ShotsMeet, MeetsObstacle, TakesItem
<1>2. /\ e1 \in reg.valid /\ e2 \in reg.valid /\ e1 # e2
      /\ e1 \in crowd /\ e2 \in crowd
    BY <1>1, CanMeetFacts
<1>3. Sound(reg, {}) /\ e1 \in Numbers(reg) /\ e2 \in Numbers(reg)
    BY <1>2, ValidIsNumbered DEF WorldInv
<1>4. CASE PlayerMeetsFoe(e1, e2)
  <2>1. the(e1).kind = "player" /\ reg' = Hurt(reg, e1, 2) /\ UNCHANGED <<spawner, stray>>
      BY <1>4 DEF PlayerMeetsFoe
  <2>2. Sound(reg', {}) /\ Follows(reg, reg')
      BY <1>2, <1>3, <2>1, HurtIsSound DEF the
  <2> QED
      BY <1>1, <1>2, <2>1, <2>2, NothingElse DEF WorldInv, RestInv
<1>5. CASE ShotHitsFoe(e1, e2)
    BY <1>1, <1>2, <1>5, ShotHitsFoeKeeps
<1>6. CASE FoeHitsPlayer(e1, e2) \/ FriendHitsPlayer(e1, e2)
  <2>1. the(e1).kind \in Shots /\ the(e2).kind = "player"
      BY <1>6 DEF FoeHitsPlayer, FriendHitsPlayer, Shots
  <2>2. ShotLands(e1, e2, 4) \/ ShotLands(e1, e2, 3)
      BY <1>6 DEF FoeHitsPlayer, FriendHitsPlayer
  <2> QED
      BY <1>1, <1>2, <2>1, <2>2, ShotLandsKeeps
<1>7. CASE PlayersMeet(e1, e2)
  <2> DEFINE h == Hurt(reg, e1, 2)
  <2>1. /\ the(e1).kind = "player" /\ the(e2).kind = "player"
        /\ reg' = Hurt(h, e2, 2) /\ UNCHANGED <<spawner, stray>>
      BY <1>7 DEF PlayersMeet
  <2>2. Sound(h, {}) /\ Follows(reg, h) /\ h.valid = reg.valid
      BY <1>2, <1>3, <2>1, HurtIsSound DEF the
  <2> HIDE DEF h
  <2>3. e2 \in View(h, {"player"})
    <3>1. e2 \in View(reg, {"player"})
        BY <1>2, <2>1 DEF View, the
    <3> QED
        BY <2>2, <3>1 DEF Follows, Same
  <2>4. e2 \in h.valid /\ h.data[e2].kind = "player"
      BY <2>3 DEF View
  <2>5. Sound(reg', {}) /\ Follows(h, reg')
      BY <2>1, <2>2, <2>4, HurtIsSound
  <2>6. Follows(reg, reg')
      BY <2>2, <2>5, FollowsIsTransitive
  <2> QED
      BY <1>1, <1>2, <2>1, <2>5, <2>6, NothingElse DEF WorldInv, RestInv
<1>8. CASE ShotsMeet(e1, e2)
  <2> DEFINE r == Spent(reg, e1)
  <2>1. /\ the(e1).kind \in Shots /\ the(e2).kind = "eshot"
        /\ reg' = Destroy(r, {e2}) /\ UNCHANGED <<spawner, stray>>
      BY <1>8 DEF ShotsMeet, Shots
  <2>2. /\ Sound(r, {}) /\ Follows(reg, r)
        /\ \A x \in Numbers(reg) \ {e1} : r.data[x] = reg.data[x]
      BY <1>2, <1>3, <2>1, SpentIsSound DEF the
  <2> HIDE DEF r
  <2>3. {e2} \cap View(r, {"player"}) = {} /\ {} \ {e2} = {}
      BY <1>2, <1>3, <2>1, <2>2 DEF View, the
  <2>4. /\ Sound(Destroy(r, {e2}), {} \ {e2}) /\ Same(r, Destroy(r, {e2}))
        /\ Numbers(Destroy(r, {e2})) = Numbers(r)
      BY <2>2, <2>3, SoundDestroy
  <2>5. Sound(reg', {}) /\ Follows(r, reg')
      BY <2>1, <2>3, <2>4 DEF Follows
  <2>6. Follows(reg, reg')
      BY <2>2, <2>5, FollowsIsTransitive
  <2> QED
      BY <1>1, <1>2, <2>1, <2>5, <2>6, NothingElse DEF WorldInv, RestInv
<1>9. CASE MeetsObstacle(e1, e2)
  <2>1. /\ the(e1).kind \in {"player", "shot", "charge"}
        /\ reg' = IF the(e1).kind = "player" THEN reg ELSE Destroy(reg, {e1})
        /\ UNCHANGED <<spawner, stray>>
      BY <1>9 DEF MeetsObstacle
  <2>2. Sound(reg', {}) /\ Follows(reg, reg')
    <3>1. CASE the(e1).kind = "player"
        BY <1>3, <2>1, <3>1, FollowsIsReflexive
    <3>2. CASE the(e1).kind # "player"
      <4>1. {e1} \cap View(reg, {"player"}) = {} /\ {} \ {e1} = {}
          BY <3>2 DEF View, the
      <4>2. /\ Sound(Destroy(reg, {e1}), {} \ {e1}) /\ Same(reg, Destroy(reg, {e1}))
            /\ Numbers(Destroy(reg, {e1})) = Numbers(reg)
          BY <1>3, <4>1, SoundDestroy
      <4> QED
          BY <2>1, <3>2, <4>1, <4>2 DEF Follows
    <3> QED
        BY <3>1, <3>2
  <2> QED
      BY <1>1, <1>2, <2>1, <2>2, NothingElse DEF WorldInv, RestInv
<1>10. CASE TakesItem(e1, e2)
    BY <1>1, <1>2, <1>10, TakesItemKeeps
<1> QED
    BY <1>4, <1>5, <1>6, <1>7, <1>8, <1>9, <1>10 DEF Collide

----------------------------------------------------------------------------
(* A tick begins.                                                          *)

Grown == Spawned(Ticked(spawner).born)

LEMMA GrownIsSound ==
    ASSUME WorldInv
    PROVE  /\ Sound(Grown, {}) /\ Numbers(reg) \subseteq Numbers(Grown)
           /\ View(Grown, {"player"}) = View(reg, {"player"})
           /\ \A p \in View(reg, {"player"}) : Grown.data[p] = reg.data[p]
           /\ BossesLead /\ View(Grown, Bosses) \ View(reg, Bosses) # {}
              => spawner.warning
<1> DEFINE born == Ticked(spawner).born
           new == [i \in DOMAIN born |-> NewFoe(born[i])]
<1>1. /\ Sound(reg, {}) /\ Timed(spawner) /\ reg.valid \subseteq Numbers(reg)
    BY ValidIsNumbered DEF WorldInv
<1>2. /\ born \in Seq(Foes)
      /\ \A i \in DOMAIN born :
            /\ InLevels(spawner)
            /\ spawner.index + i \in DOMAIN Wave(spawner).enemies
            /\ born[i] = Wave(spawner).enemies[spawner.index + i].kind
            /\ OpensWithBoss(spawner) => spawner.warning
    BY <1>1, TickedIsSound DEF Births
<1>3. Grown = CreateAll(reg, new)
    BY DEF Grown, Spawned
<1> HIDE DEF born
<1>4. spawner \in SpawnerType /\ spawner.level \in Nat /\ spawner.wave \in Nat
      /\ spawner.index \in Nat /\ Len(Levels) \in Nat /\ DOMAIN Levels = 1..Len(Levels)
    BY <1>1, LevelsAssumption DEF Timed, SpawnerType
<1>5. ASSUME NEW i \in DOMAIN born, BossesLead, born[i] \in Bosses
      PROVE  /\ spawner.warning
             /\ born[i] = "boss1" => spawner.level + 1 < Len(Levels)
  <2> DEFINE l == spawner.level + 1
             w == spawner.wave + 1
             j == spawner.index + i
  <2>1. /\ l \in DOMAIN Levels /\ w \in DOMAIN Levels[l]
        /\ Wave(spawner) = Levels[l][w]
      BY <1>2, <1>4, WaveIsThere
  <2>2. j \in DOMAIN Levels[l][w].enemies /\ Levels[l][w].enemies[j].kind = born[i]
      BY <1>2, <2>1
  <2>3. w = 1 /\ j = 1 /\ (born[i] = "boss1" => l < Len(Levels))
      BY <1>5, <2>1, <2>2 DEF BossesLead
  <2>4. i \in Nat /\ i >= 1
      BY <1>2
  <2>5. spawner.wave = 0 /\ spawner.index = 0
      BY <1>4, <2>3, <2>4
  <2>6. OpensWithBoss(spawner)
      BY <1>5, <2>1, <2>2, <2>3, <2>5 DEF OpensWithBoss
  <2> QED
      BY <1>2, <2>3, <2>6
<1>6. \A i \in DOMAIN new : /\ Fit(new[i]) /\ Fresh(new[i])
                            /\ new[i].kind = born[i] /\ born[i] \in Foes
  <2> TAKE i \in DOMAIN new
  <2>1. i \in DOMAIN born /\ new[i] = NewFoe(born[i]) /\ born[i] \in Foes
      BY <1>2
  <2>2. BossesLead /\ born[i] = "boss1" => spawner.level + 1 < Len(Levels)
      BY <1>5, <2>1 DEF Bosses
  <2> QED
      BY <1>4, <2>1, <2>2, NewFoeIsFit
<1>7. new \in Seq(Components) /\ DOMAIN new = DOMAIN born
  <2>1. Len(born) \in Nat /\ DOMAIN born = 1..Len(born)
      BY <1>2
  <2>2. \A i \in 1..Len(born) : new[i] \in Components
      BY <1>6, <2>1 DEF Fit
  <2>3. new = [i \in 1..Len(born) |-> new[i]]
      BY <2>1
  <2> HIDE DEF new
  <2>4. new \in [1..Len(born) -> Components]
      BY <2>2, <2>3
  <2> QED
      BY <2>1, <2>3, <2>4
<1> HIDE DEF new
<1>8. /\ Sound(Grown, {}) /\ Numbers(reg) \subseteq Numbers(Grown)
      /\ reg.valid \subseteq Grown.valid
      /\ \A e \in Numbers(reg) : Grown.data[e] = reg.data[e]
      /\ \A e \in Grown.valid \ reg.valid :
            \E i \in DOMAIN new : Grown.data[e] = new[i]
    BY <1>1, <1>3, <1>6, <1>7, SoundCreateAll
<1>9. \A e \in Grown.valid \ reg.valid :
         \E i \in DOMAIN born : Grown.data[e].kind = born[i] /\ born[i] \in Foes
  <2> TAKE e \in Grown.valid \ reg.valid
  <2>1. PICK i \in DOMAIN new : Grown.data[e] = new[i]
      BY <1>8
  <2>2. i \in DOMAIN born /\ new[i].kind = born[i] /\ born[i] \in Foes
      BY <1>6, <1>7
  <2> QED
      BY <2>1, <2>2
<1>10. View(Grown, {"player"}) = View(reg, {"player"})
  <2>1. \A e \in Grown.valid \ reg.valid : Grown.data[e].kind # "player"
      BY <1>9 DEF Foes, Bosses
  <2> QED
      BY <1>1, <1>8, <2>1 DEF View
<1>11. \A p \in View(reg, {"player"}) : Grown.data[p] = reg.data[p]
    BY <1>1, <1>8 DEF View
<1>12. BossesLead /\ View(Grown, Bosses) \ View(reg, Bosses) # {} => spawner.warning
  <2> SUFFICES ASSUME BossesLead, NEW e \in View(Grown, Bosses) \ View(reg, Bosses)
               PROVE  spawner.warning
      OBVIOUS
  <2>1. e \in Grown.valid \ reg.valid /\ Grown.data[e].kind \in Bosses
      BY <1>1, <1>8 DEF View
  <2>2. PICK i \in DOMAIN born : Grown.data[e].kind = born[i]
      BY <1>9, <2>1
  <2> QED
      BY <1>5, <2>1, <2>2
<1> QED
    BY <1>8, <1>10, <1>11, <1>12

----------------------------------------------------------------------------
(* A tick ends.                                                            *)

LEMMA SetToSeqLists ==
    ASSUME NEW S, IsFiniteSet(S)
    PROVE  /\ SetToSeq(S) \in Seq(S)
           /\ \A i \in DOMAIN SetToSeq(S) : SetToSeq(S)[i] \in S
<1>1. PICK n \in Nat : ExistsBijection(1..n, S)
    BY FS_NatBijection
<1>2. Cardinality(S) = n
    BY <1>1, FS_CountingElements
<1>3. PICK f : f \in Bijection(1..n, S)
    BY <1>1 DEF ExistsBijection
<1>4. f \in [1..n -> S] /\ IsInjective(f)
    BY <1>3 DEF Bijection, Injection, IsInjective
<1>5. SetToSeq(S) \in [1..n -> S]
    BY <1>2, <1>4 DEF SetToSeq
<1> QED
    BY <1>5

(* The fields of an EXCEPT on the data of a registry.                      *)
LEMMA DataIs ==
    ASSUME NEW r, IsRegistry(r), NEW F
    PROVE  [r EXCEPT !.data = F] = [next |-> r.next, valid |-> r.valid, data |-> F]
BY DEF IsRegistry

LEMMA DataDomain ==
    ASSUME NEW r, NEW X, Sound(r, X)
    PROVE  /\ IsRegistry(r) /\ DOMAIN r.data = Numbers(r)
           /\ \A e \in Numbers(r) : Fit(r.data[e])
BY DEF Sound, RegistryOK

LEMMA AfterLivesIsSound ==
    ASSUME NEW r, Sound(r, {})
    PROVE  LET s == AfterLives(r)
           IN  /\ Sound(s, {}) /\ Numbers(s) = Numbers(r)
               /\ View(s, Bosses) \subseteq View(r, Bosses)
               /\ View(s, {"player"}) =
                     {p \in View(r, {"player"}) :
                        ~(r.data[p].hp <= 0 /\ r.data[p].lives <= 1)}
               /\ \A p \in View(r, {"player"}) :
                     /\ s.data[p].id = r.data[p].id
                     /\ r.data[p].hp > 0 => s.data[p].lives = r.data[p].lives
                     /\ ~(r.data[p].hp > 0) => s.data[p].lives = r.data[p].lives - 1
<1> DEFINE players == View(r, {"player"})
           out == {p \in players : r.data[p].hp <= 0 /\ r.data[p].lives <= 1}
           d == Destroy(r, out)
           F == [e \in Numbers(r) |-> IF e \in players THEN Judged(r.data[e])
                                      ELSE r.data[e]]
           s == [next |-> r.next, valid |-> r.valid \ out, data |-> F]
<1>1. IsRegistry(r) /\ DOMAIN r.data = Numbers(r)
    BY DataDomain
<1>2. d = [next |-> r.next, valid |-> r.valid \ out, data |-> r.data]
    BY <1>1, DestroyIs
<1> HIDE DEF d
<1>3. AfterLives(r) = s
  <2>1. AfterLives(r) = [d EXCEPT !.data =
             [e \in DOMAIN d.data |-> IF e \in players THEN Judged(d.data[e])
                                      ELSE d.data[e]]]
      BY DEF AfterLives, d
  <2>2. d.data = r.data /\ IsRegistry(d) /\ d.next = r.next /\ d.valid = r.valid \ out
      BY <1>2 DEF IsRegistry
  <2>3. AfterLives(r) = [d EXCEPT !.data = F]
      BY <1>1, <2>1, <2>2
  <2> HIDE DEF F
  <2> QED
      BY <2>2, <2>3, DataIs
<1>4. \A p \in players : /\ p \in r.valid /\ p \in Numbers(r)
                         /\ Fit(r.data[p]) /\ Fresh(r.data[p])
                         /\ r.data[p].kind = "player"
                         /\ r.data[p].hp \in Nat /\ r.data[p].lives \in Nat
    BY ValidIsNumbered DEF View, Components
<1>5. \A p \in players :
         /\ Fit(F[p]) /\ F[p].kind = "player" /\ F[p].id = r.data[p].id
         /\ r.data[p].hp > 0 => F[p].lives = r.data[p].lives
         /\ ~(r.data[p].hp > 0) => F[p].lives = r.data[p].lives - 1
  <2> TAKE p \in players
  <2>1. F[p] = Judged(r.data[p])
      BY <1>4
  <2> HIDE DEF F, players
  <2>2. Fit(r.data[p]) /\ Fresh(r.data[p]) /\ r.data[p].kind = "player"
      BY <1>4
  <2> QED
      BY <2>1, <2>2, JudgedIsFit
<1>6. \A e \in Numbers(r) \ players : F[e] = r.data[e]
    OBVIOUS
<1>7. DOMAIN F = Numbers(r) /\ F = [e \in Numbers(r) |-> F[e]]
    OBVIOUS
<1> HIDE DEF F
<1>8. \A e \in Numbers(r) : Fit(F[e])
    BY <1>5, <1>6, DataDomain
<1>9. \A e \in r.valid \ out : Fresh(F[e])
  <2> TAKE e \in r.valid \ out
  <2>1. CASE e \in players
    <3>1. Fresh(r.data[e]) /\ r.data[e].kind = "player"
        BY <1>4, <2>1
    <3>2. r.data[e].lives >= 1 /\ r.data[e].lives \in Nat /\ r.data[e].hp \in Nat
        BY <1>4, <2>1, <3>1 DEF Fresh
    <3>3. ~(r.data[e].hp > 0) => r.data[e].lives > 1
        BY <2>1, <3>2
    <3>4. F[e].lives >= 1 /\ F[e].kind = "player"
        BY <1>5, <2>1, <3>2, <3>3
    <3> QED
        BY <3>4 DEF Fresh, Foes, Bosses
  <2>2. CASE e \notin players
      BY <1>6, <2>2, ValidIsNumbered
  <2> QED
      BY <2>1, <2>2
<1>10. d.next = r.next /\ d.valid = r.valid \ out /\ Numbers(d) = Numbers(r)
    BY <1>2 DEF Numbers
<1>11. Sound(d, {})
  <2>1. Sound(d, {} \ out)
      BY SoundDestroy DEF d
  <2>2. {} \ out = {}
      OBVIOUS
  <2> QED
      BY <2>1, <2>2
<1>12. Sound(s, {}) /\ Numbers(s) = Numbers(r)
  <2>1. Sound([next |-> d.next, valid |-> d.valid, data |-> F], {})
      BY <1>7, <1>8, <1>9, <1>10, <1>11, SoundMap
  <2>2. Numbers(s) = Numbers(r)
      BY DEF Numbers
  <2> QED
      BY <1>10, <2>1, <2>2
<1>13. s.valid = r.valid \ out /\ s.data = F
    OBVIOUS
<1> HIDE DEF s
<1>14. View(s, {"player"}) = players \ out
  <2>1. r.valid \subseteq Numbers(r)
      BY ValidIsNumbered
  <2> QED
      BY <1>4, <1>5, <1>6, <1>13, <2>1 DEF View
<1>15. players \ out = {p \in players : ~(r.data[p].hp <= 0 /\ r.data[p].lives <= 1)}
    OBVIOUS
<1>16. View(s, Bosses) \subseteq View(r, Bosses)
  <2>1. r.valid \subseteq Numbers(r) /\ "player" \notin Bosses
      BY ValidIsNumbered DEF Bosses
  <2> QED
      BY <1>5, <1>6, <1>13, <2>1 DEF View
<1> HIDE DEF players, out
<1>17. /\ View(s, {"player"}) = {p \in players :
                                   ~(r.data[p].hp <= 0 /\ r.data[p].lives <= 1)}
       /\ \A p \in players :
             /\ s.data[p].id = r.data[p].id
             /\ r.data[p].hp > 0 => s.data[p].lives = r.data[p].lives
             /\ ~(r.data[p].hp > 0) => s.data[p].lives = r.data[p].lives - 1
    BY <1>5, <1>13, <1>14, <1>15
<1> QED
    BY <1>3, <1>12, <1>16, <1>17 DEF players

(* A change of every entity that leaves what Like and Fresh speak of.      *)
LEMMA EveryoneEdited ==
    ASSUME NEW r, Sound(r, {}), NEW F, F = [e \in Numbers(r) |-> F[e]],
           \A e \in Numbers(r) : /\ Fit(F[e]) /\ Like(F[e], r.data[e])
                                 /\ Fresh(r.data[e]) => Fresh(F[e])
    PROVE  LET s == [r EXCEPT !.data = F]
           IN  Sound(s, {}) /\ Follows(r, s) /\ s.valid = r.valid /\ s.data = F
<1> DEFINE s == [next |-> r.next, valid |-> r.valid, data |-> F]
<1>1. [r EXCEPT !.data = F] = s
    BY DataDomain, DataIs
<1>2. \A e \in r.valid \ {} : Fresh(F[e])
    BY ValidIsNumbered
<1>3. DOMAIN F = Numbers(r) /\ \A e \in Numbers(r) : Fit(F[e])
    OBVIOUS
<1>4. Sound(s, {})
    BY <1>2, <1>3, SoundMap
<1>5. s.valid = r.valid /\ s.data = F /\ s.next = r.next
    OBVIOUS
<1> HIDE DEF s
<1>6. Numbers(s) = Numbers(r)
    BY <1>5 DEF Numbers
<1>7. Same(r, s)
  <2>1. r.valid \subseteq Numbers(r)
      BY ValidIsNumbered
  <2>2. \A e \in r.valid : F[e].kind = r.data[e].kind /\ F[e].id = r.data[e].id
                           /\ F[e].lives = r.data[e].lives
      BY <2>1 DEF Like
  <2> QED
      BY <1>5, <2>2 DEF Same, View
<1> QED
    BY <1>1, <1>4, <1>5, <1>6, <1>7 DEF Follows

LEMMA Triggered ==
    ASSUME NEW c, Fit(c), NEW t \in {"none", "shot", "charge"}
    PROVE  LET d == [c EXCEPT !.trigger = t]
           IN  Fit(d) /\ Like(d, c) /\ (Fresh(c) => Fresh(d)) /\ d.trigger = t
<1> DEFINE d == [c EXCEPT !.trigger = t]
<1>1. Fit(d) /\ Like(d, c) /\ d.hp = c.hp /\ d.hits = c.hits /\ d.trigger = t
    BY TriggerEdit
<1> HIDE DEF d
<1>2. Fit(d) /\ Like(d, c) /\ (Fresh(c) => Fresh(d)) /\ d.trigger = t
    BY <1>1 DEF Fresh, Like
<1> QED
    BY <1>2 DEF d

LEMMA AfterPodsIsSound ==
    ASSUME NEW r, Sound(r, {})
    PROVE  Sound(AfterPods(r), {}) /\ Follows(r, AfterPods(r))
<1> DEFINE led == {d \in View(r, {"pod"}) : IsValid(r, r.data[d].owner)}
           F == [e \in Numbers(r) |->
                   IF e \in led THEN [r.data[e] EXCEPT !.trigger =
                                        r.data[r.data[e].owner].trigger]
                   ELSE r.data[e]]
<1>1. AfterPods(r) = [r EXCEPT !.data = F]
    BY DataDomain DEF AfterPods
<1>2. \A e \in led : r.data[r.data[e].owner].trigger \in {"none", "shot", "charge"}
    BY ValidIsNumbered DEF IsValid, Components
<1>3. \A e \in Numbers(r) : Fit(r.data[e])
    BY DataDomain
<1>4. ASSUME NEW e \in Numbers(r)
      PROVE  /\ Fit(F[e]) /\ Like(F[e], r.data[e])
             /\ Fresh(r.data[e]) => Fresh(F[e])
  <2>1. CASE e \in led
    <3> DEFINE t == r.data[r.data[e].owner].trigger
    <3>1. F[e] = [r.data[e] EXCEPT !.trigger = t]
        BY <2>1
    <3>2. t \in {"none", "shot", "charge"} /\ Fit(r.data[e])
        BY <1>2, <1>3, <2>1
    <3> HIDE DEF t, F
    <3> DEFINE d == [r.data[e] EXCEPT !.trigger = t]
    <3>3. Fit(d) /\ Like(d, r.data[e]) /\ (Fresh(r.data[e]) => Fresh(d))
        BY <3>2, Triggered
    <3> QED
        BY <3>1, <3>3
  <2>2. CASE e \notin led
      BY <1>3, <2>2 DEF Like
  <2> QED
      BY <2>1, <2>2
<1>5. F = [e \in Numbers(r) |-> F[e]]
    OBVIOUS
<1> HIDE DEF F
<1> QED
    BY <1>1, <1>4, <1>5, EveryoneEdited

LEMMA AfterScoreIsSound ==
    ASSUME NEW r, Sound(r, {})
    PROVE  Sound(AfterScore(r), {}) /\ Follows(r, AfterScore(r))
<1> DEFINE F == [e \in Numbers(r) |-> IF e \in View(r, {"player"})
                                      THEN Scored(r.data[e]) ELSE r.data[e]]
<1>1. AfterScore(r) = [r EXCEPT !.data = F]
    BY DataDomain DEF AfterScore
<1>2. ASSUME NEW e \in Numbers(r)
      PROVE  /\ Fit(F[e]) /\ Like(F[e], r.data[e])
             /\ Fresh(r.data[e]) => Fresh(F[e])
  <2>1. Fit(r.data[e])
      BY DataDomain
  <2>2. F[e] = Scored(r.data[e]) \/ F[e] = r.data[e]
      OBVIOUS
  <2> HIDE DEF F
  <2> QED
      BY <2>1, <2>2, ScoredIsFit DEF Like
<1>3. F = [e \in Numbers(r) |-> F[e]]
    OBVIOUS
<1> HIDE DEF F
<1> QED
    BY <1>1, <1>2, <1>3, EveryoneEdited

LEMMA AfterWeaponsIsSound ==
    ASSUME NEW r, Sound(r, {}), NEW fired \in SUBSET Armed(r)
    PROVE  LET w == AfterWeapons(r, SetToSeq(fired))
           IN  Sound(w, {}) /\ Follows(r, w)
<1> DEFINE firing == SetToSeq(fired)
           calm == {firing[i] : i \in DOMAIN firing}
           F == [e \in Numbers(r) |-> IF e \in calm
                   THEN [r.data[e] EXCEPT !.trigger = "none"] ELSE r.data[e]]
           new == [i \in DOMAIN firing |->
                     NewShot(ShotOf(r.data[firing[i]]), firing[i])]
           c == Calmed(r, calm)
<1>1. fired \subseteq r.valid /\ r.valid \subseteq Numbers(r) /\ r.valid \subseteq Nat
    BY ValidIsNumbered DEF Armed, View
<1>2. IsFiniteSet(fired)
  <2>1. r.next \in Nat
      BY DEF Sound, RegistryOK
  <2>2. 0 \in Int /\ r.next - 1 \in Int
      BY <2>1
  <2>3. IsFiniteSet(0..(r.next - 1))
      BY <2>2, FS_Interval
  <2> QED
      BY <1>1, <2>3, FS_Subset DEF Numbers
<1>3. firing \in Seq(fired) /\ \A i \in DOMAIN firing : firing[i] \in fired
    BY <1>2, SetToSeqLists
<1>4. AfterWeapons(r, firing) = CreateAll(c, new)
    BY DEF AfterWeapons
<1>5. c = [r EXCEPT !.data = F]
    BY DataDomain DEF Calmed
<1> HIDE DEF firing
<1>6. ASSUME NEW e \in Numbers(r)
      PROVE  /\ Fit(F[e]) /\ Like(F[e], r.data[e])
             /\ Fresh(r.data[e]) => Fresh(F[e])
  <2> DEFINE d == [r.data[e] EXCEPT !.trigger = "none"]
  <2>1. Fit(r.data[e])
      BY DataDomain
  <2>2. Fit(d) /\ Like(d, r.data[e]) /\ (Fresh(r.data[e]) => Fresh(d))
      BY <2>1, Triggered
  <2>3. F[e] = d \/ F[e] = r.data[e]
      OBVIOUS
  <2> HIDE DEF F, d
  <2> QED
      BY <2>1, <2>2, <2>3 DEF Like
<1>7. F = [e \in Numbers(r) |-> F[e]]
    OBVIOUS
<1> HIDE DEF F
<1>8. Sound(c, {}) /\ Follows(r, c)
    BY <1>5, <1>6, <1>7, EveryoneEdited
<1> HIDE DEF c
<1>9. ASSUME NEW i \in DOMAIN firing
      PROVE  Fit(new[i]) /\ Fresh(new[i]) /\ new[i].kind \in Shots
  <2> DEFINE o == firing[i]
             k == ShotOf(r.data[o])
  <2>1. o \in fired /\ o \in Nat /\ o \in r.valid
      BY <1>1, <1>3
  <2>2. r.data[o] \in Components
      BY <2>1, ValidIsNumbered
  <2>3. \/ r.data[o].kind \in Foes
        \/ r.data[o].kind = "pod"
        \/ r.data[o].kind = "player" /\ r.data[o].trigger # "none"
      BY <2>1 DEF Armed, View
  <2>4. r.data[o].trigger \in {"none", "shot", "charge"}
      BY <2>2 DEF Components
  <2>5. k \in Shots
    <3>1. CASE r.data[o].kind \in Foes
        BY <3>1 DEF ShotOf, Shots, Foes, Bosses
    <3>2. CASE r.data[o].kind = "pod"
        BY <3>2 DEF ShotOf, Shots, Foes, Bosses
    <3>3. CASE r.data[o].kind = "player" /\ r.data[o].trigger # "none"
        BY <2>4, <3>3 DEF ShotOf, Shots, Foes, Bosses
    <3> QED
        BY <2>3, <3>1, <3>2, <3>3
  <2>6. new[i] = NewShot(k, o)
      OBVIOUS
  <2> HIDE DEF k, o, new
  <2> QED
      BY <2>1, <2>5, <2>6, NewShotIsFit
<1>10. new \in Seq(Components) /\ DOMAIN new = DOMAIN firing
  <2>1. Len(firing) \in Nat /\ DOMAIN firing = 1..Len(firing)
      BY <1>3
  <2>2. \A i \in 1..Len(firing) : new[i] \in Components
      BY <1>9, <2>1 DEF Fit
  <2>3. new = [i \in 1..Len(firing) |-> new[i]] /\ DOMAIN new = DOMAIN firing
      BY <2>1
  <2> HIDE DEF new
  <2>4. new \in [1..Len(firing) -> Components]
      BY <2>2, <2>3
  <2> QED
      BY <2>1, <2>3, <2>4
<1> HIDE DEF new
<1>11. \A i \in DOMAIN new : Fit(new[i]) /\ Fresh(new[i])
                             /\ new[i].kind \notin {"player"} \cup Bosses
    BY <1>9, <1>10 DEF Shots, Bosses
<1>12. /\ Sound(CreateAll(c, new), {}) /\ Numbers(c) \subseteq Numbers(CreateAll(c, new))
       /\ Same(c, CreateAll(c, new))
    BY <1>8, <1>10, <1>11, SoundCreateAll
<1>13. Follows(r, CreateAll(c, new))
    BY <1>8, <1>12, FollowsIsTransitive DEF Follows
<1> QED
    BY <1>4, <1>12, <1>13 DEF firing

LEMMA Vanished ==
    ASSUME NEW r, Sound(r, {}), NEW gone, gone \cap View(r, {"player"}) = {}
    PROVE  Sound(Destroy(r, gone), {}) /\ Follows(r, Destroy(r, gone))
<1>1. {} \ gone = {}
    OBVIOUS
<1>2. /\ Sound(Destroy(r, gone), {} \ gone) /\ Same(r, Destroy(r, gone))
      /\ Numbers(Destroy(r, gone)) = Numbers(r)
    BY SoundDestroy
<1> QED
    BY <1>1, <1>2 DEF Follows

LEMMA FinishTickIsSound ==
    ASSUME Sound(reg, {}), FinishTick
    PROVE  Sound(reg', {}) /\ Follows(AfterLives(reg), reg')
<1> DEFINE l == AfterLives(reg)
           lived == AfterPods(l)
<1>1. PICK fired \in SUBSET Armed(lived) :
         \E gone \in SUBSET View(lived, Shots) :
            reg' = AfterScore(Destroy(AfterWeapons(lived, SetToSeq(fired)), gone))
    BY DEF FinishTick
<1>2. PICK gone \in SUBSET View(lived, Shots) :
         reg' = AfterScore(Destroy(AfterWeapons(lived, SetToSeq(fired)), gone))
    BY <1>1
<1>3. Sound(l, {})
    BY AfterLivesIsSound
<1> HIDE DEF l
<1>4. Sound(lived, {}) /\ Follows(l, lived)
    BY <1>3, AfterPodsIsSound
<1> HIDE DEF lived
<1> DEFINE w == AfterWeapons(lived, SetToSeq(fired))
<1>5. Sound(w, {}) /\ Follows(lived, w)
    BY <1>4, AfterWeaponsIsSound
<1> HIDE DEF w
<1>6. gone \cap View(w, {"player"}) = {}
  <2>1. gone \cap View(lived, {"player"}) = {}
      BY DEF View, Shots
  <2> QED
      BY <1>5, <2>1 DEF Follows, Same
<1> DEFINE d == Destroy(w, gone)
<1>7. Sound(d, {}) /\ Follows(w, d)
    BY <1>5, <1>6, Vanished
<1> HIDE DEF d
<1>8. Sound(AfterScore(d), {}) /\ Follows(d, AfterScore(d))
    BY <1>7, AfterScoreIsSound
<1>9. Follows(l, AfterScore(d))
    BY <1>4, <1>5, <1>7, <1>8, FollowsIsTransitive
<1>10. reg' = AfterScore(d)
    BY <1>2 DEF d, w
<1> QED
    BY <1>8, <1>9, <1>10 DEF l

LEMMA StartTickIsSound ==
    ASSUME WorldInv, StartTick
    PROVE  /\ Sound(reg', {}) /\ Numbers(reg) \subseteq Numbers(reg')
           /\ View(reg', {"player"}) = View(reg, {"player"})
           /\ \A p \in View(reg, {"player"}) :
                 reg'.data[p].id = reg.data[p].id
                 /\ reg'.data[p].lives = reg.data[p].lives
           /\ BossesLead => BossStep
<1>1. PICK gone \in SUBSET Loose(Grown) : reg' = Destroy(Grown, gone)
    BY DEF StartTick, Grown
<1>2. /\ Sound(Grown, {}) /\ Numbers(reg) \subseteq Numbers(Grown)
      /\ View(Grown, {"player"}) = View(reg, {"player"})
      /\ \A p \in View(reg, {"player"}) : Grown.data[p] = reg.data[p]
      /\ BossesLead /\ View(Grown, Bosses) \ View(reg, Bosses) # {}
         => spawner.warning
    BY GrownIsSound
<1>3. gone \cap View(Grown, {"player"}) = {}
    BY DEF Loose, View, Foes, Bosses, Shots
<1>4. Sound(reg', {}) /\ Follows(Grown, reg')
    BY <1>1, <1>2, <1>3, Vanished
<1>5. BossesLead => BossStep
    BY <1>2, <1>4 DEF BossStep, BossesIn, Follows, Same
<1> QED
    BY <1>2, <1>4, <1>5 DEF Follows, Same

----------------------------------------------------------------------------
(* The invariant holds.                                                    *)

LEMMA WorldInit == Init => WorldInv
<1> SUFFICES ASSUME Init
             PROVE  WorldInv
    OBVIOUS
<1>1. Sound(Cleared, {})
  <2>1. Cleared.next = 0 /\ Cleared.valid = {} /\ Cleared.data = [e \in {} |-> 0]
        /\ IsRegistry(Cleared)
      BY DEF Cleared, IsRegistry
  <2>2. Numbers(Cleared) = {}
      BY <2>1 DEF Numbers
  <2>3. Cleared.data \in [{} -> Components]
      BY <2>1
  <2> QED
      BY <2>1, <2>2, <2>3 DEF Sound, RegistryOK
<1>2. reg = Create(Cleared, Plain)
    BY DEF Init
<1>3. Sound(reg, {})
    BY <1>1, <1>2, PlainIsFit, CreateIsSound
<1>4. spawner = FirstSpawner
    BY DEF Init
<1>5. Timed(spawner) /\ spawner.level = 0
  <2>1. 0 \in 0..MaxTimer /\ 0 \in 0..WarningTime /\ 0 \in Nat
      BY Facts
  <2>2. FirstSpawner \in SpawnerType
      BY <2>1 DEF FirstSpawner, SpawnerType
  <2> QED
      BY <1>4, <2>2 DEF Timed, FirstSpawner
<1>6. LevelInv
  <2>1. Levels # <<>> => Len(Levels) > 0
      BY LevelsAssumption
  <2> QED
      BY <1>5, <2>1 DEF LevelInv, BossesLead, OutOfLevels
<1>7. RestInv
  <2>1. 0 \in 0..MaxId
      BY Facts
  <2> QED
      BY <2>1 DEF Init, RestInv
<1>8. CrowdInv
    BY DEF Init, CrowdInv
<1> QED
    BY <1>3, <1>5, <1>6, <1>7, <1>8 DEF WorldInv

LEMMA SameSpawner ==
    ASSUME WorldInv, UNCHANGED <<spawner, stray>>
    PROVE  Timed(spawner') /\ LevelInv'
BY DEF WorldInv, Timed, LevelInv, OutOfLevels

LEMMA SameCrowd ==
    ASSUME WorldInv, UNCHANGED <<crowd, met>>, Numbers(reg) \subseteq Numbers(reg')
    PROVE  CrowdInv'
BY DEF WorldInv, CrowdInv

LEMMA JoinIsSound ==
    ASSUME WorldInv, NEW k \in Keys, Join(k)
    PROVE  /\ lastId' \in Ids /\ lastId' = lastId + 1
           /\ Fit(NewPlayer(lastId')) /\ Fresh(NewPlayer(lastId'))
           /\ NewPlayer(lastId').kind = "player" /\ NewPlayer(lastId').id = lastId'
           /\ NewPlayer(lastId').lives = InitialLives
           /\ reg' = Create(reg, NewPlayer(lastId'))
<1>1. lastId' = lastId + 1 /\ lastId < MaxId /\ reg' = Create(reg, NewPlayer(lastId'))
    BY DEF Join
<1>2. lastId \in 0..MaxId
    BY DEF WorldInv, RestInv
<1>3. lastId' \in Ids
    BY <1>1, <1>2, Facts DEF Ids
<1> QED
    BY <1>1, <1>3, NewPlayerIsFit

LEMMA ShootIsSound ==
    ASSUME WorldInv, NEW k, NEW shot \in {"shot", "charge"}, Shoot(k, shot)
    PROVE  Sound(reg', {}) /\ Follows(reg, reg')
<1>1. PICK e \in Players : reg' = Put(reg, e, [the(e) EXCEPT !.trigger = shot])
    BY DEF Shoot
<1> DEFINE d == [reg.data[e] EXCEPT !.trigger = shot]
<1>2. e \in reg.valid /\ e \in Numbers(reg) /\ Fit(reg.data[e]) /\ Fresh(reg.data[e])
      /\ Sound(reg, {})
    BY ValidIsNumbered DEF WorldInv, Players, View
<1>3. Fit(d) /\ Like(d, reg.data[e]) /\ Fresh(d)
    BY <1>2, Triggered
<1> HIDE DEF d
<1>4. d.kind = reg.data[e].kind /\ d.id = reg.data[e].id /\ d.lives = reg.data[e].lives
    BY <1>3 DEF Like
<1>5. Sound(Put(reg, e, d), {}) /\ Same(reg, Put(reg, e, d))
    BY <1>2, <1>3, <1>4, SoundPut
<1>6. Numbers(Put(reg, e, d)) = Numbers(reg)
    BY <1>2, PutKeepsNumbers DEF Sound
<1>7. reg' = Put(reg, e, d)
    BY <1>1 DEF d, the
<1> QED
    BY <1>5, <1>6, <1>7 DEF Follows

LEMMA WorldNext == WorldInv /\ [Next]_vars => WorldInv'
<1> SUFFICES ASSUME WorldInv, [Next]_vars
             PROVE  WorldInv'
    OBVIOUS
<1>1. Sound(reg, {}) /\ reg.valid \subseteq Numbers(reg)
    BY ValidIsNumbered DEF WorldInv
<1>2. CASE UNCHANGED vars
    BY <1>2 DEF vars, WorldInv, Timed, LevelInv, OutOfLevels, RestInv, CrowdInv
<1>3. ASSUME NEW k \in Keys, Join(k)
      PROVE  WorldInv'
  <2>1. /\ lastId' \in Ids /\ Fit(NewPlayer(lastId')) /\ Fresh(NewPlayer(lastId'))
        /\ reg' = Create(reg, NewPlayer(lastId'))
      BY <1>3, JoinIsSound
  <2>2. Sound(reg', {}) /\ Numbers(reg) \subseteq Numbers(reg')
      BY <1>1, <2>1, CreateIsSound
  <2>3. /\ UNCHANGED <<spawner, phase, crowd, met, stray>>
        /\ seats' = [seats EXCEPT ![k] = lastId']
      BY <1>3 DEF Join
  <2>4. lastId' \in 0..MaxId
      BY <2>1, Facts DEF Ids
  <2>5. RestInv'
      BY <2>3, <2>4 DEF WorldInv, RestInv
  <2> QED
      BY <2>2, <2>3, <2>5, SameSpawner, SameCrowd DEF WorldInv
<1>4. ASSUME NEW k \in Keys, LeaveWorld(k)
      PROVE  WorldInv'
  <2>1. PICK e \in Players : reg' = Destroy(reg, {e})
      BY <1>4 DEF LeaveWorld
  <2>2. UNCHANGED <<spawner, seats, lastId, phase, crowd, met, stray>>
      BY <1>4 DEF LeaveWorld
  <2>3. Sound(reg', {}) /\ Numbers(reg') = Numbers(reg)
    <3>1. {} \ {e} = {}
        OBVIOUS
    <3>2. Sound(Destroy(reg, {e}), {} \ {e}) /\ Numbers(Destroy(reg, {e})) = Numbers(reg)
        BY <1>1, SoundDestroy
    <3> QED
        BY <2>1, <3>1, <3>2
  <2>4. RestInv'
      BY <2>2 DEF WorldInv, RestInv
  <2> QED
      BY <2>2, <2>3, <2>4, SameSpawner, SameCrowd DEF WorldInv
<1>5. ASSUME NEW k \in Keys, LeaveRoom(k)
      PROVE  WorldInv'
  <2>1. /\ UNCHANGED <<reg, spawner, lastId, phase, crowd, met, stray>>
        /\ seats' = [seats EXCEPT ![k] = 0]
      BY <1>5 DEF LeaveRoom
  <2>2. 0 \in 0..MaxId
      BY Facts
  <2>3. RestInv'
      BY <2>1, <2>2 DEF WorldInv, RestInv
  <2> QED
      BY <1>1, <2>1, <2>3, SameSpawner, SameCrowd DEF WorldInv
<1>6. ASSUME NEW k \in Keys, NEW shot \in {"shot", "charge"}, Shoot(k, shot)
      PROVE  WorldInv'
  <2>1. Sound(reg', {}) /\ Follows(reg, reg')
      BY <1>6, ShootIsSound
  <2>2. UNCHANGED <<spawner, seats, lastId, phase, crowd, met, stray>>
      BY <1>6 DEF Shoot
  <2>3. RestInv'
      BY <2>2 DEF WorldInv, RestInv
  <2> QED
      BY <2>1, <2>2, <2>3, SameSpawner, SameCrowd DEF WorldInv, Follows
<1>7. CASE StartTick
  <2>1. Sound(reg', {}) /\ Numbers(reg) \subseteq Numbers(reg')
      BY <1>7, StartTickIsSound
  <2>2. /\ spawner' = Ticked(spawner).spawner /\ phase' = "collide"
        /\ crowd' = reg'.valid /\ met' = {} /\ UNCHANGED <<seats, lastId, stray>>
      BY <1>7 DEF StartTick
  <2>3. Timed(spawner') /\ (~OutOfLevels(spawner) => ~OutOfLevels(spawner'))
      BY <2>2, TickedIsSound DEF WorldInv
  <2>4. LevelInv'
      BY <2>2, <2>3 DEF WorldInv, LevelInv, OutOfLevels
  <2>5. RestInv'
      BY <2>2 DEF WorldInv, RestInv
  <2>6. reg'.valid \subseteq Numbers(reg')
      BY <2>1, ValidIsNumbered
  <2>7. CrowdInv'
      BY <2>2, <2>6 DEF CrowdInv
  <2> QED
      BY <2>1, <2>3, <2>4, <2>5, <2>7 DEF WorldInv
<1>8. ASSUME NEW e1 \in crowd, NEW e2 \in crowd, Collide(e1, e2)
      PROVE  WorldInv'
  <2>1. Keeps /\ Met(e1, e2)
      BY <1>8, CollideKeeps
  <2>2. UNCHANGED <<seats, lastId, phase, crowd>>
        /\ met' = {m \in met \cup {{e1, e2}} : m \subseteq reg'.valid}
      BY <2>1 DEF Met
  <2>3. RestInv'
      BY <2>1, <2>2 DEF WorldInv, RestInv, Keeps
  <2>4. CrowdInv'
      BY <2>1, <2>2 DEF WorldInv, CrowdInv, Keeps, Follows
  <2> QED
      BY <2>1, <2>3, <2>4 DEF WorldInv, Keeps
<1>9. CASE FinishTick
  <2>1. Sound(reg', {})
      BY <1>1, <1>9, FinishTickIsSound
  <2>2. /\ UNCHANGED <<spawner, seats, lastId, stray>> /\ phase' = "idle"
        /\ crowd' = {} /\ met' = {}
      BY <1>9 DEF FinishTick
  <2>3. RestInv'
      BY <2>2 DEF WorldInv, RestInv
  <2>4. CrowdInv'
      BY <2>2 DEF CrowdInv
  <2> QED
      BY <2>1, <2>2, <2>3, <2>4, SameSpawner DEF WorldInv
<1> QED
    BY <1>2, <1>3, <1>4, <1>5, <1>6, <1>7, <1>8, <1>9 DEF Next, Clients, Tick

----------------------------------------------------------------------------
(* Theorems.                                                               *)

(* The registry and what systems keep beside it stay well formed.          *)
THEOREM TypeCorrect == Spec => []TypeOK
<1>1. WorldInv => TypeOK
    BY DEF WorldInv, TypeOK, Sound, Timed, RestInv, CrowdInv
<1> QED
    BY <1>1, WorldInit, WorldNext, PTL DEF Spec

(* CollisionSystem destroys a shot at its first hit, and no later pair of  *)
(* the same tick can meet what is destroyed: a shot hits one thing.        *)
THEOREM ShotsHitOnce == Spec => []OneHitPerShot
<1>1. WorldInv => OneHitPerShot
    BY DEF WorldInv, OneHitPerShot, Sound, Fit, Bounded, the
<1> QED
    BY <1>1, WorldInit, WorldNext, PTL DEF Spec

(* LivesSystem takes a player out of collisions only with a shield, and    *)
(* puts it back when the shield ends.                                      *)
THEOREM NoGhostPlayers == Spec => []ShieldsAreTimed
<1>1. WorldInv => ShieldsAreTimed
  <2> SUFFICES ASSUME WorldInv, NEW p \in Players
               PROVE  the(p).active <=> (the(p).shield = 0)
      BY DEF ShieldsAreTimed
  <2>1. p \in reg.valid /\ the(p).kind = "player"
      BY DEF Players, View, the
  <2>2. Fit(the(p))
      BY <2>1, ValidIsNumbered DEF WorldInv, the
  <2> QED
      BY <2>1, <2>2 DEF Fit, Shielded
<1> QED
    BY <1>1, WorldInit, WorldNext, PTL DEF Spec

(* Kills credit the shooter and ScoreSystem counts each event once: the    *)
(* points earned are on the board, waiting, or were overwritten.           *)
THEOREM PointsAreKept == Spec => []PointsAddUp
<1>1. WorldInv => PointsAddUp
    BY DEF WorldInv, PointsAddUp, Sound, Fit, Counted, the
<1> QED
    BY <1>1, WorldInit, WorldNext, PTL DEF Spec

(* With levels whose boss leads, and whose last has no Boss_1, only a      *)
(* Boss_1 that died in a later level can leave SpawnSystem without one.    *)
THEOREM LevelsGoOn ==
    ASSUME BossesLead
    PROVE  Spec => []SpawnsGoOn
<1>1. WorldInv => SpawnsGoOn
    BY DEF WorldInv, LevelInv, SpawnsGoOn
<1> QED
    BY <1>1, WorldInit, WorldNext, PTL DEF Spec

(* A boss that enters is the first of its level's first wave, and that one *)
(* is held back until a warning has run down.                              *)
THEOREM BossesComeAnnounced ==
    ASSUME BossesLead
    PROVE  Spec => BossesAreAnnounced
<1>1. ASSUME WorldInv, [Next]_vars
      PROVE  [BossStep]_vars
  <2> DEFINE None == View(reg', Bosses) \subseteq View(reg, Bosses)
  <2>1. None => BossStep
      BY DEF BossStep, BossesIn
  <2>2. Sound(reg, {}) /\ reg.valid \subseteq Numbers(reg)
      BY <1>1, ValidIsNumbered DEF WorldInv
  <2>3. CASE UNCHANGED vars
      BY <2>3
  <2>4. ASSUME NEW k \in Keys, Join(k)
        PROVE  None
    <3>1. /\ Fit(NewPlayer(lastId')) /\ Fresh(NewPlayer(lastId'))
          /\ NewPlayer(lastId').kind = "player"
          /\ reg' = Create(reg, NewPlayer(lastId'))
        BY <1>1, <2>4, JoinIsSound
    <3>2. /\ \A e \in Numbers(reg) : reg'.data[e] = reg.data[e]
          /\ \A e \in reg'.valid \ reg.valid : reg'.data[e] = NewPlayer(lastId')
        BY <2>2, <3>1, CreateIsSound
    <3> QED
        BY <2>2, <3>1, <3>2 DEF View, Bosses
  <2>5. ASSUME NEW k \in Keys, LeaveWorld(k)
        PROVE  None
    <3>1. PICK e \in Players : reg' = Destroy(reg, {e})
        BY <2>5 DEF LeaveWorld
    <3>2. reg'.valid = reg.valid \ {e} /\ reg'.data = reg.data
        BY <2>2, <3>1, SoundDestroy
    <3> QED
        BY <3>2 DEF View
  <2>6. ASSUME NEW k \in Keys, LeaveRoom(k)
        PROVE  None
      BY <2>6 DEF LeaveRoom
  <2>7. ASSUME NEW k \in Keys, NEW shot \in {"shot", "charge"}, Shoot(k, shot)
        PROVE  None
      BY <1>1, <2>7, ShootIsSound DEF Follows, Same
  <2>8. ASSUME NEW e1 \in crowd, NEW e2 \in crowd, Collide(e1, e2)
        PROVE  None
      BY <1>1, <2>8, CollideKeeps DEF Keeps, Follows, Same
  <2>9. ASSUME FinishTick
        PROVE  None
    <3>1. Follows(AfterLives(reg), reg')
        BY <2>2, <2>9, FinishTickIsSound
    <3>2. View(AfterLives(reg), Bosses) \subseteq View(reg, Bosses)
        BY <2>2, AfterLivesIsSound
    <3> QED
        BY <3>1, <3>2 DEF Follows, Same
  <2>10. CASE StartTick
      BY <1>1, <2>10, StartTickIsSound
  <2> HIDE DEF None
  <2> QED
      BY <1>1, <2>1, <2>3, <2>4, <2>5, <2>6, <2>7, <2>8, <2>9, <2>10
         DEF Next, Clients, Tick
<1> QED
    BY <1>1, WorldInit, WorldNext, PTL DEF Spec, BossesAreAnnounced

----------------------------------------------------------------------------
(* The world implements a room.                                            *)

IdsIn(r)   == {r.data[e].id : e \in View(r, {"player"})}
Owner(r, p) == CHOOSE e \in View(r, {"player"}) : r.data[e].id = p
LivesIn(r) == [p \in Ids |-> IF \E e \in View(r, {"player"}) : r.data[e].id = p
                             THEN r.data[Owner(r, p)].lives ELSE 0]

(* Every player has a number of its own, among those that were given.      *)
Numbered(r, last) ==
    /\ \A e \in View(r, {"player"}) : r.data[e].id \in 1..last
    /\ \A e, f \in View(r, {"player"}) : r.data[e].id = r.data[f].id => e = f

NumberInv == Numbered(reg, lastId)

LEMMA Mapped == /\ AvatarIds = IdsIn(reg) /\ LivesById = LivesIn(reg)
                /\ AvatarIds' = IdsIn(reg') /\ LivesById' = LivesIn(reg')
BY DEF AvatarIds, LivesById, IdsIn, LivesIn, Owner, Players, the

LEMMA LivesAre ==
    ASSUME NEW r, NEW last \in 0..MaxId, Numbered(r, last)
    PROVE  /\ \A e \in View(r, {"player"}) :
                 r.data[e].id \in Ids /\ LivesIn(r)[r.data[e].id] = r.data[e].lives
           /\ \A p \in Ids : p \notin IdsIn(r) => LivesIn(r)[p] = 0
           /\ LivesIn(r) = [p \in Ids |-> LivesIn(r)[p]]
<1>1. ASSUME NEW e \in View(r, {"player"})
      PROVE  r.data[e].id \in Ids /\ LivesIn(r)[r.data[e].id] = r.data[e].lives
  <2>1. r.data[e].id \in Ids
      BY Facts DEF Numbered, Ids
  <2>2. Owner(r, r.data[e].id) \in View(r, {"player"})
        /\ r.data[Owner(r, r.data[e].id)].id = r.data[e].id
      BY DEF Owner
  <2>3. Owner(r, r.data[e].id) = e
      BY <2>2 DEF Numbered
  <2> QED
      BY <2>1, <2>3 DEF LivesIn
<1>2. ASSUME NEW p \in Ids, p \notin IdsIn(r)
      PROVE  LivesIn(r)[p] = 0
    BY <1>2 DEF LivesIn, IdsIn
<1>3. LivesIn(r) = [p \in Ids |-> LivesIn(r)[p]]
    BY DEF LivesIn
<1> QED
    BY <1>1, <1>2, <1>3

(* Where players stay as they are, so does what the room sees of them.     *)
LEMMA SamePlayersSameRoom ==
    ASSUME NEW r, NEW s, NEW last, Numbered(r, last),
           View(s, {"player"}) = View(r, {"player"}),
           \A p \in View(r, {"player"}) :
              s.data[p].id = r.data[p].id /\ s.data[p].lives = r.data[p].lives
    PROVE  Numbered(s, last) /\ IdsIn(s) = IdsIn(r) /\ LivesIn(s) = LivesIn(r)
<1>1. Numbered(s, last)
    BY DEF Numbered
<1>2. IdsIn(s) = IdsIn(r)
    BY DEF IdsIn
<1>3. ASSUME NEW p \in Ids
      PROVE  LivesIn(s)[p] = LivesIn(r)[p]
  <2>1. CASE \E e \in View(r, {"player"}) : r.data[e].id = p
    <3>1. \E e \in View(s, {"player"}) : s.data[e].id = p
        BY <2>1
    <3>2. Owner(r, p) \in View(r, {"player"}) /\ r.data[Owner(r, p)].id = p
        BY <2>1 DEF Owner
    <3>3. Owner(s, p) \in View(s, {"player"}) /\ s.data[Owner(s, p)].id = p
        BY <3>1 DEF Owner
    <3>4. Owner(s, p) = Owner(r, p)
        BY <3>2, <3>3 DEF Numbered
    <3> QED
        BY <2>1, <3>1, <3>2, <3>4 DEF LivesIn
  <2>2. CASE ~\E e \in View(r, {"player"}) : r.data[e].id = p
    <3>1. ~\E e \in View(s, {"player"}) : s.data[e].id = p
        BY <2>2
    <3> QED
        BY <2>2, <3>1 DEF LivesIn
  <2> QED
      BY <2>1, <2>2
<1>4. LivesIn(s) = LivesIn(r)
    BY <1>3 DEF LivesIn
<1> QED
    BY <1>1, <1>2, <1>4

LEMMA PlayerCreated ==
    ASSUME NEW r, Sound(r, {}), NEW c, Fit(c), Fresh(c), c.kind = "player"
    PROVE  /\ View(Create(r, c), {"player"}) = View(r, {"player"}) \cup {r.next}
           /\ Create(r, c).data[r.next] = c
           /\ r.next \notin View(r, {"player"})
           /\ \A e \in View(r, {"player"}) : Create(r, c).data[e] = r.data[e]
<1> DEFINE s == Create(r, c)
<1>1. r.next \in Nat /\ r.valid \subseteq Numbers(r)
    BY ValidIsNumbered DEF Sound, RegistryOK
<1>2. r.next \notin r.valid
    BY <1>1 DEF Numbers
<1>3. Len(<<c>>) = 1 /\ <<c>>[1] = c
    OBVIOUS
<1>4. /\ s.valid = r.valid \cup r.next..(r.next + 1 - 1)
      /\ s.data = [e \in 0..(r.next + 1 - 1) |-> IF e < r.next THEN r.data[e]
                                                 ELSE <<c>>[e - r.next + 1]]
    BY <1>3 DEF Create, CreateAll
<1>5. r.next..(r.next + 1 - 1) = {r.next} /\ r.next + 1 - 1 = r.next
    BY <1>1
<1>6. s.valid = r.valid \cup {r.next}
    BY <1>4, <1>5
<1>7. s.data[r.next] = c
  <2>1. r.next - r.next + 1 = 1 /\ ~(r.next < r.next) /\ r.next \in 0..r.next
      BY <1>1
  <2> QED
      BY <1>3, <1>4, <1>5, <2>1
<1>8. \A e \in r.valid : s.data[e] = r.data[e]
    BY <1>1, CreateIsSound
<1> HIDE DEF s
<1>9. View(s, {"player"}) = View(r, {"player"}) \cup {r.next}
    BY <1>6, <1>7, <1>8 DEF View
<1> QED
    BY <1>2, <1>7, <1>8, <1>9 DEF View, s

(* A newcomer has the next number and all its lives.                       *)
LEMMA NewPlayerInRoom ==
    ASSUME NEW r, NEW s, NEW last \in 0..MaxId, Numbered(r, last), last + 1 \in Ids,
           NEW n, n \notin View(r, {"player"}),
           View(s, {"player"}) = View(r, {"player"}) \cup {n},
           s.data[n].id = last + 1,
           \A e \in View(r, {"player"}) : s.data[e] = r.data[e]
    PROVE  /\ Numbered(s, last + 1)
           /\ IdsIn(s) = IdsIn(r) \cup {last + 1}
           /\ LivesIn(s) = [LivesIn(r) EXCEPT ![last + 1] = s.data[n].lives]
<1>1. \A e \in View(r, {"player"}) : r.data[e].id \in 1..last
    BY DEF Numbered
<1>2. last + 1 \in 0..MaxId /\ last \in Int /\ last + 1 >= 1
    BY Facts DEF Ids
<1>3. Numbered(s, last + 1)
  <2>1. \A e \in View(s, {"player"}) : s.data[e].id \in 1..(last + 1)
      BY <1>1, <1>2
  <2>2. \A e \in View(r, {"player"}) : s.data[e].id # last + 1
      BY <1>1, <1>2
  <2>3. \A e, f \in View(s, {"player"}) : s.data[e].id = s.data[f].id => e = f
      BY <2>2 DEF Numbered
  <2> QED
      BY <2>1, <2>3 DEF Numbered
<1>4. IdsIn(s) = IdsIn(r) \cup {last + 1}
    BY DEF IdsIn
<1>5. /\ \A e \in View(s, {"player"}) : LivesIn(s)[s.data[e].id] = s.data[e].lives
      /\ \A p \in Ids : p \notin IdsIn(s) => LivesIn(s)[p] = 0
      /\ LivesIn(s) = [p \in Ids |-> LivesIn(s)[p]]
    BY <1>2, <1>3, LivesAre
<1>6. /\ \A e \in View(r, {"player"}) : LivesIn(r)[r.data[e].id] = r.data[e].lives
      /\ \A p \in Ids : p \notin IdsIn(r) => LivesIn(r)[p] = 0
      /\ LivesIn(r) = [p \in Ids |-> LivesIn(r)[p]]
    BY LivesAre
<1>7. ASSUME NEW p \in Ids
      PROVE  LivesIn(s)[p] = IF p = last + 1 THEN s.data[n].lives ELSE LivesIn(r)[p]
  <2>1. CASE p = last + 1
      BY <2>1, <1>5
  <2>2. CASE p # last + 1 /\ p \in IdsIn(r)
    <3>1. PICK e \in View(r, {"player"}) : r.data[e].id = p
        BY <2>2 DEF IdsIn
    <3> QED
        BY <2>2, <3>1, <1>5, <1>6
  <2>3. CASE p # last + 1 /\ p \notin IdsIn(r)
      BY <2>3, <1>4, <1>5, <1>6
  <2> QED
      BY <2>1, <2>2, <2>3
<1> HIDE DEF LivesIn
<1>8. LivesIn(s) = [LivesIn(r) EXCEPT ![last + 1] = s.data[n].lives]
    BY <1>5, <1>6, <1>7
<1> QED
    BY <1>3, <1>4, <1>8

(* Whoever is destroyed has no lives left in the room.                     *)
LEMMA GoneFromRoom ==
    ASSUME NEW r, NEW s, NEW last \in 0..MaxId, Numbered(r, last),
           NEW e \in View(r, {"player"}),
           View(s, {"player"}) = View(r, {"player"}) \ {e},
           s.data = r.data
    PROVE  /\ Numbered(s, last)
           /\ IdsIn(s) = IdsIn(r) \ {r.data[e].id}
           /\ LivesIn(s) = [LivesIn(r) EXCEPT ![r.data[e].id] = 0]
<1>1. Numbered(s, last)
    BY DEF Numbered
<1>2. IdsIn(s) = IdsIn(r) \ {r.data[e].id}
    BY DEF IdsIn, Numbered
<1>3. /\ \A f \in View(s, {"player"}) : LivesIn(s)[s.data[f].id] = s.data[f].lives
      /\ \A p \in Ids : p \notin IdsIn(s) => LivesIn(s)[p] = 0
      /\ LivesIn(s) = [p \in Ids |-> LivesIn(s)[p]]
    BY <1>1, LivesAre
<1>4. /\ \A f \in View(r, {"player"}) : LivesIn(r)[r.data[f].id] = r.data[f].lives
      /\ \A p \in Ids : p \notin IdsIn(r) => LivesIn(r)[p] = 0
      /\ LivesIn(r) = [p \in Ids |-> LivesIn(r)[p]]
    BY LivesAre
<1>5. ASSUME NEW p \in Ids
      PROVE  LivesIn(s)[p] = IF p = r.data[e].id THEN 0 ELSE LivesIn(r)[p]
  <2>1. CASE p = r.data[e].id
      BY <2>1, <1>2, <1>3
  <2>2. CASE p # r.data[e].id /\ p \in IdsIn(r)
    <3>1. PICK f \in View(r, {"player"}) : r.data[f].id = p
        BY <2>2 DEF IdsIn
    <3> QED
        BY <2>2, <3>1, <1>3, <1>4
  <2>3. CASE p # r.data[e].id /\ p \notin IdsIn(r)
      BY <2>3, <1>2, <1>3, <1>4
  <2> QED
      BY <2>1, <2>2, <2>3
<1> HIDE DEF LivesIn
<1>6. LivesIn(s) = [LivesIn(r) EXCEPT ![r.data[e].id] = 0]
    BY <1>3, <1>4, <1>5
<1> QED
    BY <1>1, <1>2, <1>6

(* The numbers of the players that lose a life in this tick.               *)
Fallen(r) == {r.data[e].id : e \in {f \in View(r, {"player"}) : ~(r.data[f].hp > 0)}}

(* LivesSystem hurts them, and them only.                                  *)
LEMMA LivesInRoom ==
    ASSUME NEW r, Sound(r, {}), NEW last \in 0..MaxId, Numbered(r, last)
    PROVE  LET s == AfterLives(r)
           IN  /\ Numbered(s, last)
               /\ Fallen(r) \subseteq IdsIn(r)
               /\ IdsIn(s) = {p \in IdsIn(r) : p \in Fallen(r) => LivesIn(r)[p] - 1 > 0}
               /\ LivesIn(s) = [p \in Ids |-> IF p \notin IdsIn(s) THEN 0
                                              ELSE IF p \in Fallen(r) THEN LivesIn(r)[p] - 1
                                              ELSE LivesIn(r)[p]]
<1> DEFINE s == AfterLives(r)
<1>1. /\ View(s, {"player"}) = {p \in View(r, {"player"}) :
                                  ~(r.data[p].hp <= 0 /\ r.data[p].lives <= 1)}
      /\ \A p \in View(r, {"player"}) :
           /\ s.data[p].id = r.data[p].id
           /\ r.data[p].hp > 0 => s.data[p].lives = r.data[p].lives
           /\ ~(r.data[p].hp > 0) => s.data[p].lives = r.data[p].lives - 1
    BY AfterLivesIsSound
<1> HIDE DEF s
<1>2. \A e \in View(r, {"player"}) : r.data[e].hp \in Nat /\ r.data[e].lives \in Int
  <2>1. \A e \in View(r, {"player"}) : r.data[e] \in Components
      BY ValidIsNumbered DEF View
  <2>2. \A c \in Components : c.hp \in Nat /\ c.lives \in Int
      BY Facts DEF Components
  <2> QED
      BY <2>1, <2>2
<1>3. Numbered(s, last)
    BY <1>1 DEF Numbered
<1>4. Fallen(r) \subseteq IdsIn(r)
    BY DEF Fallen, IdsIn
<1>5. \A e \in View(r, {"player"}) : r.data[e].id \in Fallen(r) <=> ~(r.data[e].hp > 0)
    BY DEF Fallen, Numbered
<1>6. /\ \A f \in View(s, {"player"}) : LivesIn(s)[s.data[f].id] = s.data[f].lives
      /\ \A p \in Ids : p \notin IdsIn(s) => LivesIn(s)[p] = 0
      /\ LivesIn(s) = [p \in Ids |-> LivesIn(s)[p]]
    BY <1>3, LivesAre
<1>7. /\ \A f \in View(r, {"player"}) : LivesIn(r)[r.data[f].id] = r.data[f].lives
    BY LivesAre
<1>8. IdsIn(s) = {p \in IdsIn(r) : p \in Fallen(r) => LivesIn(r)[p] - 1 > 0}
  <2>1. \A e \in View(r, {"player"}) :
           e \in View(s, {"player"})
           <=> (r.data[e].id \in Fallen(r) => LivesIn(r)[r.data[e].id] - 1 > 0)
      BY <1>1, <1>2, <1>5, <1>7
  <2>2. ASSUME NEW p \in IdsIn(s)
        PROVE  p \in IdsIn(r) /\ (p \in Fallen(r) => LivesIn(r)[p] - 1 > 0)
    <3>1. PICK e \in View(s, {"player"}) : s.data[e].id = p
        BY DEF IdsIn
    <3>2. e \in View(r, {"player"}) /\ r.data[e].id = p
        BY <1>1, <3>1
    <3> QED
        BY <2>1, <3>2 DEF IdsIn
  <2>3. ASSUME NEW p \in IdsIn(r), p \in Fallen(r) => LivesIn(r)[p] - 1 > 0
        PROVE  p \in IdsIn(s)
    <3>1. PICK e \in View(r, {"player"}) : r.data[e].id = p
        BY DEF IdsIn
    <3>2. e \in View(s, {"player"}) /\ s.data[e].id = p
        BY <1>1, <2>1, <2>3, <3>1
    <3> QED
        BY <3>2 DEF IdsIn
  <2> QED
      BY <2>2, <2>3
<1>9. ASSUME NEW p \in Ids
      PROVE  LivesIn(s)[p] = IF p \notin IdsIn(s) THEN 0
                             ELSE IF p \in Fallen(r) THEN LivesIn(r)[p] - 1
                             ELSE LivesIn(r)[p]
  <2>1. CASE p \notin IdsIn(s)
      BY <2>1, <1>6
  <2>2. CASE p \in IdsIn(s)
    <3>1. PICK e \in View(s, {"player"}) : s.data[e].id = p
        BY <2>2 DEF IdsIn
    <3>2. e \in View(r, {"player"}) /\ r.data[e].id = p
        BY <1>1, <3>1
    <3>3. LivesIn(s)[p] = s.data[e].lives /\ LivesIn(r)[p] = r.data[e].lives
        BY <1>6, <1>7, <3>1, <3>2
    <3> QED
        BY <2>2, <1>1, <1>5, <3>2, <3>3
  <2> QED
      BY <2>1, <2>2
<1> HIDE DEF LivesIn
<1>10. LivesIn(s) = [p \in Ids |-> IF p \notin IdsIn(s) THEN 0
                                   ELSE IF p \in Fallen(r) THEN LivesIn(r)[p] - 1
                                   ELSE LivesIn(r)[p]]
    BY <1>6, <1>9
<1> QED
    BY <1>3, <1>4, <1>8, <1>10 DEF s

LEMMA NumberInit == Init => NumberInv /\ IdsIn(reg) = {} /\ LivesIn(reg) = [p \in Ids |-> 0]
<1> SUFFICES ASSUME Init
             PROVE  NumberInv /\ IdsIn(reg) = {} /\ LivesIn(reg) = [p \in Ids |-> 0]
    OBVIOUS
<1>1. reg = CreateAll(Cleared, <<Plain>>)
    BY DEF Init, Create
<1>2. Len(<<Plain>>) = 1 /\ <<Plain>>[1] = Plain /\ Cleared.next = 0 /\ Cleared.valid = {}
    BY DEF Cleared
<1>3. /\ reg.valid = {} \cup 0..(0 + 1 - 1)
      /\ reg.data = [e \in 0..(0 + 1 - 1) |-> IF e < 0 THEN Cleared.data[e]
                                              ELSE <<Plain>>[e - 0 + 1]]
    BY <1>1, <1>2 DEF CreateAll
<1>4. 0..(0 + 1 - 1) = {0} /\ 0 - 0 + 1 = 1 /\ ~(0 < 0)
    OBVIOUS
<1>5. reg.valid = {0} /\ reg.data[0] = Plain
    BY <1>2, <1>3, <1>4
<1>6. View(reg, {"player"}) = {}
    BY <1>5, PlainIsFit DEF View
<1> QED
    BY <1>6 DEF NumberInv, Numbered, IdsIn, LivesIn

(* What follows another registry shows the room the same players.          *)
LEMMA FollowedInRoom ==
    ASSUME NEW r, NEW s, NEW last, Numbered(r, last), Follows(r, s)
    PROVE  Numbered(s, last) /\ IdsIn(s) = IdsIn(r) /\ LivesIn(s) = LivesIn(r)
<1>1. /\ View(s, {"player"}) = View(r, {"player"})
      /\ \A p \in View(r, {"player"}) :
            s.data[p].id = r.data[p].id /\ s.data[p].lives = r.data[p].lives
    BY DEF Follows, Same
<1> QED
    BY <1>1, SamePlayersSameRoom

(* The room is where it was.                                               *)
StaysInRoom == /\ UNCHANGED <<seats, lastId>>
               /\ IdsIn(reg') = IdsIn(reg) /\ LivesIn(reg') = LivesIn(reg)

RoomStep == \/ StaysInRoom
            \/ \E k \in Keys : R!Enter(k) \/ R!GiveUpPlace(k)
            \/ \E p \in Ids : R!Vanish(p)
            \/ \E hit \in SUBSET AvatarIds : R!Hurt(hit)

LEMMA NumberNext ==
    ASSUME WorldInv, NumberInv, [Next]_vars
    PROVE  NumberInv' /\ RoomStep
<1>1. Sound(reg, {}) /\ reg.valid \subseteq Numbers(reg) /\ Numbered(reg, lastId)
      /\ lastId \in 0..MaxId /\ seats \in [Keys -> 0..MaxId]
    BY ValidIsNumbered DEF WorldInv, NumberInv, RestInv
<1>2. ASSUME lastId' = lastId, seats' = seats, Numbered(reg', lastId),
             IdsIn(reg') = IdsIn(reg), LivesIn(reg') = LivesIn(reg)
      PROVE  NumberInv' /\ RoomStep
    BY <1>2 DEF NumberInv, RoomStep, StaysInRoom
<1>3. CASE UNCHANGED vars
  <2>1. lastId' = lastId /\ seats' = seats /\ reg' = reg
      BY <1>3 DEF vars
  <2> QED
      BY <1>1, <1>2, <2>1
<1>4. ASSUME NEW k \in Keys, Join(k)
      PROVE  NumberInv' /\ RoomStep
  <2> DEFINE c == NewPlayer(lastId')
  <2>1. /\ lastId' \in Ids /\ lastId' = lastId + 1
        /\ Fit(c) /\ Fresh(c) /\ c.kind = "player" /\ c.id = lastId'
        /\ c.lives = InitialLives /\ reg' = Create(reg, c)
      BY <1>4, JoinIsSound
  <2> HIDE DEF c
  <2>2. /\ View(reg', {"player"}) = View(reg, {"player"}) \cup {reg.next}
        /\ reg'.data[reg.next] = c
        /\ reg.next \notin View(reg, {"player"})
        /\ \A e \in View(reg, {"player"}) : reg'.data[e] = reg.data[e]
      BY <1>1, <2>1, PlayerCreated
  <2>3. /\ Numbered(reg', lastId + 1)
        /\ IdsIn(reg') = IdsIn(reg) \cup {lastId + 1}
        /\ LivesIn(reg') = [LivesIn(reg) EXCEPT ![lastId + 1] = reg'.data[reg.next].lives]
    <3>1. reg'.data[reg.next].id = lastId + 1 /\ lastId + 1 \in Ids
        BY <2>1, <2>2
    <3> QED
        BY <1>1, <2>2, <3>1, NewPlayerInRoom
  <2>4. NumberInv'
      BY <2>1, <2>3 DEF NumberInv
  <2>5. /\ seats[k] = 0 /\ Cardinality(Seated) < MaxPlayers /\ lastId < MaxId
        /\ seats' = [seats EXCEPT ![k] = lastId']
      BY <1>4 DEF Join
  <2>6. R!Cardinality(R!Seated) < MaxPlayers
    <3>1. R!Seated = Seated
        BY DEF R!Seated, Seated
    <3>2. R!Cardinality(Seated) = Cardinality(Seated)
        BY DEF R!Cardinality, Cardinality, R!IsFiniteSet, IsFiniteSet
    <3> QED
        BY <2>5, <3>1, <3>2
  <2>7. /\ AvatarIds' = AvatarIds \cup {lastId'}
        /\ LivesById' = [LivesById EXCEPT ![lastId'] = InitialLives]
      BY <2>1, <2>2, <2>3, Mapped
  <2>8. R!Enter(k)
      BY <2>1, <2>5, <2>6, <2>7, Zenon DEF R!Enter
  <2> QED
      BY <2>4, <2>8 DEF RoomStep
<1>5. ASSUME NEW k \in Keys, LeaveWorld(k)
      PROVE  NumberInv' /\ RoomStep
  <2>1. PICK e \in Players : reg' = Destroy(reg, {e})
      BY <1>5 DEF LeaveWorld
  <2>2. UNCHANGED <<seats, lastId>>
      BY <1>5 DEF LeaveWorld
  <2>3. e \in View(reg, {"player"}) /\ reg'.valid = reg.valid \ {e} /\ reg'.data = reg.data
      BY <1>1, <2>1, SoundDestroy DEF Players
  <2>4. View(reg', {"player"}) = View(reg, {"player"}) \ {e}
      BY <2>3 DEF View
  <2>5. /\ Numbered(reg', lastId)
        /\ IdsIn(reg') = IdsIn(reg) \ {reg.data[e].id}
        /\ LivesIn(reg') = [LivesIn(reg) EXCEPT ![reg.data[e].id] = 0]
      BY <1>1, <2>3, <2>4, GoneFromRoom
  <2>6. reg.data[e].id \in Ids
      BY <1>1, <2>3, LivesAre
  <2>7. R!Vanish(reg.data[e].id)
      BY <2>2, <2>5, Mapped DEF R!Vanish
  <2> QED
      BY <2>2, <2>5, <2>6, <2>7 DEF NumberInv, RoomStep
<1>6. ASSUME NEW k \in Keys, LeaveRoom(k)
      PROVE  NumberInv' /\ RoomStep
  <2>1. UNCHANGED <<reg, lastId>> /\ seats' = [seats EXCEPT ![k] = 0]
      BY <1>6 DEF LeaveRoom
  <2>2. R!GiveUpPlace(k)
      BY <2>1, Mapped DEF R!GiveUpPlace
  <2> QED
      BY <1>1, <2>1, <2>2 DEF NumberInv, RoomStep
<1>7. ASSUME NEW k \in Keys, NEW shot \in {"shot", "charge"}, Shoot(k, shot)
      PROVE  NumberInv' /\ RoomStep
  <2>1. Follows(reg, reg')
      BY <1>7, ShootIsSound
  <2>2. UNCHANGED <<seats, lastId>>
      BY <1>7 DEF Shoot
  <2> QED
      BY <1>1, <1>2, <2>1, <2>2, FollowedInRoom
<1>8. CASE StartTick
  <2>1. /\ View(reg', {"player"}) = View(reg, {"player"})
        /\ \A p \in View(reg, {"player"}) :
              reg'.data[p].id = reg.data[p].id
              /\ reg'.data[p].lives = reg.data[p].lives
      BY <1>8, StartTickIsSound
  <2>2. UNCHANGED <<seats, lastId>>
      BY <1>8 DEF StartTick
  <2> QED
      BY <1>1, <1>2, <2>1, <2>2, SamePlayersSameRoom
<1>9. ASSUME NEW e1 \in crowd, NEW e2 \in crowd, Collide(e1, e2)
      PROVE  NumberInv' /\ RoomStep
  <2>1. Follows(reg, reg') /\ Met(e1, e2)
      BY <1>9, CollideKeeps DEF Keeps
  <2>2. UNCHANGED <<seats, lastId>>
      BY <2>1 DEF Met
  <2> QED
      BY <1>1, <1>2, <2>1, <2>2, FollowedInRoom
<1>10. CASE FinishTick
  <2> DEFINE l == AfterLives(reg)
  <2>1. Follows(l, reg')
      BY <1>1, <1>10, FinishTickIsSound
  <2>2. /\ Numbered(l, lastId)
        /\ Fallen(reg) \subseteq IdsIn(reg)
        /\ IdsIn(l) = {p \in IdsIn(reg) : p \in Fallen(reg) => LivesIn(reg)[p] - 1 > 0}
        /\ LivesIn(l) = [p \in Ids |-> IF p \notin IdsIn(l) THEN 0
                                       ELSE IF p \in Fallen(reg) THEN LivesIn(reg)[p] - 1
                                       ELSE LivesIn(reg)[p]]
      BY <1>1, LivesInRoom
  <2> HIDE DEF l
  <2>3. Numbered(reg', lastId) /\ IdsIn(reg') = IdsIn(l) /\ LivesIn(reg') = LivesIn(l)
      BY <2>1, <2>2, FollowedInRoom
  <2>4. UNCHANGED <<seats, lastId>>
      BY <1>10 DEF FinishTick
  <2>5. R!Hurt(Fallen(reg))
    <3>1. AvatarIds = IdsIn(reg) /\ LivesById = LivesIn(reg)
          /\ AvatarIds' = IdsIn(reg') /\ LivesById' = LivesIn(reg')
        BY Mapped
    <3>2. R!Ids = Ids
        BY DEF R!Ids, Ids
    <3>3. AvatarIds' = {p \in AvatarIds : p \in Fallen(reg) => LivesById[p] - 1 > 0}
        BY <2>2, <2>3, <3>1
    <3>4. LivesById' = [p \in R!Ids |-> IF p \notin AvatarIds' THEN 0
                                        ELSE IF p \in Fallen(reg) THEN LivesById[p] - 1
                                        ELSE LivesById[p]]
        BY <2>2, <2>3, <3>1, <3>2
    <3> QED
        BY <2>4, <3>3, <3>4 DEF R!Hurt
  <2>6. Fallen(reg) \in SUBSET AvatarIds
      BY <2>2, Mapped
  <2> QED
      BY <2>3, <2>4, <2>5, <2>6 DEF NumberInv, RoomStep
<1> QED
    BY <1>3, <1>4, <1>5, <1>6, <1>7, <1>8, <1>9, <1>10 DEF Next, Clients, Tick

(* Joins, leaves and ticks of the game world are the steps that a room     *)
(* promises: LivesSystem takes one life at a time from the players that    *)
(* are there, and whoever runs out of them or leaves does not come back.   *)
THEOREM ImplementsRoom == Spec => RoomSpec
<1>1. Init => R!Init
  <2> SUFFICES ASSUME Init
               PROVE  R!Init
      OBVIOUS
  <2>1. seats = [k \in Keys |-> 0] /\ lastId = 0
      BY DEF Init
  <2> QED
      BY <2>1, NumberInit, Mapped DEF R!Init, R!Ids, Ids
<1>2. ASSUME WorldInv, NumberInv, [Next]_vars
      PROVE  [R!Next]_(R!room)
  <2>1. RoomStep
      BY <1>2, NumberNext
  <2>2. StaysInRoom => UNCHANGED R!room
      BY Mapped DEF StaysInRoom, R!room
  <2>3. RoomStep => R!Next \/ StaysInRoom
      BY Zenon DEF RoomStep, R!Next, R!Ids, Ids
  <2> QED
      BY <2>1, <2>2, <2>3
<1>3. WorldInv /\ NumberInv /\ [Next]_vars => NumberInv'
    BY NumberNext
<1>4. Init => NumberInv
    BY NumberInit
<1> QED
    BY <1>1, <1>2, <1>3, <1>4, WorldInit, WorldNext, PTL DEF Spec, RoomSpec, R!Spec
=============================================================================
