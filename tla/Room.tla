-------------------------------- MODULE Room --------------------------------
(***************************************************************************)
(* What a room promises, whatever its threads and systems do: a place is   *)
(* taken by one address under a number nobody had before, an avatar comes  *)
(* with its player and never comes back, and a life is lost at most one at *)
(* a time, by an avatar that is there, down to the last one.               *)
(***************************************************************************)
EXTENDS Integers, FiniteSets

CONSTANTS Keys, MaxPlayers, InitialLives, MaxId

VARIABLES
    members,   \* address -> player number, 0 where it has no place
    last,      \* the last number given
    avatars,   \* players that are in the game
    lives      \* what is left to each of them, 0 for the others

room == <<members, last, avatars, lives>>
Ids  == 1..MaxId
Seated == {k \in Keys : members[k] # 0}

Init == /\ members = [k \in Keys |-> 0] /\ last = 0
        /\ avatars = {} /\ lives = [p \in Ids |-> 0]

Enter(k) == /\ members[k] = 0
            /\ Cardinality(Seated) < MaxPlayers
            /\ last < MaxId
            /\ last' = last + 1
            /\ members' = [members EXCEPT ![k] = last']
            /\ avatars' = avatars \cup {last'}
            /\ lives' = [lives EXCEPT ![last'] = InitialLives]

GiveUpPlace(k) == /\ members' = [members EXCEPT ![k] = 0]
                  /\ UNCHANGED <<last, avatars, lives>>

Vanish(p) == /\ avatars' = avatars \ {p}
             /\ lives' = [lives EXCEPT ![p] = 0]
             /\ UNCHANGED <<members, last>>

Hurt(hit) == /\ avatars' = {p \in avatars : p \in hit => lives[p] - 1 > 0}
             /\ lives' = [p \in Ids |-> IF p \notin avatars' THEN 0
                                        ELSE IF p \in hit THEN lives[p] - 1
                                        ELSE lives[p]]
             /\ UNCHANGED <<members, last>>

Next == \/ \E k \in Keys : Enter(k) \/ GiveUpPlace(k)
        \/ \E p \in Ids : Vanish(p)
        \/ \E hit \in SUBSET avatars : Hurt(hit)

Spec == Init /\ [][Next]_room
=============================================================================
