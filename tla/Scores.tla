------------------------------- MODULE Scores -------------------------------
(***************************************************************************)
(* The scoreboard: shared/ScoreData.cpp and client/src/ScoreboardManager.  *)
(*                                                                         *)
(* A board is a set of entries [list, name, score, at]: what the code      *)
(* keeps as two sorted vectors, of solo and of multiplayer scores, whose   *)
(* order among equal scores std::sort leaves open.  The file is the set of *)
(* entries its lines were written for.                                     *)
(***************************************************************************)
EXTENDS Integers, FiniteSets

CONSTANTS
    MaxScores,   \* ScoreboardData::MAX_SCORES
    Names,       \* names of players
    OddNames,    \* the ones with a ':' in them, or a '#' in front
    Misread      \* what load makes of an odd name with a number behind its
                 \* first ':'; of the others it makes nothing

ASSUME ScoresAssumption ==
    /\ MaxScores \in Nat \ {0} /\ OddNames \subseteq Names
    /\ DOMAIN Misread \subseteq OddNames
    /\ Misread \in [DOMAIN Misread -> [name : Names, score : Nat]]

Lists == {"solo", "multi"}
On(board, list) == {e \in board : e.list = list}

(* What sorting and cutting to MAX_SCORES may leave.                       *)
TopOf(all) ==
    {kept \in SUBSET all :
       /\ Cardinality(kept) = IF Cardinality(all) <= MaxScores
                              THEN Cardinality(all) ELSE MaxScores
       /\ \A k \in kept, d \in all \ kept : k.score >= d.score}

(* add_and_sort: the boards a new entry can lead to.                       *)
Added(board, e) == {(board \ On(board, e.list)) \cup kept :
                       kept \in TopOf(On(board, e.list) \cup {e})}

(* save: one line name:score:timestamp for every entry.                    *)
Written(board) == board

(* load: a line that starts with '#' is a comment, and a name ends at the  *)
(* first ':', so that a:5 with score 7 is read as a score of 5, at 7, of   *)
(* the name a.  A line with no number there is lost.                       *)
Plain(e)     == e.name \notin OddNames
Reread(e)    == IF Plain(e) THEN e
                ELSE [list |-> e.list, name |-> Misread[e.name].name,
                      score |-> Misread[e.name].score, at |-> e.score]
Loaded(file) == {Reread(e) : e \in {f \in file : Plain(f) \/ f.name \in DOMAIN Misread}}
=============================================================================
