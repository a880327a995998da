------------------------------ MODULE MCScreens ------------------------------
EXTENDS Screens, TLC

CONSTANTS r1, r2

(* Rooms are told apart and nothing else.                                  *)
RoomsAlike == Permutations(Rooms)

(* The odd name is taken for the plain one with a score, or is none.       *)
ReadAsPlain == [n \in OddNames |-> [name |-> "plain", score |-> 1]]

(* Bound: settings are opened before anything is joined; solo games are    *)
(* played by who knows one id, no list of rooms and, from then on, no game *)
(* with others; of such a game, which writes no score, the list is not     *)
(* asked.                                                                  *)
Apart ==
    /\ keys # FirstKey \/ colours # 0 \/ (page.is = "menu" /\ page.open) => joins = 0
    /\ games > 0 => /\ given \subseteq {0, 1} /\ client.me \in {0, 1}
                    /\ page.is = "lobby" => page.rooms = <<>> /\ ~page.started
    /\ page.is = "game" /\ page.multi => page.list = "multi"
=============================================================================
