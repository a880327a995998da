------------------------------- MODULE Screens -------------------------------
(***************************************************************************)
(* The client's screens together: the menus, the lobby and, in this        *)
(* module, GameState; and what the network thread does to the client       *)
(* meanwhile.                                                              *)
(*                                                                         *)
(* page.choice is spectator_choice_pending_, page.chosen                   *)
(* has_chosen_spectate_, page.allDead all_players_dead_.  page.seen and    *)
(* page.stale are history: the client's own ship was there in this game;   *)
(* the client took itself for connected when the game was entered.         *)
(***************************************************************************)
EXTENDS Lobby

----------------------------------------------------------------------------
(* The network thread.                                                     *)

Witness(ship) == IF page.is = "game" THEN [page EXCEPT !.seen = @ \/ ship] ELSE page

(* The server on a join: a seat, or none in a full room.                   *)
Decides(id) ==
    /\ page # Gone /\ asked > 0
    /\ asked' = asked - 1 /\ given' = given \cup {id}
    /\ seat' = IF id = 0 THEN seat ELSE id
    /\ UNCHANGED <<page, frame, client, kept, stray, lasting, scores, count>>

(* PlayerJoin, of the client itself, of a player of its room or of one it  *)
(* left, or a refusal, in whatever order UDP brings them, and not all of   *)
(* them: a client that is not connected is from then on whoever the        *)
(* message tells of; to one that is, it tells of a player.                 *)
PlayerJoin(id) ==
    /\ page # Gone /\ (id \in given \/ (id \in Ids /\ Hears))
    /\ client' = IF client.connected
                 THEN [client EXCEPT !.ship = @ \/ id = client.me]
                 ELSE [connected |-> TRUE, me |-> id, ship |-> TRUE, dead |-> FALSE]
    /\ stray' = IF client.connected THEN stray ELSE id # seat \/ id = 0
    /\ page' = Witness(client'.ship)
    /\ UNCHANGED <<frame, seat, asked, given, kept, lasting, scores, count>>

(* PlayerMove of the id the client goes by, the lives GameState tells it,  *)
(* and the end of that ship.                                               *)
ShipComes ==
    /\ page # Gone /\ Hears /\ client.connected /\ ~client.ship
    /\ client' = [client EXCEPT !.ship = TRUE]
    /\ page' = Witness(TRUE)
    /\ UNCHANGED <<frame, seat, asked, given, kept, stray, lasting, scores, count>>

LivesTold(none) ==
    /\ Hears /\ client.ship
    /\ client' = [client EXCEPT !.dead = none]
    /\ UNCHANGED <<page, frame, seat, asked, given, kept, stray, lasting, scores, count>>

ShipGoes ==
    /\ Hears /\ client.ship
    /\ client' = [client EXCEPT !.ship = FALSE, !.dead = FALSE]
    /\ UNCHANGED <<page, frame, seat, asked, given, kept, stray, lasting, scores, count>>

(* StageCleared: the last stage wins the game, and only another stage, of   *)
(* a later game, takes that back.                                          *)
StageCleared(last) ==
    /\ page # Gone /\ Hears
    /\ won' = last
    /\ UNCHANGED <<page, frame, session, keys, colours, scores, count>>

Network == \/ \E id \in Ids \cup {0} : Decides(id) \/ PlayerJoin(id)
           \/ ShipComes \/ ShipGoes
           \/ \E none \in BOOLEAN : LivesTold(none)
           \/ \E r \in Rooms : AddRoom(r)
           \/ \E id \in Ids : LobbyUpdate(id)
           \/ GameStart
           \/ \E last \in BOOLEAN : StageCleared(last)

----------------------------------------------------------------------------
(* GameState: input.  One click has one meaning, in this order.            *)

(* A client never has the Weapon the test for other players looks for, so  *)
(* the game can be paused with others in it.                               *)
TogglePause ==
    /\ Input("game")
    /\ page' = [page EXCEPT !.paused = ~@, !.panel = @ /\ ~page.paused]
    /\ UNCHANGED <<frame, session, lasting, scores, count>>

Reset(p) == [p EXCEPT !.choice = FALSE, !.chosen = FALSE, !.over = FALSE,
                      !.allDead = FALSE, !.saved = FALSE]

BackToMenu == /\ page' = Reset(page) /\ Goto("menu")
              /\ UNCHANGED <<turn, asked, given, kept, lasting, scores, count>>

Spectate ==
    /\ Input("game") /\ page.choice
    /\ page' = [page EXCEPT !.choice = FALSE, !.chosen = TRUE]
    /\ UNCHANGED <<frame, session, lasting, scores, count>>

DialogToMenu ==
    /\ Input("game") /\ page.choice
    /\ ClearRegistry /\ BackToMenu /\ UNCHANGED <<seat, stray>>

ClickPaused ==
    /\ Input("game") /\ ~page.choice /\ page.paused
    /\ \/ page.panel /\ colours' = (colours + 1) % Modes /\ UNCHANGED page
       \/ ~page.panel /\ page' = [page EXCEPT !.panel = TRUE] /\ UNCHANGED colours
    /\ UNCHANGED <<frame, session, won, keys, scores, count>>

Watching == page.chosen /\ ~page.over

ExitHud ==
    /\ Input("game") /\ ~page.choice /\ ~page.paused /\ Watching
    /\ ClearRegistry /\ BackToMenu /\ UNCHANGED <<seat, stray>>

Ended == page.over /\ page.allDead

GameOverToMenu ==
    /\ Input("game") /\ ~page.choice /\ ~page.paused /\ ~Watching /\ Ended
    /\ ClearRegistry /\ BackToMenu /\ UNCHANGED <<seat, stray>>

(* Only here is the room left.                                             *)
VictoryToMenu ==
    /\ Input("game") /\ ~page.choice /\ ~page.paused /\ ~Watching /\ ~Ended
    /\ won
    /\ LeaveRoom /\ BackToMenu

----------------------------------------------------------------------------
(* GameState::update.                                                      *)

MayEnd == client.connected /\ client.me # 0
Dead   == ~client.ship \/ client.dead

Offered(p) == [p EXCEPT !.choice = @ \/ (/\ p.multi /\ MayEnd /\ Dead
                                         /\ ~p.chosen /\ ~p.allDead)]

Ends(p) == /\ MayEnd
           /\ \/ ~p.multi /\ Dead
              \/ p.multi /\ p.allDead
              \/ Dead /\ ~p.choice /\ ~p.chosen

(* With no ship that has a Weapon, everyone is dead as soon as it is over. *)
Over(p) == [p EXCEPT !.over = TRUE, !.saved = TRUE, !.allDead = TRUE]

UpdatePaused ==
    /\ Updates("game") /\ page.paused
    /\ turn' = "input"
    /\ UNCHANGED <<page, next, session, lasting, scores, count>>

UpdateGoesOn ==
    /\ Updates("game") /\ ~page.paused
    /\ LET p == Offered(page) IN
          /\ ~Ends(p) \/ page.over
          /\ page' = IF page.over THEN [p EXCEPT !.allDead = TRUE]
                     ELSE [p EXCEPT !.startSent = @ \/ client.connected]
    /\ turn' = "input"
    /\ UNCHANGED <<next, session, lasting, scores, count>>

(* The game is over; a score that was not saved yet goes on its list, and  *)
(* save() has opened the file, which empties it.                           *)
UpdateEnds ==
    /\ Updates("game") /\ ~page.paused /\ ~page.over
    /\ Ends(Offered(page)) /\ page' = Over(Offered(page))
    /\ \/ /\ page.saved /\ turn' = "input" /\ UNCHANGED scores
       \/ /\ ~page.saved /\ turn' = "saving" /\ saves' = saves + 1
          /\ \E n \in Names, s \in Points :
                board' \in Added(board, [list |-> page.list, name |-> n,
                                      score |-> s, at |-> saves])
          /\ file' = {}
    /\ UNCHANGED <<next, session, lasting, count>>

\* mutant: the board of the session before is written once more.
MutSave ==
    /\ page # Gone /\ turn = "saving" /\ turn' = "input"
    /\ file' = Written({e \in board : e.at + 1 < saves})
    /\ UNCHANGED <<page, next, session, lasting, board, saves, count>>

Save ==
    /\ page # Gone /\ turn = "saving" /\ turn' = "input"
    /\ file' = Written(board)
    /\ UNCHANGED <<page, next, session, lasting, board, saves, count>>

----------------------------------------------------------------------------

MenuInput == \/ MenuKey \/ MenuClick \/ BeginRebinding \/ Rebind
             \/ CycleColours \/ Confirm \/ Cancel \/ Escape
             \/ ModeKey \/ ModeClick \/ SoloInput

LobbyInput == \/ MainMenuKey \/ MainMenuClick \/ CreateKey \/ CreateClick
              \/ BrowseKey \/ BrowseClick \/ LeaveByKey \/ LeaveByClick

GameInput == \/ TogglePause \/ Spectate \/ DialogToMenu \/ ClickPaused
             \/ ExitHud \/ GameOverToMenu \/ VictoryToMenu

Frame == \/ Switch \/ UpdateQuietly \/ UpdateLobby
         \/ UpdatePaused \/ UpdateGoesOn \/ UpdateEnds \/ Save

Next == \/ MenuInput \/ LobbyInput \/ GameInput \/ Frame \/ Network
        \/ Start \/ Quit \/ Killed

Spec == Init /\ [][Next]_vars

----------------------------------------------------------------------------
(* Properties.                                                             *)

MenuOK  == /\ page.wanted \in KeyCodes /\ page.tint \in 0..(Modes - 1)
LobbyOK == /\ page.mode \in {"main", "create", "browse", "room"}
           /\ page.local \in Ids \cup {0} /\ page.news \in Ids \cup {0}
           /\ page.rooms \in Seq(Rooms) /\ page.picked \in 0..Len(page.rooms)
GameOK  == {page.multi, page.over, page.allDead, page.choice, page.chosen} \subseteq BOOLEAN

Entries == [list : Lists, name : Names, score : Nat, at : Nat]

TypeOK ==
    /\ page.is \in {"off", "menu", "modes", "settings", "lobby", "game"}
    /\ page.is = "menu" => MenuOK
    /\ page.is = "lobby" => LobbyOK
    /\ page.is = "game" => GameOK
    /\ next \in Screens \cup {""} /\ turn \in {"input", "update", "saving"}
    /\ client \in [connected : BOOLEAN, me : Ids \cup {0}, ship : BOOLEAN, dead : BOOLEAN]
    /\ seat \in Ids \cup {0} /\ asked \in Nat /\ given \subseteq Ids \cup {0}
    /\ won \in BOOLEAN /\ keys \in KeyCodes /\ colours \in 0..(Modes - 1)
    /\ board \subseteq Entries /\ file \subseteq Entries
    /\ \A l \in Lists : Cardinality(On(board, l)) <= MaxScores

(* What the user sees is what the client acts on: the button of a room     *)
(* joins that room, whatever lists came in meanwhile;                      *)
ButtonsAreRooms == \A i \in DOMAIN page.shown : i \in DOMAIN page.rooms
                                                /\ page.rooms[i] = page.shown[i]

(* the settings, when they are opened, show what is in force, whichever    *)
(* way they were closed the last time;                                     *)
SettingsAreReal == page.open /\ ~page.edited => page.wanted = keys /\ page.tint = colours

(* and whoever is offered to start the game is the first player of its     *)
(* room, unless this lobby left a room before or was told of a seat there, *)
(* the client joined again before it left, or it took the PlayerJoin of a  *)
(* peer, of a room it left or of a full one for the answer to its own.     *)
StarterIsFirst ==
    MayStart /\ ~page.left /\ ~kept /\ ~stray =>
       seat = 1 /\ (client.connected => client.me = 1)

ScreensTellTheTruth ==
    /\ page.is = "menu" => SettingsAreReal
    /\ page.is = "lobby" => ButtonsAreRooms /\ StarterIsFirst

(* A game is scored at most once, and a solo game is over only if it was   *)
(* played: the client's ship was there, or the client still took itself    *)
(* for connected to an earlier room.                                       *)
ScoresArePlayed ==
    /\ saves <= games
    /\ page.is = "game" /\ page.over /\ ~page.multi => page.seen \/ page.stale

(* A score with a name the file can carry leaves the board only for better *)
(* ones of the same list, over ends and starts of the process, unless the  *)
(* process ended while the file was being written.                         *)
PushedOut(e) == Cardinality(On(board, e.list)') = MaxScores
                /\ \A k \in On(board, e.list)' : k.score >= e.score
ScoresStay ==
    [][\A e \in board :
          Plain(e) => \/ e \in board'
                      \/ PushedOut(e)
                      \/ page = Gone /\ turn = "saving"]_vars
=============================================================================
