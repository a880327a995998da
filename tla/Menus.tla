-------------------------------- MODULE Menus --------------------------------
(***************************************************************************)
(* The client's screens: StateManager, MenuState, ModeSelectionState and   *)
(* SoloSettingsState, with what of the client and of the renderer outlives *)
(* a screen.  Lobby.tla adds LobbyState, Screens.tla GameState.            *)
(*                                                                         *)
(* A frame handles the input events there are, then makes the screen that  *)
(* was asked for the current one, then updates it.  The network thread     *)
(* comes in between at any point.  A screen is a new object each time: its *)
(* state is the record `page', whose field `is' says which one it is.      *)
(*                                                                         *)
(* Of the client only its identity and its own ship are here;              *)
(* ClientSession.tla has the messages behind them.  Which button the arrow *)
(* keys have come to is left out: keys reach what a click reaches.         *)
(***************************************************************************)
EXTENDS Scores, SequencesExt

CONSTANTS
    Ids,        \* player ids
    Rooms,      \* session ids
    Points,     \* scores a game can end with
    KeyCodes,   \* keyboard keys
    FirstKey,   \* what the action is bound to at first
    Modes,      \* number of colour modes
    MaxJoins,   \* bound on the joins the client sends
    MaxGames    \* bound on the solo games it enters

ASSUME ScreensAssumption ==
    /\ Ids \subseteq Nat \ {0} /\ 1 \in Ids /\ IsFiniteSet(Ids) /\ Points \subseteq Nat
    /\ Modes \in Nat \ {0} /\ FirstKey \in KeyCodes /\ MaxJoins \in Nat /\ MaxGames \in Nat

VARIABLES
    page,     \* current_state_
    next,     \* pending_state_, "" if there is none
    turn,     \* "input", or the step of the frame that must come next
    client,   \* [connected, me, ship, dead]: connected_, player_id_, whether
              \* the registry has a ship of that id, and one without lives
    seat,     \* the id that the last room to take the client in gave it, 0
              \* if it has none or left that room
    asked,    \* joins the server has not decided on
    given,    \* ids that PlayerJoin and LobbyUpdate may bring: of the seats
              \* the client was given, late ones too, and 0 of a refusal
    won,      \* stage_cleared_ and game_finished_ of the renderer
    keys,     \* key_bindings_ of the renderer, of one action
    colours,  \* current_mode_ of the accessibility manager
    board,    \* solo_scores and multi_scores of the scoreboard manager
    file,     \* scoreboard.txt
    joins, games, saves,   \* joins sent, games entered, scores saved
    kept,     \* history: joined again before it left
    stray     \* history: the identity it took is not the one of its seat

frame   == <<next, turn>>
session == <<client, seat, asked, given, kept, stray>>
lasting == <<won, keys, colours>>
scores  == <<board, file, saves>>
count   == <<joins, games>>
vars    == <<page, frame, session, lasting, scores, count>>

Screens == {"menu", "modes", "settings", "lobby", "solo", "multi"}
Gone    == [is |-> "off"]

----------------------------------------------------------------------------
(* What each screen is when it is constructed and entered.                 *)

Menu == [is |-> "menu", open |-> FALSE, target |-> FALSE,
         wanted |-> keys, tint |-> colours, edited |-> FALSE]
ModeSelection == [is |-> "modes"]
SoloSettings  == [is |-> "settings"]

(* local_player_id_ for a client that has an identity.                     *)
Known(p) == IF client.connected THEN [p EXCEPT !.local = client.me] ELSE p

Lobby == Known([is |-> "lobby", mode |-> "main", local |-> 0, news |-> 0,
                started |-> FALSE, rooms |-> <<>>, shown |-> <<>>, picked |-> 0,
                fresh |-> FALSE, left |-> FALSE])

Game(multi, list) ==
               [is |-> "game", multi |-> multi, list |-> list, over |-> FALSE,
                allDead |-> FALSE, choice |-> FALSE, chosen |-> FALSE, saved |-> FALSE,
                paused |-> FALSE, panel |-> FALSE, startSent |-> multi,
                seen |-> FALSE, stale |-> client.connected]

Idle == [connected |-> FALSE, me |-> 0, ship |-> FALSE, dead |-> FALSE]

Init == /\ page = Gone /\ next = "menu" /\ turn = "input"
        /\ client = Idle /\ seat = 0 /\ asked = 0 /\ given = {}
        /\ kept = FALSE /\ stray = FALSE
        /\ won = FALSE /\ keys = FirstKey /\ colours = 0
        /\ board = {} /\ file = {} /\ joins = 0 /\ games = 0 /\ saves = 0

----------------------------------------------------------------------------
(* The client's calls.                                                     *)

(* create_room and join_room: what is not left is kept.                    *)
Join == /\ joins < MaxJoins /\ joins' = joins + 1                    \* bound
        /\ asked' = asked + 1
        /\ kept' = (kept \/ client.connected \/ asked > 0 \/ seat # 0)

(* leave_room does nothing for a client that is not connected.             *)
LeaveRoom == IF client.connected THEN client' = Idle /\ seat' = 0 /\ stray' = FALSE
             ELSE UNCHANGED <<client, seat, stray>>

ClearRegistry == client' = [client EXCEPT !.ship = FALSE, !.dead = FALSE]

(* A room took the client in: its messages come in from then on, even      *)
(* after it was left.                                                      *)
Hears == given \cap Ids # {}

----------------------------------------------------------------------------
(* StateManager.                                                           *)

Goto(s) == next' = s

(* process_pending_state_change: on_exit of the old screen, on_enter of    *)
(* the new one.  MenuState::on_enter loads the scores.                     *)
EnterMenu ==
    /\ next = "menu" /\ page' = Menu /\ board' = Loaded(file)
    /\ UNCHANGED <<session, lasting, file, saves, count>>

EnterModes ==
    /\ next = "modes" /\ page' = ModeSelection
    /\ UNCHANGED <<session, lasting, scores, count>>

EnterSettings ==
    /\ next = "settings" /\ page' = SoloSettings
    /\ UNCHANGED <<session, lasting, scores, count>>

EnterLobby ==
    /\ next = "lobby" /\ page' = Lobby
    /\ UNCHANGED <<session, lasting, scores, count>>

(* GameState::on_enter: a solo game creates a room of its own.  It sleeps  *)
(* before the first update, and the network thread goes on.  The ships of  *)
(* players it counts then, more than one or not, say which list the score  *)
(* of this game belongs to; they may be of another room.                   *)
EnterGame ==
    \E list \in Lists :
       \/ /\ next = "multi" /\ page' = Game(TRUE, list)
          /\ UNCHANGED <<session, lasting, scores, count>>
       \/ /\ next = "solo" /\ page' = Game(FALSE, list)
          /\ Join
          /\ games < MaxGames /\ games' = games + 1                  \* bound
          /\ UNCHANGED <<client, seat, given, stray, lasting, scores>>

Switch ==
    /\ turn = "input" /\ next # ""
    /\ EnterMenu \/ EnterModes \/ EnterSettings \/ EnterLobby \/ EnterGame
    /\ next' = "" /\ turn' = "update"

\* mutant: the screen is updated first, and changed afterwards.
MutUpdates(s) == page.is = s /\ turn \in {"input", "update"}

(* update of the current screen, after the change.                         *)
Updates(s) == page.is = s /\ (turn = "update" \/ (turn = "input" /\ next = ""))

UpdateQuietly ==
    /\ turn = "update" /\ page.is \in {"menu", "modes", "settings"}
    /\ turn' = "input"
    /\ UNCHANGED <<page, next, session, lasting, scores, count>>

Input(s) == page.is = s /\ turn = "input"

(* The window is closed, or the process killed at any moment; turn stays   *)
(* as it was, to tell where.                                               *)
Stop == /\ page' = Gone /\ next' = "" /\ UNCHANGED turn
        /\ client' = Idle /\ seat' = 0 /\ asked' = 0 /\ given' = {}
        /\ kept' = FALSE /\ stray' = FALSE
        /\ won' = FALSE /\ keys' = FirstKey /\ colours' = 0
        /\ UNCHANGED <<scores, count>>

Quit   == page # Gone /\ turn = "input" /\ Stop
Killed == page # Gone /\ Stop

(* A new process: Client's constructor loads the scores.                   *)
Start == /\ page = Gone /\ next = ""
         /\ next' = "menu" /\ turn' = "input" /\ board' = Loaded(file)
         /\ UNCHANGED <<page, session, lasting, file, saves, count>>

----------------------------------------------------------------------------
(* MenuState.                                                              *)

\* mutant: the settings open as they were closed.
MutOpenSettings == page' = [page EXCEPT !.open = TRUE, !.edited = FALSE]

(* The settings open with what is in force.                                *)
OpenSettings == page' = [page EXCEPT !.open = TRUE, !.wanted = keys,
                                     !.tint = colours, !.edited = FALSE]

MenuKey ==
    /\ Input("menu") /\ ~page.open
    /\ \/ Goto("modes") /\ UNCHANGED page
       \/ OpenSettings /\ UNCHANGED next
    /\ UNCHANGED <<turn, session, lasting, scores, count>>

MenuClick ==
    /\ Input("menu") /\ ~page.open
    /\ \/ Goto("modes") /\ UNCHANGED page
       \/ OpenSettings /\ UNCHANGED next
    /\ UNCHANGED <<turn, session, lasting, scores, count>>

BeginRebinding ==
    /\ Input("menu") /\ page.open
    /\ page' = [page EXCEPT !.target = TRUE]
    /\ UNCHANGED <<frame, session, lasting, scores, count>>

(* The next key is the new binding, but for Escape.                        *)
Rebind ==
    /\ Input("menu") /\ page.open /\ page.target
    /\ \/ page' = [page EXCEPT !.target = FALSE]
       \/ \E k \in KeyCodes : page' = [page EXCEPT !.target = FALSE, !.wanted = k,
                                                   !.edited = TRUE]
    /\ UNCHANGED <<frame, session, lasting, scores, count>>

CycleColours ==
    /\ Input("menu") /\ page.open
    /\ page' = [page EXCEPT !.tint = (@ + 1) % Modes, !.edited = TRUE]
    /\ UNCHANGED <<frame, session, lasting, scores, count>>

Confirm ==
    /\ Input("menu") /\ page.open
    /\ colours' = page.tint /\ keys' = page.wanted
    /\ page' = [page EXCEPT !.open = FALSE, !.target = FALSE]
    /\ UNCHANGED <<frame, session, won, scores, count>>

Cancel ==
    /\ Input("menu") /\ page.open
    /\ page' = [page EXCEPT !.open = FALSE, !.target = FALSE, !.wanted = keys,
                            !.tint = colours]
    /\ UNCHANGED <<frame, session, lasting, scores, count>>

(* Escape closes the settings and lets the wanted keys stand.              *)
Escape ==
    /\ Input("menu") /\ page.open /\ ~page.target
    /\ page' = [page EXCEPT !.open = FALSE, !.tint = colours]
    /\ UNCHANGED <<frame, session, lasting, scores, count>>

----------------------------------------------------------------------------
(* ModeSelectionState and SoloSettingsState.  Difficulty and lives are     *)
(* left out.                                                               *)

Leads(s, to) ==
    /\ Input(s)
    /\ \E t \in to : Goto(t)
    /\ UNCHANGED <<page, turn, session, lasting, scores, count>>

ModeKey   == Leads("modes", {"settings", "lobby", "menu"})
ModeClick == Leads("modes", {"settings", "lobby", "menu"})
SoloInput == Leads("settings", {"solo", "modes"})
=============================================================================
