-------------------------------- MODULE Lobby --------------------------------
(***************************************************************************)
(* LobbyState: its four modes, what the callbacks of the network thread    *)
(* leave for it, and what its update makes of that.                        *)
(*                                                                         *)
(* page.local is local_player_id_, page.rooms available_rooms_, page.shown *)
(* the rooms whose buttons are on the screen, page.picked the selected one *)
(* (0 for none), page.fresh room_list_needs_update_, page.news the id of a *)
(* pending LobbyUpdate.  page.left is history: this lobby left a room, or  *)
(* was told of a seat in one that was left before.                         *)
(* Text being typed, the chat and the list of players are left out.        *)
(***************************************************************************)
EXTENDS Menus

MaxButtons == 6    \* update_room_list_display

Displayed(rooms) == SubSeq(rooms, 1, IF Len(rooms) < MaxButtons THEN Len(rooms)
                                     ELSE MaxButtons)

Show(p) == [p EXCEPT !.shown = Displayed(p.rooms)]

In(mode) == Input("lobby") /\ page.mode = mode

----------------------------------------------------------------------------
(* MAIN_MENU.                                                              *)

AskForName(p) == [Known(p) EXCEPT !.mode = "create"]

\* mutant: the rooms of the list before stay on the screen.
MutEmptied(p) == [p EXCEPT !.rooms = <<>>, !.picked = 0]
Emptied(p) == [p EXCEPT !.rooms = <<>>, !.picked = 0, !.shown = <<>>]

Browse(p) == [Emptied(Known(p)) EXCEPT !.mode = "browse"]

MainMenuKey ==
    /\ In("main")
    /\ page' = AskForName(page) \/ page' = Browse(page)
    /\ UNCHANGED <<frame, session, lasting, scores, count>>

MainMenuClick ==
    /\ In("main")
    /\ page' = AskForName(page) \/ page' = Browse(page)
    /\ UNCHANGED <<frame, session, lasting, scores, count>>

----------------------------------------------------------------------------
(* CREATE_ROOM.  The user is in the room at once, whatever the server says.*)

BackToMain == /\ page' = [page EXCEPT !.mode = "main"]
              /\ UNCHANGED <<session, count>>

InRoomNow == /\ Join
             /\ page' = [page EXCEPT !.mode = "room"]
             /\ UNCHANGED <<client, seat, given, stray, games>>

CreateKey ==
    /\ In("create")
    /\ InRoomNow \/ BackToMain
    /\ UNCHANGED <<frame, lasting, scores>>

CreateClick ==
    /\ In("create")
    /\ InRoomNow \/ BackToMain
    /\ UNCHANGED <<frame, lasting, scores>>

----------------------------------------------------------------------------
(* BROWSE_ROOMS.  A click joins the room behind a button that is picked    *)
(* already, Enter the room that is picked, wherever it is in the list.     *)

BrowseClick ==
    /\ In("browse")
    /\ \/ \E i \in DOMAIN page.shown : i = page.picked /\ InRoomNow
       \/ BackToMain
       \/ /\ \/ page' = Emptied(page)
             \/ \E i \in DOMAIN page.shown :
                   i # page.picked /\ page' = Show([page EXCEPT !.picked = i])
          /\ UNCHANGED <<session, count>>
    /\ UNCHANGED <<frame, lasting, scores>>

(* Up and Down move from room to room, Up from none to the last.           *)
Up   == IF page.picked = 0 THEN Len(page.rooms)
        ELSE IF page.picked = 1 THEN 1 ELSE page.picked - 1
\* mutant: Down goes past the last room.
MutDown == page.picked + 1

Down == IF page.picked < Len(page.rooms) THEN page.picked + 1 ELSE page.picked

BrowseKey ==
    /\ In("browse")
    /\ \/ page.picked \in DOMAIN page.rooms /\ InRoomNow
       \/ BackToMain
       \/ /\ \E i \in {Up, Down} : page' = Show([page EXCEPT !.picked = i])
          /\ UNCHANGED <<session, count>>
    /\ UNCHANGED <<frame, lasting, scores>>

----------------------------------------------------------------------------
(* IN_ROOM.  Leaving resets the players and the list, not                  *)
(* local_player_id_.  Who is player 1 here may start the game: the server  *)
(* is sent a GameStart, which changes nothing here.                        *)

Forget(p) == [Emptied(p) EXCEPT !.mode = "browse", !.left = TRUE]

LeaveByKey ==
    /\ In("room")
    /\ LeaveRoom /\ page' = Forget(page)
    /\ UNCHANGED <<frame, asked, given, kept, lasting, scores, count>>

LeaveByClick ==
    /\ In("room")
    /\ LeaveRoom /\ page' = Forget(page)
    /\ UNCHANGED <<frame, asked, given, kept, lasting, scores, count>>

MayStart == page.is = "lobby" /\ page.mode = "room" /\ page.local = 1

----------------------------------------------------------------------------
(* The callbacks, on the network thread.                                   *)

InLobby == page.is = "lobby"

(* add_room: a room not in the list goes to its end.                       *)
AddRoom(r) ==
    /\ InLobby
    /\ page' = [page EXCEPT !.fresh = TRUE,
                            !.rooms = IF r \in ToSet(@) THEN @ ELSE Append(@, r)]
    /\ UNCHANGED <<frame, session, lasting, scores, count>>

(* LobbyUpdate tells the client its id, in the room it comes from.         *)
LobbyUpdate(id) ==
    /\ InLobby /\ id \in given \ {0}
    /\ page' = [page EXCEPT !.news = id, !.left = @ \/ id # seat]
    /\ UNCHANGED <<frame, session, lasting, scores, count>>

GameStart ==
    /\ InLobby /\ Hears
    /\ page' = [page EXCEPT !.started = TRUE]
    /\ UNCHANGED <<frame, session, lasting, scores, count>>

----------------------------------------------------------------------------
(* update.                                                                 *)

(* An id that is there is not replaced, by the client's or the server's.   *)
Numbered(p) == [p EXCEPT !.local = IF @ = 0 /\ client.connected THEN client.me ELSE @]
Informed(p) == [p EXCEPT !.local = IF @ = 0 THEN p.news ELSE @, !.news = 0]

Listed(p) == IF p.mode = "browse" /\ p.fresh THEN [Show(p) EXCEPT !.fresh = FALSE]
             ELSE p

UpdateLobby ==
    /\ Updates("lobby")
    /\ page' = Listed(Informed(Numbered(page)))
    /\ next' = IF page.started THEN "multi" ELSE next
    /\ turn' = "input"
    /\ UNCHANGED <<session, lasting, scores, count>>
=============================================================================
