----------------------------- MODULE SnakeClient -----------------------------
(***************************************************************************)
(* A player's program that knows of a SnakeMatch what the server sends it: *)
(* the placements of game_start, then after each turn the positions of the *)
(* heads and the events (games/snake/protocol.md).                         *)
(***************************************************************************)
EXTENDS SnakeMatch

SE == INSTANCE SequencesExt

VARIABLE view   \* the snakes as the program draws them, and those it has seen die

clientVars == <<vars, view>>

\* MakeGameStart: placements, the tail first.
Placements == [s \in Snakes |-> SE!Reverse(points[s])]

Bug_SendsTheTails ==
  [positions |-> [s \in Snakes |-> points[s][Len(points[s])]], deaths |-> events]

\* MakeGameStatus: the heads of all snakes, also of the dead, and events_.
MakeGameStatus == [positions |-> [s \in Snakes |-> Front(s)], deaths |-> events]

\* "Only current head positions are sent, along with events": what was alive
\* moves its head there and gives up its tail; then the deaths.
Followed(old, status) ==
  [points |-> [s \in Snakes |->
      IF s \in old.dead THEN old.points[s]
      ELSE <<status.positions[s]>> \o SubSeq(old.points[s], 1, Len(old.points[s]) - 1)],
   dead |-> old.dead \cup SE!ToSet(status.deaths)]

ClientInit ==
  /\ Init
  /\ view = [points |-> [s \in Snakes |-> SE!Reverse(Placements[s])], dead |-> {}]

\* The last turn's status is not sent.
Report ==
  /\ Mark
  /\ view' = IF pc' = "over" THEN view ELSE Followed(view, MakeGameStatus)

ClientNext ==
  \/ (\E actions \in [Snakes -> Actions] : Move(actions)) /\ UNCHANGED view
  \/ Collide /\ UNCHANGED view
  \/ Report

ClientSpec == ClientInit /\ [][ClientNext]_clientVars

-----------------------------------------------------------------------------
(* Properties.                                                             *)

\* protocol.md:44-45 reduces the data to heads and events: that is enough to
\* know the whole board when the next action is due.
ClientCanFollow == pc = "move" => view = [points |-> points, dead |-> dead]

\* A snake dies only of what its player's program can see: in the picture after
\* the turn its head is off the board, or on another tile of its own, or on a
\* snake that was alive in the picture before; no mark that a client does not
\* know of kills.
DeathsAreVisible ==
  pc = "mark" =>
    LET seen == Followed(view, MakeGameStatus) IN
    \A s \in SE!ToSet(events) :
      LET head == Head(seen.points[s]) IN
      \/ ~Inside(head)
      \/ \E r \in Snakes \ view.dead : \E i \in DOMAIN seen.points[r] :
           <<r, i>> # <<s, 1>> /\ seen.points[r][i] = head
=============================================================================
