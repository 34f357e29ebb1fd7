----------------------------- MODULE SnakeMatch -----------------------------
(***************************************************************************)
(* The game of games/snake/match.{h,cpp}: the board, the snakes and what   *)
(* SnakeMatch::ProcessTurn does with the actions of a turn.  The loops of  *)
(* ProcessTurn are steps of their own, the collision loop one per snake,   *)
(* so that what a snake meets depends on the snakes before it as it does   *)
(* in the code.  One thread runs all of it.                                *)
(***************************************************************************)
EXTENDS Integers, Sequences, FiniteSets

CONSTANTS
  NumPlayers,   \* options_.num_players
  X, Y,         \* options_.x, options_.y
  StartLength,  \* options_.starting_length
  MaxTurns      \* options_.max_turns

ASSUME SnakeAssumption ==
  /\ NumPlayers \in 1..4
  /\ X \in Nat /\ Y \in Nat /\ StartLength \in Nat /\ MaxTurns \in Nat \ {0}
  /\ 1 <= StartLength /\ StartLength < X - 1 /\ StartLength < Y - 1   \* 4, 15, 15

Snakes == 0..NumPlayers - 1
kEmpty == -1
Actions == {"left", "right", "forward"}

\* Grid: the points that are Inside.  Heads move one tile beyond them.
Cells == [x : 0..X - 1, y : 0..Y - 1]
Points == [x : -1..X, y : -1..Y]
Directions == {[x |-> 1, y |-> 0], [x |-> -1, y |-> 0],
               [x |-> 0, y |-> 1], [x |-> 0, y |-> -1]}

VARIABLES
  pc,            \* the loop of ProcessTurn that is next
  turn,          \* turns played
  board,         \* board_; apples never appear, nothing spawns them
  points,        \* per snake: Snake::points, the head first
  direction,     \* per snake: Snake::direction
  dead,          \* the snakes with Snake::dead
  events,        \* events_: the deaths of this turn
  at             \* the collision loop has come to this snake

vars == <<pc, turn, board, points, direction, dead, events, at>>

TypeOK ==
  /\ pc \in {"move", "collide", "mark", "over"}
  /\ turn \in 0..MaxTurns
  /\ board \in [Cells -> Snakes \cup {kEmpty}]
  /\ points \in [Snakes -> Seq(Points)]
  /\ direction \in [Snakes -> Directions]
  /\ dead \subseteq Snakes
  /\ events \in Seq(Snakes)
  /\ at \in 0..NumPlayers

Plus(p, q) == [x |-> p.x + q.x, y |-> p.y + q.y]
Inside(p) == p \in Cells
Front(s) == points[s][1]
Body(s) == {points[s][i] : i \in 1..Len(points[s])}
Alive == Snakes \ dead

-----------------------------------------------------------------------------
(* SpawnSnakes                                                             *)

StartingPosition(s) ==
  CASE s = 0 -> [x |-> 1, y |-> 1]     [] s = 1 -> [x |-> X - 1, y |-> Y - 1]
    [] s = 2 -> [x |-> X - 1, y |-> 1] [] s = 3 -> [x |-> 1, y |-> Y - 1]

StartingDirection(s) ==
  CASE s = 0 -> [x |-> 1, y |-> 0] [] s = 1 -> [x |-> -1, y |-> 0]
    [] s = 2 -> [x |-> 0, y |-> 1] [] s = 3 -> [x |-> 0, y |-> -1]

\* push_front from the corner on: the head is StartLength - 1 tiles away.
Spawned(s) ==
  [i \in 1..StartLength |->
     LET p == StartingPosition(s)  d == StartingDirection(s)  n == StartLength - i
     IN  [x |-> p.x + n * d.x, y |-> p.y + n * d.y]]

\* Later snakes are written to the board over earlier ones.
Init ==
  /\ pc = "move" /\ turn = 0 /\ events = <<>> /\ at = 0
  /\ dead = {}
  /\ points = [s \in Snakes |-> Spawned(s)]
  /\ direction = [s \in Snakes |-> StartingDirection(s)]
  /\ board = [c \in Cells |->
       LET on == {s \in Snakes : \E i \in 1..StartLength : Spawned(s)[i] = c}
       IN  IF on = {} THEN kEmpty ELSE CHOOSE s \in on : \A r \in on : r <= s]

-----------------------------------------------------------------------------
(* ProcessTurn                                                             *)

\* Point::RotateLeft and Point::RotateRight
Rotated(d, action) ==
  CASE action = "left"    -> [x |-> -d.y, y |-> d.x]
    [] action = "right"   -> [x |-> d.y, y |-> -d.x]
    [] action = "forward" -> d

Bug_NeverShortened(s, d) == <<Plus(Front(s), d)>> \o points[s]

\* push_front of the new head and ShortenTail
Moved(s, d) == <<Plus(Front(s), d)>> \o SubSeq(points[s], 1, Len(points[s]) - 1)

\* The actions of the players and the moves: every living snake gives its tail
\* tile back and moves its head, which is not on the board yet.
Move(actions) ==
  /\ pc = "move"
  /\ turn < MaxTurns /\ Alive # {}
  /\ events' = <<>>
  /\ LET d(s) == Rotated(direction[s], actions[s])
         tails == {points[s][Len(points[s])] : s \in Alive}
     IN /\ direction' = [s \in Snakes |-> IF s \in dead THEN direction[s] ELSE d(s)]
        /\ points' = [s \in Snakes |->
             IF s \in dead THEN points[s]
             ELSE Moved(s, d(s))]
        /\ board' = [c \in Cells |-> IF c \in tails THEN kEmpty ELSE board[c]]
  /\ pc' = "collide" /\ at' = 0
  /\ UNCHANGED <<turn, dead>>

Bug_LeavesItsBody(S) == dead' = dead \cup S /\ UNCHANGED board

\* KillSnake for each of a set of snakes: every tile under them is emptied,
\* whosever mark it carries.
Kill(S) ==
  /\ dead' = dead \cup S
  /\ board' = [c \in Cells |-> IF \E s \in S : c \in Body(s) THEN kEmpty ELSE board[c]]

Bug_NoWalls(s) == Inside(Front(s)) /\ board[Front(s)] # kEmpty
Bug_OnlyWalls(s) == ~Inside(Front(s))

Crashes(s) == ~Inside(Front(s)) \/ board[Front(s)] # kEmpty

Bug_CountsTheDead(s, living) == {h \in Snakes : Front(h) = Front(s)}
Bug_OnlyOthers(s, living) == {h \in living \ {s} : Front(h) = Front(s)}

\* The living snakes whose heads are where the head of s is, once s itself is
\* dealt with.
SameHeads(s, living) == {h \in living : Front(h) = Front(s)}

\* In the order of KillSnake's calls.
Ascending(S) == CHOOSE q \in [1..Cardinality(S) -> S] :
                  \A i, j \in 1..Cardinality(S) : i < j => q[i] < q[j]

Killed(s) ==
  LET first == IF Crashes(s) THEN {s} ELSE {}
      same == SameHeads(s, Alive \ first)
  IN  [first |-> first, same |-> IF Cardinality(same) > 1 THEN same ELSE {}]

Collide ==
  /\ pc = "collide" /\ at < NumPlayers
  /\ IF at \in dead THEN UNCHANGED <<dead, board, events>>
     ELSE LET k == Killed(at) IN
            /\ Kill(k.first \cup k.same)
            /\ events' = events \o Ascending(k.first) \o Ascending(k.same)
  /\ at' = at + 1
  /\ pc' = IF at' = NumPlayers THEN "mark" ELSE pc
  /\ UNCHANGED <<turn, points, direction>>

\* Heads are marked, current_turn_ grows, and the loop of StartGame goes on.
Mark ==
  /\ pc = "mark"
  /\ board' = [c \in Cells |->
       LET on == {s \in Alive : Front(s) = c}
       IN  IF on = {} THEN board[c] ELSE CHOOSE s \in on : \A r \in on : r <= s]
  /\ turn' = turn + 1
  /\ pc' = IF turn' = MaxTurns \/ Alive = {} THEN "over" ELSE "move"
  /\ UNCHANGED <<points, direction, dead, events, at>>

Next == (\E actions \in [Snakes -> Actions] : Move(actions)) \/ Collide \/ Mark

Spec == Init /\ [][Next]_vars

-----------------------------------------------------------------------------
(* Properties.                                                             *)

\* A tile marked with a snake is under that snake, and the snake lives: no dead
\* snake and no tail leaves a mark behind for others to run into.
NoGhosts ==
  \A c \in Cells : board[c] # kEmpty => board[c] \notin dead /\ c \in Body(board[c])

\* As long as nobody has died, the marks are exact: whatever a head runs into is
\* seen.  (A death may take the mark of a living snake with it, see NoOverlap.)
MarksExactUntilADeath ==
  pc \in {"move", "over"} /\ dead = {} =>
    \A s \in Snakes : \A c \in Body(s) : board[c] = s

\* A living snake is inside the board, except for a head that is still to be
\* checked for its collision: board_ is never indexed out of range.
LivingInside ==
  \A s \in Alive : \A i \in 1..Len(points[s]) :
    Inside(points[s][i]) \/ (i = 1 /\ pc = "collide" /\ at <= s)

\* No two living snakes leave the collisions with their heads on the same tile,
\* whoever of those that met there was looked at first and died of it, also when
\* three of them meet.
HeadsApart ==
  pc \in {"move", "mark", "over"} =>
    \A r, s \in Alive : Front(r) = Front(s) => r = s

\* A snake is a chain of neighbouring tiles of the length it started with.
Neighbours(p, q) == \E d \in Directions : Plus(q, d) = p
SnakesAreChains ==
  \A s \in Snakes : /\ Len(points[s]) = StartLength
                    /\ \A i \in 1..Len(points[s]) - 1 : Neighbours(points[s][i], points[s][i + 1])

\* The deaths of a turn are each reported once, and a dead snake stays where
\* and what it is.
DeathsAreReported ==
  [][/\ dead \subseteq dead'
     /\ \A s \in dead : points'[s] = points[s]
     /\ \A s \in Snakes : s \in dead' \ dead <=>
          pc = "collide" /\ \E i \in Len(events) + 1..Len(events') : events'[i] = s
     /\ pc = "collide" => Len(events') = Len(events) + Cardinality(dead' \ dead)]_vars

\* match.cpp:138: "Check for collisions".  After the collisions of a turn no two
\* living snakes, and no two parts of one, are on the same tile.
NoOverlap ==
  pc \in {"move", "over"} =>
    \A r, s \in Alive : \A i \in 1..Len(points[r]), j \in 1..Len(points[s]) :
      points[r][i] = points[s][j] => r = s /\ i = j
=============================================================================
