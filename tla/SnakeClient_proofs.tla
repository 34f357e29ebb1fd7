-------------------------- MODULE SnakeClient_proofs --------------------------
(***************************************************************************)
(* What a player's program can know of the game, for every board, length   *)
(* and number of turns.                                                    *)
(***************************************************************************)
EXTENDS SnakeClient, SnakeMatch_proofs

\* The death of s can be explained by snakes that the program has not seen die.
Visible(s) ==
  \/ ~Inside(Front(s))
  \/ \E r \in Snakes \ view.dead : \E i \in 1..StartLength :
       <<r, i>> # <<s, 1>> /\ points[r][i] = Front(s)

EventsVisible == \A i \in 1..Len(events) : Visible(events[i])

\* While a turn is played, the status that could be made of it leads from the
\* view to the snakes as they are, and heads are not marked on the board.
TurnInv ==
  pc \in {"collide", "mark"} =>
    /\ Followed(view, MakeGameStatus) = [points |-> points, dead |-> dead]
    /\ EventsVisible

MarkedBehind ==
  pc = "collide" =>
    \A c \in Cells : board[c] # kEmpty =>
      \E i \in 2..StartLength : points[board[c]][i] = c

ViewInv == ClientCanFollow /\ TurnInv /\ MarkedBehind

-----------------------------------------------------------------------------
\* MakeGameStart sends the snakes in the order they are read in again.
LEMMA PlacementsAreReadBack ==
  ASSUME NEW q \in Seq(Points)
  PROVE  SE!Reverse(SE!Reverse(q)) = q
<1> DEFINE r == SE!Reverse(q)
<1>1. Len(q) \in Nat /\ q = [i \in 1..Len(q) |-> q[i]]
  BY SeqDef
<1>2. r = [i \in 1..Len(q) |-> q[(Len(q) - i) + 1]]
  BY DEF SE!Reverse
<1>3. r \in Seq(Points) /\ Len(r) = Len(q)
  <2>1. \A i \in 1..Len(q) : (Len(q) - i) + 1 \in 1..Len(q)
    BY <1>1
  <2>2. \A i \in 1..Len(q) : q[(Len(q) - i) + 1] \in Points
    BY <2>1, ElementOfSeq
  <2> QED
    BY <1>1, <1>2, <2>2, SeqDef, LenProperties
<1>4. SE!Reverse(r) = [i \in 1..Len(r) |-> r[(Len(r) - i) + 1]]
  BY DEF SE!Reverse
<1>5. \A i \in 1..Len(q) : r[(Len(q) - i) + 1] = q[i]
  <2> SUFFICES ASSUME NEW i \in 1..Len(q) PROVE r[(Len(q) - i) + 1] = q[i]
    OBVIOUS
  <2>1. (Len(q) - i) + 1 \in 1..Len(q) /\ (Len(q) - ((Len(q) - i) + 1)) + 1 = i
    BY <1>1
  <2> QED
    BY <1>2, <2>1
<1> HIDE DEF r
<1> QED
  BY <1>1, <1>3, <1>4, <1>5 DEF r

LEMMA ViewInit == ClientInit => ViewInv
<1> SUFFICES ASSUME ClientInit PROVE ViewInv
  OBVIOUS
<1>1. SnakeInv /\ pc = "move" /\ dead = {} /\ points = [s \in Snakes |-> Spawned(s)]
  BY InitSnake DEF ClientInit, Init
<1>2. \A s \in Snakes : SE!Reverse(Placements[s]) = points[s]
  BY <1>1, PlacementsAreReadBack DEF Placements, SnakeInv, TypeOK
<1>3. [s \in Snakes |-> SE!Reverse(Placements[s])] = points
  BY <1>1, <1>2
<1>4. view = [points |-> points, dead |-> dead]
  BY <1>1, <1>3 DEF ClientInit
<1> QED
  BY <1>1, <1>4 DEF ViewInv, ClientCanFollow, TurnInv, MarkedBehind

\* The heads move as they are said to, and a tile keeps its mark only under a
\* part that has moved off the front.
LEMMA ViewMove ==
  ASSUME SnakeInv, ViewInv, NEW actions \in [Snakes -> Actions], Move(actions), UNCHANGED view
  PROVE  ViewInv'
<1>1. /\ pc = "move" /\ pc' = "collide" /\ events' = <<>> /\ dead' = dead
      /\ \A s \in Alive : \A i \in 2..StartLength : points'[s][i] = points[s][i - 1]
      /\ board' = [c \in Cells |->
           IF \E s \in Alive : c = points[s][StartLength] THEN kEmpty ELSE board[c]]
  BY MoveEffect
<1>2. view' = [points |-> points, dead |-> dead]
  BY <1>1 DEF ViewInv, ClientCanFollow
<1>3. Followed(view, MakeGameStatus)' = [points |-> points', dead |-> dead']
  <2> DEFINE d(s) == Rotated(direction[s], actions[s])
  <2>1. points' = [s \in Snakes |-> IF s \in dead THEN points[s] ELSE Moved(s, d(s))]
    BY DEF Move
  <2>2. MakeGameStatus' = [positions |-> [s \in Snakes |-> points'[s][1]], deaths |-> <<>>]
    BY <1>1 DEF MakeGameStatus, Front
  <2>3. ASSUME NEW s \in Snakes, s \notin dead
        PROVE  points'[s] = <<points'[s][1]>> \o SubSeq(points[s], 1, Len(points[s]) - 1)
    <3> HIDE DEF d
    <3>1. points'[s] = <<Plus(Front(s), d(s))>> \o SubSeq(points[s], 1, Len(points[s]) - 1)
      BY <2>1, <2>3 DEF Moved
    <3>2. points[s] \in Seq(Points) /\ Len(points[s]) = StartLength /\ StartLength \in Nat
      BY PartsArePoints
    <3>3. Plus(Front(s), d(s)) \in Points
      <4>1. d(s) \in Directions
        BY RotatedIsDirection DEF SnakeInv, TypeOK, d
      <4>2. Front(s) \in Cells
        BY <1>1, <2>3, RestingInside, PartsArePoints DEF Front, Alive
      <4> QED
        BY <4>1, <4>2, StepStaysNear
    <3>4. points'[s][1] = Plus(Front(s), d(s))
      BY <3>1, <3>2, <3>3, Shifted
    <3> QED
      BY <3>1, <3>4
  <2>4. SE!ToSet(<<>>) = {}
    BY DEF SE!ToSet
  <2> DEFINE new == [s \in Snakes |->
                       IF s \in dead THEN points[s]
                       ELSE <<points'[s][1]>> \o SubSeq(points[s], 1, Len(points[s]) - 1)]
  <2>5. Followed(view, MakeGameStatus)' = [points |-> new, dead |-> dead]
    <3>1. ASSUME NEW old, old = [points |-> points, dead |-> dead],
                 NEW status, status = [positions |-> [s \in Snakes |-> points'[s][1]], deaths |-> <<>>]
          PROVE  Followed(old, status) = [points |-> new, dead |-> dead]
      BY <2>4, <3>1 DEF Followed
    <3>2. Followed(view, MakeGameStatus)' = Followed(view', MakeGameStatus')
      OBVIOUS
    <3> QED
      BY <1>2, <2>2, <3>1, <3>2
  <2>6. new = points'
    BY <2>1, <2>3
  <2> QED
    BY <1>1, <2>5, <2>6
<1>4. TurnInv'
  BY <1>1, <1>3 DEF TurnInv, EventsVisible
<1>5. MarkedBehind'
  <2> SUFFICES ASSUME NEW c \in Cells, board'[c] # kEmpty
               PROVE  \E i \in 2..StartLength : points'[board'[c]][i] = c
    BY DEF MarkedBehind
  <2>1. board'[c] = board[c] /\ ~\E s \in Alive : c = points[s][StartLength]
    BY <1>1
  <2> DEFINE r == board[c]
  <2>2. r \in Alive /\ c \in Body(r)
    BY <2>1 DEF SnakeInv, NoGhosts, TypeOK, Alive
  <2>3. PICK i \in 1..StartLength : points[r][i] = c
    BY <2>2, BodyTiles DEF Alive
  <2>4. i + 1 \in 2..StartLength /\ (i + 1) - 1 = i
    BY <2>1, <2>2, <2>3, SnakeAssumption
  <2> QED
    BY <1>1, <2>1, <2>2, <2>3, <2>4
<1> QED
  BY <1>1, <1>4, <1>5 DEF ViewInv, ClientCanFollow

\* A step of the collision loop adds to the events those it kills.
LEMMA EventsGrow ==
  ASSUME SnakeInv, Collide
  PROVE  /\ events' \in Seq(Snakes) /\ Len(events) \in Nat /\ Len(events') \in Nat
         /\ \A i \in 1..Len(events) : i \in 1..Len(events') /\ events'[i] = events[i]
         /\ \A i \in Len(events) + 1..Len(events') : events'[i] \in Dying
         /\ \A s \in Dying : \E i \in Len(events) + 1..Len(events') : events'[i] = s
<1>1. events \in Seq(Snakes)
  BY DEF SnakeInv, TypeOK
<1>2. CASE at \in dead
  BY <1>1, <1>2, LenProperties DEF Collide, Dying
<1>3. CASE at \notin dead
  <2> DEFINE S == Killed(at).first
             T == Killed(at).same
  <2>1. Dying = S \cup T /\ Dying \subseteq Alive
    BY <1>3, CollideEffect DEF Dying
  <2>2. S \in SUBSET Snakes /\ T \in SUBSET Snakes
    BY <2>1 DEF Alive
  <2>3. events' = events \o Ascending(S) \o Ascending(T)
    BY <1>3 DEF Collide
  <2>4. DeathStep /\ pc = "collide" /\ dead' = dead \cup Dying
    BY CollideReports, CollideEffect
  <2> HIDE DEF S, T
  <2>5. Ascending(S) \in Seq(Snakes) /\ Ascending(T) \in Seq(Snakes)
    BY <2>2, AscendingLists
  <2> DEFINE g == events \o Ascending(S)
  <2>6. /\ g \in Seq(Snakes) /\ Len(g) = Len(events) + Len(Ascending(S))
        /\ \A i \in 1..Len(events) + Len(Ascending(S)) :
             g[i] = IF i <= Len(events) THEN events[i] ELSE Ascending(S)[i - Len(events)]
    BY <1>1, <2>5, Concatenated
  <2> HIDE DEF g
  <2>7. /\ events' \in Seq(Snakes) /\ Len(events') = Len(g) + Len(Ascending(T))
        /\ \A i \in 1..Len(g) + Len(Ascending(T)) :
             events'[i] = IF i <= Len(g) THEN g[i] ELSE Ascending(T)[i - Len(g)]
    BY <2>3, <2>5, <2>6, Concatenated DEF g
  <2>8. Len(events) \in Nat /\ Len(Ascending(S)) \in Nat /\ Len(Ascending(T)) \in Nat
    BY <1>1, <2>5, LenProperties
  <2>9. \A i \in 1..Len(events) : i \in 1..Len(events') /\ events'[i] = events[i]
    BY <2>6, <2>7, <2>8
  <2>10. \A i \in Len(events) + 1..Len(events') : events'[i] \in Snakes
    BY <2>6, <2>7, <2>8, ElementOfSeq
  <2>11. dead' \ dead = Dying
    BY <2>1, <2>4 DEF Alive
  <2>12. \A s \in Snakes : s \in Dying <=> \E i \in Len(events) + 1..Len(events') : events'[i] = s
    BY <2>4, <2>11 DEF DeathStep
  <2>13. Len(events') \in Nat
    BY <2>6, <2>7, <2>8
  <2> QED
    BY <2>1, <2>2, <2>7, <2>8, <2>9, <2>10, <2>12, <2>13
<1> QED
  BY <1>2, <1>3

\* Whom a step of the collision loop kills has left the board, met a mark, or
\* shares its tile with another living head.
LEMMA DyingIsVisible ==
  ASSUME SnakeInv, ViewInv, Collide, NEW s \in Dying
  PROVE  Visible(s)
<1>1. /\ pc = "collide" /\ at \in Snakes /\ Dying \subseteq Alive
      /\ at \notin dead /\ s \in Alive /\ s \in Snakes
  BY CollideEffect DEF Dying, Alive
<1>2. view.dead \subseteq dead
  BY <1>1 DEF ViewInv, TurnInv, Followed
<1>3. StartLength \in Nat /\ 1 <= StartLength
  BY SnakeAssumption
<1>4. CASE s = at /\ Crashes(at)
  <2>1. CASE ~Inside(Front(s))
    BY <2>1 DEF Visible
  <2>2. CASE Inside(Front(s))
    <3>1. Front(s) \in Cells /\ board[Front(s)] # kEmpty
      BY <1>4, <2>2 DEF Crashes, Inside
    <3> DEFINE r == board[Front(s)]
    <3>2. PICK i \in 2..StartLength : points[r][i] = Front(s)
      BY <1>1, <3>1 DEF ViewInv, MarkedBehind
    <3>3. r \in Snakes \ view.dead
      BY <1>2, <3>1 DEF SnakeInv, TypeOK, NoGhosts
    <3>4. i \in 1..StartLength /\ i # 1
      BY <1>3
    <3> QED
      BY <3>2, <3>3, <3>4 DEF Visible
  <2> QED
    BY <2>1, <2>2
<1>5. CASE ~(s = at /\ Crashes(at))
  <2> DEFINE first == IF Crashes(at) THEN {at} ELSE {}
             same == SameHeads(at, Alive \ first)
  <2>1. s \in same /\ Cardinality(same) > 1
    BY <1>1, <1>5 DEF Dying, Killed
  <2>2. PICK h \in same : h # s
    <3>1. CASE same = {s}
      <4>1. Cardinality({s}) = 1
        BY FS_Singleton
      <4> QED
        BY <2>1, <3>1, <4>1
    <3>2. CASE same # {s}
      BY <2>1, <3>2
    <3> QED
      BY <3>1, <3>2
  <2>3. h \in Alive /\ Front(h) = Front(s)
    BY <2>1, <2>2 DEF SameHeads
  <2>4. h \in Snakes \ view.dead /\ points[h][1] = Front(s)
    BY <1>2, <2>3 DEF Alive, Front
  <2>5. <<h, 1>> # <<s, 1>> /\ 1 \in 1..StartLength
    BY <1>3, <2>2
  <2> QED
    BY <2>4, <2>5 DEF Visible
<1> QED
  BY <1>4, <1>5

LEMMA ViewCollide ==
  ASSUME SnakeInv, ViewInv, Collide, UNCHANGED view
  PROVE  ViewInv'
<1>1. /\ pc = "collide" /\ pc' \in {"collide", "mark"} /\ points' = points
      /\ Dying \subseteq Alive /\ dead' = dead \cup Dying
      /\ \A c \in Cells : board'[c] = IF \E s \in Dying : c \in Body(s) THEN kEmpty ELSE board[c]
  BY CollideEffect
<1>2. /\ \A i \in 1..Len(events) : i \in 1..Len(events') /\ events'[i] = events[i]
      /\ \A i \in Len(events) + 1..Len(events') : events'[i] \in Dying
      /\ \A s \in Dying : \E i \in Len(events) + 1..Len(events') : events'[i] = s
      /\ Len(events) \in Nat /\ Len(events') \in Nat
      /\ events \in Seq(Snakes) /\ events' \in Seq(Snakes)
  BY EventsGrow DEF SnakeInv, TypeOK
<1>3. \A i \in 1..Len(events') : i \in 1..Len(events) \/ i \in Len(events) + 1..Len(events')
  BY <1>2
<1>4. SE!ToSet(events') = SE!ToSet(events) \cup Dying
  <2>1. /\ SE!ToSet(events) = {events[i] : i \in 1..Len(events)}
        /\ SE!ToSet(events') = {events'[i] : i \in 1..Len(events')}
    BY <1>2, LenProperties DEF SE!ToSet
  <2>2. Len(events) + 1..Len(events') \subseteq 1..Len(events')
    BY <1>2
  <2> QED
    BY <1>2, <1>3, <2>1, <2>2
<1>5. Followed(view, MakeGameStatus)' = [points |-> points', dead |-> dead']
  <2> DEFINE drawn == [s \in Snakes |->
                IF s \in view.dead THEN view.points[s]
                ELSE <<Front(s)>> \o SubSeq(view.points[s], 1, Len(view.points[s]) - 1)]
  <2>1. Followed(view, MakeGameStatus) = [points |-> drawn, dead |-> view.dead \cup SE!ToSet(events)]
    BY DEF Followed, MakeGameStatus
  <2>2. Followed(view, MakeGameStatus)' = [points |-> drawn, dead |-> view.dead \cup SE!ToSet(events')]
    BY <1>1 DEF Followed, MakeGameStatus, Front
  <2>3. drawn = points /\ view.dead \cup SE!ToSet(events) = dead
    BY <1>1, <2>1 DEF ViewInv, TurnInv
  <2> QED
    BY <1>1, <1>4, <2>2, <2>3
<1>6. EventsVisible'
  <2>1. \A i \in 1..Len(events') : Visible(events'[i])
    BY <1>1, <1>2, <1>3, DyingIsVisible DEF ViewInv, TurnInv, EventsVisible
  <2> QED
    BY <1>1, <2>1 DEF EventsVisible, Visible, Inside, Front
<1>7. MarkedBehind'
  BY <1>1 DEF ViewInv, MarkedBehind
<1> QED
  BY <1>1, <1>5, <1>6, <1>7 DEF ViewInv, ClientCanFollow, TurnInv

LEMMA ViewReport ==
  ASSUME SnakeInv, ViewInv, Report
  PROVE  ViewInv'
<1>1. /\ pc = "mark" /\ pc' \in {"move", "over"} /\ points' = points /\ dead' = dead
      /\ view' = IF pc' = "over" THEN view ELSE Followed(view, MakeGameStatus)
  BY DEF Report, Mark
<1> QED
  BY <1>1 DEF ViewInv, ClientCanFollow, TurnInv, MarkedBehind

-----------------------------------------------------------------------------
(* The theorems.                                                           *)

\* What the server does with a program that watches is a game.
LEMMA WatchedGame == ClientSpec => Spec
<1>1. ClientInit => Init
  BY DEF ClientInit
<1>2. [ClientNext]_clientVars => [Next]_vars
  BY DEF ClientNext, clientVars, Next, Report
<1> QED
  BY <1>1, <1>2, PTL DEF ClientSpec, Spec

LEMMA ViewInvariant == ClientSpec => []ViewInv
<1>1. SnakeInv /\ ViewInv /\ [ClientNext]_clientVars => ViewInv'
  <2> SUFFICES ASSUME SnakeInv, ViewInv, [ClientNext]_clientVars PROVE ViewInv'
    OBVIOUS
  <2>1. CASE UNCHANGED clientVars
    BY <2>1 DEF clientVars, vars, ViewInv, ClientCanFollow, TurnInv, EventsVisible, MarkedBehind, Visible,
       Followed, MakeGameStatus, Inside, Front
  <2> QED
    BY <2>1, ViewMove, ViewCollide, ViewReport DEF ClientNext
<1> QED
  BY <1>1, ViewInit, WatchedGame, SnakeInvariant, PTL DEF ClientSpec

\* Heads and events, all that MakeGameStatus sends, are enough to know every tile
\* of every snake when the next action is due.
THEOREM HeadsAndEventsSuffice == ClientSpec => []ClientCanFollow
<1>1. ViewInv => ClientCanFollow
  BY DEF ViewInv
<1> QED
  BY <1>1, ViewInvariant, PTL

\* ProcessTurn kills no snake for a mark on its board that a program cannot know.
THEOREM NoInvisibleDeath == ClientSpec => []DeathsAreVisible
<1>1. SnakeInv /\ ViewInv => DeathsAreVisible
  <2> SUFFICES ASSUME SnakeInv, ViewInv, pc = "mark", NEW s \in SE!ToSet(events)
               PROVE  LET seen == Followed(view, MakeGameStatus)
                          head == Head(seen.points[s])
                      IN \/ ~Inside(head)
                         \/ \E r \in Snakes \ view.dead : \E i \in DOMAIN seen.points[r] :
                              <<r, i>> # <<s, 1>> /\ seen.points[r][i] = head
    BY DEF DeathsAreVisible
  <2>1. Followed(view, MakeGameStatus).points = points
    BY DEF ViewInv, TurnInv
  <2>2. PICK k \in 1..Len(events) : s = events[k]
    BY LenProperties DEF SnakeInv, TypeOK, SE!ToSet
  <2>3. Visible(s) /\ s \in Snakes
    BY <2>2, ElementOfSeq DEF ViewInv, TurnInv, EventsVisible, SnakeInv, TypeOK
  <2>4. \A r \in Snakes : DOMAIN points[r] = 1..StartLength
    BY PartsArePoints, LenProperties
  <2>5. Head(points[s]) = Front(s)
    BY <2>3, PartsArePoints, HeadTailProperties, EmptySeq DEF Front
  <2> QED
    BY <2>1, <2>3, <2>4, <2>5 DEF Visible
<1> QED
  BY <1>1, ViewInvariant, WatchedGame, SnakeInvariant, PTL
=============================================================================
