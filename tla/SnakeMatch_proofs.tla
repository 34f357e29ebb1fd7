-------------------------- MODULE SnakeMatch_proofs --------------------------
(***************************************************************************)
(* Safety of the snake game for every board, length and number of turns    *)
(* the options allow.                                                      *)
(***************************************************************************)
EXTENDS SnakeMatch, SequenceTheorems, FiniteSetTheorems, TLAPS

\* Where the loops are.
LoopInv ==
  /\ pc = "collide" => at < NumPlayers
  /\ pc = "mark" => at = NumPlayers
  /\ pc \in {"collide", "mark"} => turn < MaxTurns

\* The snakes the collision loop has dealt with share their head with no living
\* snake, dealt with or not.
HeadsInv ==
  \A s, r \in Alive :
    (pc # "collide" \/ s < at) /\ Front(r) = Front(s) => r = s

\* Parts of a snake that are marked on the board: all, or all but the head
\* between the moves and the marking of the heads.
FirstMarked == IF pc \in {"move", "over"} THEN 1 ELSE 2

\* As long as nobody has died every part has its own tile, marked with its
\* snake, and the heads that the loop has passed have come to empty tiles.
MarksInv ==
  dead = {} =>
    \A s \in Snakes :
      /\ \A i \in FirstMarked..StartLength :
           /\ points[s][i] \in Cells
           /\ board[points[s][i]] = s
           /\ \A j \in FirstMarked..StartLength :
                points[s][i] = points[s][j] => i = j
      /\ pc = "mark" \/ (pc = "collide" /\ s < at) =>
           Front(s) \in Cells /\ board[Front(s)] = kEmpty

SnakeInv ==
  /\ TypeOK
  /\ LoopInv
  /\ SnakesAreChains
  /\ LivingInside
  /\ NoGhosts
  /\ HeadsInv
  /\ MarksInv

-----------------------------------------------------------------------------
(* The snakes of a match and sets of them.                                 *)

LEMMA SnakeIds == Snakes \subseteq 0..3 /\ Snakes \subseteq Int
  BY SnakeAssumption DEF Snakes

\* The choice of the snake that is written to the board last is defined.
LEMMA LastExists ==
  ASSUME NEW S \in SUBSET Snakes, S # {}
  PROVE  (CHOOSE s \in S : \A r \in S : r <= s) \in S
<1>1. \A s \in S : s \in 0..3
  BY SnakeIds
<1>2. \E s \in S : \A r \in S : r <= s
  <2>1. CASE 3 \in S
    BY <1>1, <2>1
  <2>2. CASE 3 \notin S /\ 2 \in S
    BY <1>1, <2>2
  <2>3. CASE 3 \notin S /\ 2 \notin S /\ 1 \in S
    BY <1>1, <2>3
  <2>4. CASE 3 \notin S /\ 2 \notin S /\ 1 \notin S
    <3>1. \A s \in S : s = 0
      BY <1>1, <2>4
    <3> QED
      BY <3>1
  <2> QED
    BY <2>1, <2>2, <2>3, <2>4
<1> QED
  BY <1>2

LEMMA FiniteSnakes ==
  ASSUME NEW S \in SUBSET (0..3)
  PROVE  IsFiniteSet(S) /\ Cardinality(S) \in Nat
<1>1. S \in SUBSET Nat /\ 3 \in Nat /\ \A s \in S : s <= 3
  OBVIOUS
<1>2. IsFiniteSet(S)
  BY <1>1, FS_BoundedSetOfNaturals
<1> QED
  BY <1>2, FS_CardinalityType

Increasing(q, n) == \A i, j \in 1..n : i < j => q[i] < q[j]
Sortable(S) == \E q \in [1..Cardinality(S) -> S] : Increasing(q, Cardinality(S))

\* A set that can be listed in ascending order can be so with a larger element.
LEMMA SortLarger ==
  ASSUME NEW S \in SUBSET (0..3), NEW m \in 0..3, \A r \in S : r < m, Sortable(S)
  PROVE  Sortable(S \cup {m})
<1> DEFINE n == Cardinality(S)
<1>1. IsFiniteSet(S) /\ n \in Nat
  BY FiniteSnakes
<1>2. Cardinality(S \cup {m}) = n + 1
  BY <1>1, FS_AddElement
<1>3. PICK q \in [1..n -> S] : Increasing(q, n)
  BY DEF Sortable
<1> DEFINE t == [i \in 1..n + 1 |-> IF i = n + 1 THEN m ELSE q[i]]
<1>4. t \in [1..n + 1 -> S \cup {m}]
  BY <1>1, <1>3
<1>5. Increasing(t, n + 1)
  <2> SUFFICES ASSUME NEW i \in 1..n + 1, NEW j \in 1..n + 1, i < j PROVE t[i] < t[j]
    BY DEF Increasing
  <2>1. i \in 1..n /\ t[i] = q[i] /\ q[i] \in S
    BY <1>1, <1>3
  <2>2. CASE j = n + 1
    BY <2>1, <2>2
  <2>3. CASE j # n + 1
    <3>1. j \in 1..n /\ t[j] = q[j]
      BY <1>1, <2>3
    <3> QED
      BY <1>3, <2>1, <3>1 DEF Increasing
  <2> QED
    BY <2>2, <2>3
<1> QED
  BY <1>2, <1>4, <1>5 DEF Sortable

LEMMA EverySetIsSortable ==
  ASSUME NEW S \in SUBSET (0..3)
  PROVE  Sortable(S)
<1>0. Sortable({})
  <2>1. Cardinality({}) = 0
    BY FS_EmptySet
  <2>2. [i \in 1..0 |-> 0] \in [1..0 -> {}]
    OBVIOUS
  <2>3. Increasing([i \in 1..0 |-> 0], 0)
    BY DEF Increasing
  <2> QED
    BY <2>1, <2>2, <2>3 DEF Sortable
<1> DEFINE Below(m) == {s \in S : s < m}
<1>n. \A m \in 0..4 : Below(m) \subseteq 0..3
  OBVIOUS
<1>1. ASSUME NEW m \in 0..3, Sortable(Below(m)) PROVE Sortable(Below(m + 1))
  <2>1. CASE m \in S
    <3>1. \A s \in 0..3 : s \in Below(m + 1) <=> s \in Below(m) \/ s = m
      BY <2>1
    <3>2. Below(m) \in SUBSET (0..3) /\ \A r \in Below(m) : r < m
      OBVIOUS
    <3> HIDE DEF Below
    <3>3. Below(m + 1) = Below(m) \cup {m}
      BY <1>n, <3>1
    <3> QED
      BY <1>1, <3>2, <3>3, SortLarger
  <2>2. CASE m \notin S
    <3>1. \A s \in 0..3 : s \in Below(m + 1) <=> s \in Below(m)
      BY <2>2
    <3> HIDE DEF Below
    <3>2. Below(m + 1) = Below(m)
      BY <1>n, <3>1
    <3> QED
      BY <1>1, <3>2
  <2> QED
    BY <2>1, <2>2
<1>2. Below(0) = {} /\ Below(4) = S
  <2>1. \A s \in 0..3 : s \notin Below(0) /\ (s \in Below(4) <=> s \in S)
    OBVIOUS
  <2> QED
    BY <1>n, <2>1
<1> HIDE DEF Below
<1>3. Sortable(Below(1))
  BY <1>0, <1>1, <1>2
<1>4. Sortable(Below(2))
  BY <1>1, <1>3
<1>5. Sortable(Below(3))
  BY <1>1, <1>4
<1>6. Sortable(Below(4))
  BY <1>1, <1>5
<1> QED
  BY <1>2, <1>6

\* The deaths that are reported for a set of snakes are exactly those snakes.
LEMMA AscendingLists ==
  ASSUME NEW S \in SUBSET Snakes
  PROVE  /\ IsFiniteSet(S) /\ Cardinality(S) \in Nat
         /\ Ascending(S) \in Seq(Snakes)
         /\ Len(Ascending(S)) = Cardinality(S)
         /\ \A i \in 1..Cardinality(S) : Ascending(S)[i] \in S
         /\ \A s \in S : \E i \in 1..Cardinality(S) : Ascending(S)[i] = s
<1> DEFINE n == Cardinality(S)
           q == Ascending(S)
<1>2. S \in SUBSET (0..3)
  BY SnakeIds
<1>1. IsFiniteSet(S) /\ n \in Nat
  BY <1>2, FiniteSnakes
<1>3. q \in [1..n -> S] /\ \A i, j \in 1..n : i < j => q[i] < q[j]
  BY <1>2, EverySetIsSortable DEF Sortable, Increasing, Ascending
<1> HIDE DEF q
<1>4. q \in Injection(1..n, S)
  <2>1. ASSUME NEW i \in 1..n, NEW j \in 1..n, q[i] = q[j] PROVE i = j
    <3>1. q[i] \in 0..3 /\ q[j] \in 0..3
      BY <1>2, <1>3
    <3>2. ~(i < j) /\ ~(j < i)
      BY <1>3, <2>1, <3>1
    <3> QED
      BY <1>1, <3>2
  <2> QED
    BY <1>3, <2>1 DEF Injection, IsInjective
<1>5. IsFiniteSet(1..n) /\ Cardinality(1..n) = n
  BY <1>1, FS_Interval
<1>6. q \in Surjection(1..n, S)
  BY <1>1, <1>4, <1>5, FS_Injection
<1>7. \A s \in S : \E i \in 1..n : q[i] = s
  BY <1>6 DEF Surjection
<1>8. q \in Seq(Snakes) /\ Len(q) = n
  <2>1. q \in [1..n -> Snakes]
    BY <1>3
  <2>2. q \in Seq(Snakes)
    BY <1>1, <2>1, SeqDef
  <2> QED
    BY <1>1, <2>1, <2>2, LenProperties
<1> QED
  BY <1>1, <1>3, <1>7, <1>8 DEF q

-----------------------------------------------------------------------------
(* Where the snakes start.                                                 *)

\* The tile of part i: n tiles from the corner.
Across(s, n) == IF s = 0 THEN 1 + n ELSE IF s = 1 THEN (X - 1) - n
                ELSE IF s = 2 THEN X - 1 ELSE 1
Down(s, n) == IF s = 0 THEN 1 ELSE IF s = 1 THEN Y - 1
              ELSE IF s = 2 THEN 1 + n ELSE (Y - 1) - n

LEMMA SpawnedTile ==
  ASSUME NEW s \in Snakes, NEW i \in 1..StartLength
  PROVE  Spawned(s)[i] = [x |-> Across(s, StartLength - i), y |-> Down(s, StartLength - i)]
<1>1. s \in 0..3 /\ StartLength - i \in Int /\ X \in Int /\ Y \in Int
  BY SnakeIds, SnakeAssumption
<1> DEFINE n == StartLength - i
<1>2. Spawned(s)[i] = [x |-> StartingPosition(s).x + n * StartingDirection(s).x,
                       y |-> StartingPosition(s).y + n * StartingDirection(s).y]
  BY DEF Spawned
<1> HIDE DEF n
<1>n. n \in Int
  BY <1>1 DEF n
<1>3. CASE s = 0
  <2>1. StartingPosition(s) = [x |-> 1, y |-> 1] /\ StartingDirection(s) = [x |-> 1, y |-> 0]
    BY <1>3 DEF StartingPosition, StartingDirection
  <2> QED
    BY <1>1, <1>n, <1>2, <1>3, <2>1 DEF Across, Down, n
<1>4. CASE s = 1
  <2>1. /\ StartingPosition(s) = [x |-> X - 1, y |-> Y - 1]
        /\ StartingDirection(s) = [x |-> -1, y |-> 0]
    BY <1>4 DEF StartingPosition, StartingDirection
  <2> QED
    BY <1>1, <1>n, <1>2, <1>4, <2>1 DEF Across, Down, n
<1>5. CASE s = 2
  <2>1. /\ StartingPosition(s) = [x |-> X - 1, y |-> 1]
        /\ StartingDirection(s) = [x |-> 0, y |-> 1]
    BY <1>5 DEF StartingPosition, StartingDirection
  <2> QED
    BY <1>1, <1>n, <1>2, <1>5, <2>1 DEF Across, Down, n
<1>6. CASE s = 3
  <2>1. /\ StartingPosition(s) = [x |-> 1, y |-> Y - 1]
        /\ StartingDirection(s) = [x |-> 0, y |-> -1]
    BY <1>6 DEF StartingPosition, StartingDirection
  <2> QED
    BY <1>1, <1>n, <1>2, <1>6, <2>1 DEF Across, Down, n
<1> QED
  BY <1>1, <1>3, <1>4, <1>5, <1>6

LEMMA SpawnedInside ==
  ASSUME NEW s \in Snakes, NEW i \in 1..StartLength
  PROVE  Spawned(s)[i] \in Cells
<1>1. s \in 0..3
  BY SnakeIds
<1>2. /\ Across(s, StartLength - i) \in 0..X - 1
      /\ Down(s, StartLength - i) \in 0..Y - 1
  BY <1>1, SnakeAssumption DEF Across, Down
<1>3. [x |-> Across(s, StartLength - i), y |-> Down(s, StartLength - i)] \in Cells
  BY <1>2 DEF Cells
<1> QED
  BY <1>3, SpawnedTile

\* Snakes start next to their corners and too short to reach one another.
LEMMA SpawnedApart ==
  ASSUME NEW s \in Snakes, NEW r \in Snakes,
         NEW i \in 1..StartLength, NEW j \in 1..StartLength,
         Spawned(s)[i] = Spawned(r)[j]
  PROVE  s = r /\ i = j
<1>1. s \in 0..3 /\ r \in 0..3
  BY SnakeIds
<1> DEFINE p(t, n) == [x |-> Across(t, n), y |-> Down(t, n)]
<1>2. p(s, StartLength - i) = p(r, StartLength - j)
  BY SpawnedTile
<1>3. /\ Across(s, StartLength - i) = Across(r, StartLength - j)
      /\ Down(s, StartLength - i) = Down(r, StartLength - j)
  BY <1>2
<1> QED
  BY <1>1, <1>3, SnakeAssumption DEF Across, Down

LEMMA CellsArePoints == Cells \subseteq Points
  BY SnakeAssumption DEF Cells, Points

LEMMA SpawnedIsChain ==
  ASSUME NEW s \in Snakes
  PROVE  /\ Spawned(s) \in Seq(Points)
         /\ Len(Spawned(s)) = StartLength
         /\ StartingDirection(s) \in Directions
         /\ \A i \in 1..StartLength - 1 : Neighbours(Spawned(s)[i], Spawned(s)[i + 1])
<1>0. s \in 0..3
  BY SnakeIds
<1>1. Spawned(s) \in [1..StartLength -> Points]
  BY SpawnedInside, CellsArePoints DEF Spawned
<1>2. Spawned(s) \in Seq(Points)
  BY <1>1, SnakeAssumption, SeqDef
<1>3. Len(Spawned(s)) = StartLength
  BY <1>1, <1>2, SnakeAssumption, LenProperties
<1>4. StartingDirection(s) \in Directions
  BY <1>0 DEF StartingDirection, Directions
<1>5. ASSUME NEW i \in 1..StartLength - 1
      PROVE  Neighbours(Spawned(s)[i], Spawned(s)[i + 1])
  <2>1. i \in 1..StartLength /\ i + 1 \in 1..StartLength
    BY SnakeAssumption
  <2>2. Plus(Spawned(s)[i + 1], StartingDirection(s)) = Spawned(s)[i]
    <3> DEFINE n == StartLength - i
    <3>1. n \in Int /\ StartLength - (i + 1) = n - 1 /\ X \in Int /\ Y \in Int
      BY SnakeAssumption
    <3>2. /\ Spawned(s)[i] = [x |-> Across(s, n), y |-> Down(s, n)]
          /\ Spawned(s)[i + 1] = [x |-> Across(s, n - 1), y |-> Down(s, n - 1)]
      BY <2>1, <3>1, SpawnedTile
    <3> HIDE DEF n
    <3>3. StartingDirection(s) = [x |-> IF s = 0 THEN 1 ELSE IF s = 1 THEN -1 ELSE 0,
                                  y |-> IF s = 2 THEN 1 ELSE IF s = 3 THEN -1 ELSE 0]
      <4>1. CASE s = 0
        BY <4>1 DEF StartingDirection
      <4>2. CASE s = 1
        BY <4>2 DEF StartingDirection
      <4>3. CASE s = 2
        BY <4>3 DEF StartingDirection
      <4>4. CASE s = 3
        BY <4>4 DEF StartingDirection
      <4> QED
        BY <1>0, <4>1, <4>2, <4>3, <4>4
    <3> QED
      BY <1>0, <3>1, <3>2, <3>3 DEF Plus, Across, Down
  <2> QED
    BY <1>4, <2>2 DEF Neighbours
<1> QED
  BY <1>2, <1>3, <1>4, <1>5

-----------------------------------------------------------------------------
(* Turning and moving.                                                     *)

LEMMA RotatedIsDirection ==
  ASSUME NEW d \in Directions, NEW a \in Actions
  PROVE  Rotated(d, a) \in Directions
  BY DEF Directions, Actions, Rotated

\* A living snake is inside before its move, so its new head is a Point.
LEMMA StepStaysNear ==
  ASSUME NEW p \in Cells, NEW d \in Directions
  PROVE  Plus(p, d) \in Points
  BY SnakeAssumption DEF Cells, Points, Directions, Plus

\* push_front and ShortenTail shift the parts by one.
LEMMA Shifted ==
  ASSUME NEW q \in Seq(Points), Len(q) = StartLength, NEW h \in Points
  PROVE  LET m == <<h>> \o SubSeq(q, 1, Len(q) - 1) IN
           /\ m \in Seq(Points)
           /\ Len(m) = StartLength
           /\ m[1] = h
           /\ \A i \in 2..StartLength : m[i] = q[i - 1]
<1> DEFINE t == SubSeq(q, 1, Len(q) - 1)
           m == <<h>> \o t
<1>n. StartLength \in Nat /\ 1 <= StartLength
  BY SnakeAssumption
<1>1. /\ t \in Seq(Points)
      /\ Len(t) = StartLength - 1
      /\ \A i \in 1..StartLength - 1 : t[i] = q[i]
  <2>1. \A i \in 1..Len(q) - 1 : q[i] \in Points
    BY <1>n, ElementOfSeq
  <2>2. 1 \in Int /\ Len(q) - 1 \in Int
    BY <1>n
  <2> QED
    BY <1>n, <2>1, <2>2, SubSeqProperties
<1>2. /\ <<h>> \in Seq(Points) /\ Len(<<h>>) = 1 /\ <<h>>[1] = h
  OBVIOUS
<1> HIDE DEF t
<1>3. /\ m \in Seq(Points)
      /\ Len(m) = 1 + Len(t)
      /\ \A i \in 1..1 + Len(t) : m[i] = IF i <= 1 THEN <<h>>[i] ELSE t[i - 1]
  BY <1>1, <1>2, ConcatProperties
<1>4. Len(m) = StartLength
  BY <1>n, <1>1, <1>3
<1>5. m[1] = h
  BY <1>n, <1>1, <1>2, <1>3
<1>6. ASSUME NEW i \in 2..StartLength PROVE m[i] = q[i - 1]
  <2>1. i \in 1..1 + Len(t) /\ ~(i <= 1) /\ i - 1 \in 1..StartLength - 1
    BY <1>n, <1>1
  <2> QED
    BY <1>1, <1>3, <2>1
<1> QED
  BY <1>3, <1>4, <1>5, <1>6 DEF t

-----------------------------------------------------------------------------
(* What one step does to the snakes and the board.                         *)

LEMMA PartsArePoints ==
  ASSUME SnakeInv, NEW s \in Snakes
  PROVE  /\ points[s] \in Seq(Points)
         /\ Len(points[s]) = StartLength
         /\ StartLength \in Nat /\ 1 <= StartLength
         /\ \A i \in 1..StartLength : points[s][i] \in Points
<1>1. points[s] \in Seq(Points) /\ Len(points[s]) = StartLength
  BY DEF SnakeInv, TypeOK, SnakesAreChains
<1> QED
  BY <1>1, SnakeAssumption, ElementOfSeq

\* Between turns a living snake is inside with all its parts.
LEMMA RestingInside ==
  ASSUME SnakeInv, pc # "collide", NEW s \in Alive, NEW i \in 1..StartLength
  PROVE  points[s][i] \in Cells
<1>1. s \in Snakes
  BY DEF Alive
<1> QED
  BY <1>1, PartsArePoints DEF SnakeInv, LivingInside, Inside

LEMMA MoveEffect ==
  ASSUME SnakeInv, NEW actions \in [Snakes -> Actions], Move(actions)
  PROVE  /\ pc = "move" /\ pc' = "collide" /\ at' = 0 /\ events' = <<>>
         /\ turn < MaxTurns
         /\ UNCHANGED <<turn, dead>>
         /\ direction' \in [Snakes -> Directions]
         /\ points' \in [Snakes -> Seq(Points)]
         /\ \A s \in dead : points'[s] = points[s]
         /\ \A s \in Alive :
              /\ Len(points'[s]) = StartLength
              /\ Neighbours(points'[s][1], points[s][1])
              /\ \A i \in 2..StartLength : points'[s][i] = points[s][i - 1]
         /\ board' = [c \in Cells |->
              IF \E s \in Alive : c = points[s][StartLength] THEN kEmpty ELSE board[c]]
<1> DEFINE d(s) == Rotated(direction[s], actions[s])
<1>0. TypeOK /\ dead \subseteq Snakes
  BY DEF SnakeInv, TypeOK
<1>1. /\ pc = "move" /\ pc' = "collide" /\ at' = 0 /\ events' = <<>>
      /\ turn < MaxTurns
      /\ UNCHANGED <<turn, dead>>
      /\ direction' = [s \in Snakes |-> IF s \in dead THEN direction[s] ELSE d(s)]
      /\ points' = [s \in Snakes |-> IF s \in dead THEN points[s] ELSE Moved(s, d(s))]
  BY DEF Move
<1>2. ASSUME NEW s \in Snakes PROVE d(s) \in Directions
  BY <1>0, RotatedIsDirection DEF TypeOK
<1> HIDE DEF d
<1>3. ASSUME NEW s \in Alive
      PROVE  /\ points'[s] \in Seq(Points)
             /\ Len(points'[s]) = StartLength
             /\ Neighbours(points'[s][1], points[s][1])
             /\ \A i \in 2..StartLength : points'[s][i] = points[s][i - 1]
  <2>1. s \in Snakes /\ s \notin dead
    BY DEF Alive
  <2>2. points[s] \in Seq(Points) /\ Len(points[s]) = StartLength
    BY <2>1, PartsArePoints
  <2>3. Front(s) \in Cells
    BY <1>1, RestingInside, SnakeAssumption DEF Front
  <2>4. Plus(Front(s), d(s)) \in Points
    BY <1>2, <2>1, <2>3, StepStaysNear
  <2>5. points'[s] = <<Plus(Front(s), d(s))>> \o SubSeq(points[s], 1, Len(points[s]) - 1)
    BY <1>1, <2>1 DEF Moved
  <2>6. Neighbours(Plus(Front(s), d(s)), points[s][1])
    BY <1>2, <2>1 DEF Neighbours, Front
  <2> QED
    BY <2>2, <2>4, <2>5, <2>6, Shifted
<1>4. points' \in [Snakes -> Seq(Points)]
  <2>1. \A s \in Snakes : points'[s] \in Seq(Points)
    BY <1>0, <1>1, <1>3 DEF TypeOK, Alive
  <2> QED
    BY <1>1, <2>1
<1>5. direction' \in [Snakes -> Directions]
  BY <1>0, <1>1, <1>2 DEF TypeOK
<1>6. board' = [c \in Cells |->
         IF \E s \in Alive : c = points[s][StartLength] THEN kEmpty ELSE board[c]]
  <2>1. board' = [c \in Cells |->
           IF c \in {points[s][Len(points[s])] : s \in Alive} THEN kEmpty ELSE board[c]]
    BY DEF Move
  <2>2. \A s \in Alive : Len(points[s]) = StartLength
    BY PartsArePoints DEF Alive
  <2>3. \A c : c \in {points[s][Len(points[s])] : s \in Alive}
                 <=> \E s \in Alive : c = points[s][StartLength]
    BY <2>2
  <2> QED
    BY <2>1, <2>3
<1> QED
  BY <1>0, <1>1, <1>3, <1>4, <1>5, <1>6

\* The snakes that one turn of the collision loop kills.
Dying == IF at \in dead THEN {} ELSE Killed(at).first \cup Killed(at).same

LEMMA CollideEffect ==
  ASSUME SnakeInv, Collide
  PROVE  /\ pc = "collide" /\ at \in Snakes /\ at' = at + 1
         /\ pc' = IF at' = NumPlayers THEN "mark" ELSE "collide"
         /\ UNCHANGED <<turn, points, direction>>
         /\ Dying \subseteq Alive
         /\ dead' = dead \cup Dying
         /\ \A c \in Cells : board'[c] = IF \E s \in Dying : c \in Body(s)
                                         THEN kEmpty ELSE board[c]
         /\ board' \in [Cells -> Snakes \cup {kEmpty}]
         /\ at \in Alive \ Dying => /\ ~Crashes(at)
                                    /\ \A r \in Alive : Front(r) = Front(at) => r = at
<1>0. TypeOK /\ LoopInv
  BY DEF SnakeInv
<1>1. /\ pc = "collide" /\ at \in Snakes /\ at' = at + 1
      /\ pc' = IF at' = NumPlayers THEN "mark" ELSE "collide"
      /\ UNCHANGED <<turn, points, direction>>
  BY <1>0, SnakeAssumption DEF Collide, TypeOK, LoopInv, Snakes
<1>2. ASSUME at \notin dead
      PROVE  Killed(at).first \subseteq Alive /\ Killed(at).same \subseteq Alive
  BY <1>1, <1>2 DEF Killed, SameHeads, Alive
<1>3. Dying \subseteq Alive
  BY <1>2 DEF Dying
<1>4. dead' = dead \cup Dying
  BY DEF Collide, Kill, Dying
<1>5. \A c \in Cells : board'[c] = IF \E s \in Dying : c \in Body(s)
                                   THEN kEmpty ELSE board[c]
  BY <1>0 DEF Collide, Kill, Dying, TypeOK
<1>6. board' \in [Cells -> Snakes \cup {kEmpty}]
  BY <1>0 DEF Collide, Kill, TypeOK
<1>7. ASSUME at \in Alive \ Dying
      PROVE  /\ ~Crashes(at)
             /\ \A r \in Alive : Front(r) = Front(at) => r = at
  <2>1. ~Crashes(at)
    BY <1>7 DEF Dying, Killed, Alive
  <2> DEFINE same == SameHeads(at, Alive)
  <2>2. ~(Cardinality(same) > 1)
    <3>1. Killed(at).same = IF Cardinality(same) > 1 THEN same ELSE {}
      BY <2>1 DEF Killed
    <3>2. at \in same
      BY <1>7 DEF SameHeads
    <3> QED
      BY <1>7, <3>1, <3>2 DEF Dying, Alive
  <2>3. ASSUME NEW r \in Alive, Front(r) = Front(at), r # at
        PROVE  FALSE
    <3>1. same \in SUBSET (0..3) /\ {r} \cup {at} \in SUBSET same
      BY <1>7, <2>3, SnakeIds DEF SameHeads, Alive
    <3>2. IsFiniteSet({r}) /\ Cardinality({r}) = 1
      BY FS_Singleton
    <3>3. Cardinality({r} \cup {at}) = 2
      BY <2>3, <3>2, FS_AddElement
    <3> HIDE DEF same
    <3>4. IsFiniteSet(same) /\ Cardinality(same) \in Nat
      BY <3>1, FiniteSnakes
    <3>5. Cardinality({r} \cup {at}) <= Cardinality(same)
      BY <3>1, <3>4, FS_Subset
    <3> QED
      BY <2>2, <3>3, <3>4, <3>5
  <2> QED
    BY <2>1, <2>3
<1> QED
  BY <1>1, <1>3, <1>4, <1>5, <1>6, <1>7

LEMMA BodyTiles ==
  ASSUME SnakeInv, NEW s \in Snakes, NEW c
  PROVE  c \in Body(s) <=> \E i \in 1..StartLength : points[s][i] = c
  BY PartsArePoints DEF Body

LEMMA Ids == kEmpty \notin Snakes /\ \A s \in Snakes : s \in Int /\ 0 <= s /\ s < NumPlayers
  BY SnakeAssumption DEF kEmpty, Snakes

-----------------------------------------------------------------------------
(* The invariant holds at the start and is kept by every step.             *)

LEMMA InitSnake == Init => SnakeInv
<1> SUFFICES ASSUME Init PROVE SnakeInv
  OBVIOUS
<1> DEFINE On(c) == {s \in Snakes : \E i \in 1..StartLength : Spawned(s)[i] = c}
<1>1. /\ pc = "move" /\ turn = 0 /\ events = <<>> /\ at = 0 /\ dead = {}
      /\ points = [s \in Snakes |-> Spawned(s)]
      /\ direction = [s \in Snakes |-> StartingDirection(s)]
  BY DEF Init
<1>2. board = [c \in Cells |-> IF On(c) = {} THEN kEmpty
                               ELSE CHOOSE s \in On(c) : \A r \in On(c) : r <= s]
  BY DEF Init
<1>3. ASSUME NEW c \in Cells
      PROVE  /\ On(c) = {} => board[c] = kEmpty
             /\ On(c) # {} => board[c] \in On(c)
  <2>1. On(c) \in SUBSET Snakes
    OBVIOUS
  <2> QED
    BY <1>2, <2>1, LastExists
<1>4. \A s \in Snakes : points[s] = Spawned(s) /\ Len(points[s]) = StartLength
  BY <1>1, SpawnedIsChain
<1>5. \A s \in Snakes : \A i \in 1..StartLength :
        points[s][i] \in Cells /\ board[points[s][i]] = s
  <2> SUFFICES ASSUME NEW s \in Snakes, NEW i \in 1..StartLength
               PROVE  points[s][i] \in Cells /\ board[points[s][i]] = s
    OBVIOUS
  <2>1. points[s][i] = Spawned(s)[i] /\ Spawned(s)[i] \in Cells
    BY <1>4, SpawnedInside
  <2>2. s \in On(Spawned(s)[i])
    OBVIOUS
  <2>3. \A r \in On(Spawned(s)[i]) : r = s
    BY SpawnedApart
  <2> QED
    BY <1>3, <2>1, <2>2, <2>3
<1>6. TypeOK
  <2>1. \A c \in Cells : board[c] \in Snakes \cup {kEmpty}
    BY <1>3
  <2>2. board \in [Cells -> Snakes \cup {kEmpty}]
    BY <1>2, <2>1
  <2>3. points \in [Snakes -> Seq(Points)] /\ direction \in [Snakes -> Directions]
    BY <1>1, SpawnedIsChain
  <2> QED
    BY <1>1, <2>2, <2>3, SnakeAssumption DEF TypeOK
<1>7. LoopInv
  BY <1>1 DEF LoopInv
<1>8. SnakesAreChains
  BY <1>4, SpawnedIsChain DEF SnakesAreChains
<1>9. LivingInside
  BY <1>4, <1>5 DEF LivingInside, Inside, Alive
<1>10. NoGhosts
  <2> SUFFICES ASSUME NEW c \in Cells, board[c] # kEmpty
               PROVE  board[c] \notin dead /\ c \in Body(board[c])
    BY DEF NoGhosts
  <2>1. board[c] \in Snakes /\ \E i \in 1..StartLength : Spawned(board[c])[i] = c
    BY <1>3
  <2> QED
    BY <1>1, <1>4, <2>1 DEF Body
<1>11. HeadsInv
  <2>1. 1 \in 1..StartLength
    BY SnakeAssumption
  <2> QED
    BY <1>4, <2>1, SpawnedApart DEF HeadsInv, Front, Alive
<1>12. MarksInv
  BY <1>1, <1>4, <1>5, SpawnedApart DEF MarksInv, FirstMarked
<1> QED
  BY <1>6, <1>7, <1>8, <1>9, <1>10, <1>11, <1>12 DEF SnakeInv

LEMMA MoveKeeps ==
  ASSUME SnakeInv, NEW actions \in [Snakes -> Actions], Move(actions)
  PROVE  SnakeInv'
<1>n. StartLength \in Nat /\ 1 <= StartLength /\ 0 < NumPlayers /\ NumPlayers \in Nat
  BY SnakeAssumption
<1>0. TypeOK /\ dead \subseteq Snakes /\ Alive' = Alive /\ Alive \subseteq Snakes
  BY MoveEffect DEF SnakeInv, TypeOK, Alive
<1>1. /\ pc = "move" /\ pc' = "collide" /\ at' = 0 /\ events' = <<>>
      /\ turn < MaxTurns /\ turn' = turn /\ dead' = dead
      /\ points' \in [Snakes -> Seq(Points)] /\ direction' \in [Snakes -> Directions]
      /\ \A s \in dead : points'[s] = points[s]
  BY MoveEffect
<1>2. ASSUME NEW s \in Alive
      PROVE  /\ Len(points'[s]) = StartLength
             /\ Neighbours(points'[s][1], points[s][1])
             /\ \A i \in 2..StartLength : points'[s][i] = points[s][i - 1]
  BY MoveEffect
<1>3. board' = [c \in Cells |->
        IF \E s \in Alive : c = points[s][StartLength] THEN kEmpty ELSE board[c]]
  BY MoveEffect
<1>4. TypeOK'
  <2>1. board' \in [Cells -> Snakes \cup {kEmpty}]
    BY <1>0, <1>3 DEF TypeOK
  <2> QED
    BY <1>0, <1>1, <1>n, <2>1 DEF TypeOK
<1>5. LoopInv'
  BY <1>1, <1>n DEF LoopInv
<1>6. SnakesAreChains'
  <2> SUFFICES ASSUME NEW s \in Snakes
               PROVE  /\ Len(points'[s]) = StartLength
                      /\ \A i \in 1..Len(points'[s]) - 1 :
                           Neighbours(points'[s][i], points'[s][i + 1])
    BY DEF SnakesAreChains
  <2>1. /\ Len(points[s]) = StartLength
        /\ \A i \in 1..StartLength - 1 : Neighbours(points[s][i], points[s][i + 1])
    BY DEF SnakeInv, SnakesAreChains
  <2>2. CASE s \in dead
    BY <1>1, <2>1, <2>2
  <2>3. CASE s \notin dead
    <3>1. s \in Alive
      BY <2>3 DEF Alive
    <3>2. ASSUME NEW i \in 1..StartLength - 1
          PROVE  Neighbours(points'[s][i], points'[s][i + 1])
      <4>1. points'[s][i + 1] = points[s][i]
        <5>1. i + 1 \in 2..StartLength /\ (i + 1) - 1 = i
          BY <1>n
        <5> QED
          BY <1>2, <3>1, <5>1
      <4>2. CASE i = 1
        BY <1>2, <3>1, <4>1, <4>2
      <4>3. CASE i # 1
        <5>1. i \in 2..StartLength /\ i - 1 \in 1..StartLength - 1 /\ (i - 1) + 1 = i
          BY <1>n, <4>3
        <5>2. points'[s][i] = points[s][i - 1]
          BY <1>2, <3>1, <5>1
        <5>3. Neighbours(points[s][i - 1], points[s][i])
          BY <2>1, <5>1
        <5> QED
          BY <4>1, <5>2, <5>3
      <4> QED
        BY <4>2, <4>3
    <3> QED
      BY <1>2, <3>1, <3>2
  <2> QED
    BY <2>2, <2>3
<1>7. LivingInside'
  <2> SUFFICES ASSUME NEW s \in Alive, NEW i \in 1..Len(points'[s])
               PROVE  points'[s][i] \in Cells \/ (i = 1 /\ pc' = "collide" /\ at' <= s)
    BY <1>0 DEF LivingInside, Inside
  <2>1. Len(points'[s]) = StartLength /\ s \in Int /\ 0 <= s
    BY <1>0, <1>2, Ids
  <2>2. CASE i = 1
    BY <1>1, <2>1, <2>2
  <2>3. CASE i # 1
    <3>1. i \in 2..StartLength /\ i - 1 \in 1..StartLength
      BY <1>n, <2>1, <2>3
    <3> QED
      BY <1>1, <1>2, <3>1, RestingInside
  <2> QED
    BY <2>2, <2>3
<1>8. NoGhosts'
  <2> SUFFICES ASSUME NEW c \in Cells, board'[c] # kEmpty
               PROVE  board'[c] \notin dead /\ c \in Body(board[c])' /\ board'[c] = board[c]
    BY <1>1 DEF NoGhosts, Body
  <2>1. board'[c] = board[c] /\ \A s \in Alive : c # points[s][StartLength]
    BY <1>3
  <2>2. board[c] \notin dead /\ c \in Body(board[c]) /\ board[c] \in Snakes
    BY <1>0, <2>1 DEF SnakeInv, NoGhosts, TypeOK
  <2>3. PICK i \in 1..StartLength : points[board[c]][i] = c
    BY <2>2, BodyTiles
  <2>4. board[c] \in Alive
    BY <2>2 DEF Alive
  <2>5. i + 1 \in 2..StartLength /\ (i + 1) - 1 = i /\ i + 1 \in 1..StartLength
    BY <1>n, <2>1, <2>3, <2>4
  <2>6. points'[board[c]][i + 1] = c /\ Len(points'[board[c]]) = StartLength
    BY <1>2, <2>3, <2>4, <2>5
  <2>7. board'[c] = board[c]
    BY <2>1
  <2> QED
    BY <2>2, <2>5, <2>6, <2>7 DEF Body
<1>9. HeadsInv'
  BY <1>0, <1>1, Ids DEF HeadsInv
<1>10. MarksInv'
  <2> SUFFICES ASSUME dead = {}, NEW s \in Snakes
               PROVE  /\ \A i \in 2..StartLength :
                           /\ points'[s][i] \in Cells
                           /\ board'[points'[s][i]] = s
                           /\ \A j \in 2..StartLength :
                                points'[s][i] = points'[s][j] => i = j
                      /\ ~(s < 0)
    BY <1>1 DEF MarksInv, FirstMarked
  <2>1. s \in Alive /\ Alive = Snakes
    BY DEF Alive
  <2>2. \A r \in Snakes : \A i \in 1..StartLength :
          /\ points[r][i] \in Cells
          /\ board[points[r][i]] = r
          /\ \A j \in 1..StartLength : points[r][i] = points[r][j] => i = j
    BY <1>1 DEF SnakeInv, MarksInv, FirstMarked
  <2>3. ASSUME NEW i \in 2..StartLength
        PROVE  /\ points'[s][i] \in Cells
               /\ board'[points'[s][i]] = s
               /\ \A j \in 2..StartLength : points'[s][i] = points'[s][j] => i = j
    <3>1. i - 1 \in 1..StartLength /\ points'[s][i] = points[s][i - 1] /\ i - 1 # StartLength
      BY <1>n, <1>2, <2>1
    <3>2. points[s][i - 1] \in Cells /\ board[points[s][i - 1]] = s
      BY <2>2, <3>1
    <3>3. ~ \E r \in Alive : points[s][i - 1] = points[r][StartLength]
      BY <1>n, <2>1, <2>2, <3>1
    <3>4. board'[points[s][i - 1]] = s
      BY <1>3, <3>2, <3>3
    <3>5. ASSUME NEW j \in 2..StartLength, points'[s][i] = points'[s][j] PROVE i = j
      <4>1. j - 1 \in 1..StartLength /\ points'[s][j] = points[s][j - 1]
        BY <1>n, <1>2, <2>1
      <4>2. points[s][i - 1] = points[s][j - 1]
        BY <3>1, <3>5, <4>1
      <4>3. i - 1 = j - 1
        BY <2>2, <3>1, <4>1, <4>2
      <4> QED
        BY <4>3
    <3> QED
      BY <3>1, <3>2, <3>4, <3>5
  <2> QED
    BY <2>3, Ids
<1> QED
  BY <1>4, <1>5, <1>6, <1>7, <1>8, <1>9, <1>10 DEF SnakeInv

LEMMA CollideKeeps ==
  ASSUME SnakeInv, Collide
  PROVE  SnakeInv'
<1>n. /\ StartLength \in Nat /\ 1 <= StartLength /\ NumPlayers \in Nat
      /\ at \in Int /\ 0 <= at /\ at < NumPlayers
  BY CollideEffect, Ids, SnakeAssumption
<1>0. TypeOK /\ dead \subseteq Snakes /\ Alive \subseteq Snakes
  BY DEF SnakeInv, TypeOK, Alive
<1>1. /\ pc = "collide" /\ at' = at + 1
      /\ pc' = IF at' = NumPlayers THEN "mark" ELSE "collide"
      /\ turn' = turn /\ points' = points /\ direction' = direction
      /\ Dying \subseteq Alive /\ dead' = dead \cup Dying
      /\ at \in Snakes
  BY CollideEffect
<1>2. \A c \in Cells : board'[c] = IF \E s \in Dying : c \in Body(s)
                                   THEN kEmpty ELSE board[c]
  BY CollideEffect
<1>3. at \in Alive \ Dying => /\ ~Crashes(at)
                              /\ \A r \in Alive : Front(r) = Front(at) => r = at
  BY CollideEffect
<1>4. Alive' = Alive \ Dying
  BY <1>1 DEF Alive
<1>5. TypeOK'
  <2>1. events' \in Seq(Snakes)
    <3>1. CASE at \in dead
      BY <1>0, <3>1 DEF Collide, TypeOK
    <3>2. CASE at \notin dead
      <4>1. Killed(at).first \in SUBSET Snakes /\ Killed(at).same \in SUBSET Snakes
        BY <1>0, <1>1, <3>2 DEF Dying
      <4>2. events' = events \o Ascending(Killed(at).first) \o Ascending(Killed(at).same)
        BY <3>2 DEF Collide
      <4>3. /\ Ascending(Killed(at).first) \in Seq(Snakes)
            /\ Ascending(Killed(at).same) \in Seq(Snakes)
        BY <4>1, AscendingLists
      <4>4. events \in Seq(Snakes)
        BY <1>0 DEF TypeOK
      <4>5. events \o Ascending(Killed(at).first) \in Seq(Snakes)
        BY <4>3, <4>4, ConcatProperties
      <4> QED
        BY <4>2, <4>3, <4>5, ConcatProperties
    <3> QED
      BY <3>1, <3>2
  <2>2. board' \in [Cells -> Snakes \cup {kEmpty}]
    BY CollideEffect
  <2> QED
    BY <1>0, <1>1, <1>n, <2>1, <2>2 DEF TypeOK
<1>6. LoopInv'
  BY <1>1, <1>n DEF SnakeInv, LoopInv
<1>7. SnakesAreChains'
  BY <1>1 DEF SnakeInv, SnakesAreChains
<1>8. LivingInside'
  <2> SUFFICES ASSUME NEW s \in Alive \ Dying, NEW i \in 1..Len(points[s]),
                      points[s][i] \notin Cells
               PROVE  i = 1 /\ pc' = "collide" /\ at' <= s
    BY <1>1, <1>4 DEF LivingInside, Inside
  <2>1. i = 1 /\ at <= s /\ s \in Int /\ s < NumPlayers
    BY <1>0, Ids DEF SnakeInv, LivingInside, Inside
  <2>2. s # at
    BY <1>3, <2>1 DEF Crashes, Inside, Front
  <2> QED
    BY <1>1, <1>n, <2>1, <2>2
<1>9. NoGhosts'
  <2> SUFFICES ASSUME NEW c \in Cells, board'[c] # kEmpty
               PROVE  board'[c] \notin dead' /\ board'[c] = board[c] /\ c \in Body(board[c])
    BY <1>1 DEF NoGhosts, Body
  <2>1. board'[c] = board[c] /\ \A s \in Dying : c \notin Body(s)
    BY <1>2
  <2>2. board[c] \notin dead /\ c \in Body(board[c])
    BY <2>1 DEF SnakeInv, NoGhosts
  <2> QED
    BY <1>1, <2>1, <2>2
<1>10. HeadsInv'
  <2> SUFFICES ASSUME NEW s \in Alive \ Dying, NEW r \in Alive \ Dying,
                      pc' # "collide" \/ s < at', Front(r) = Front(s)
               PROVE  r = s
    BY <1>1, <1>4 DEF HeadsInv, Front
  <2>1. s \in Int /\ s <= at
    BY <1>0, <1>1, <1>n, Ids
  <2>2. CASE s = at
    BY <1>3, <2>2
  <2>3. CASE s # at
    BY <1>n, <2>1, <2>3 DEF SnakeInv, HeadsInv
  <2> QED
    BY <2>2, <2>3
<1>11. MarksInv'
  <2> SUFFICES ASSUME dead' = {}, NEW s \in Snakes
               PROVE  /\ \A i \in 2..StartLength :
                           /\ points[s][i] \in Cells
                           /\ board'[points[s][i]] = s
                           /\ \A j \in 2..StartLength :
                                points[s][i] = points[s][j] => i = j
                      /\ pc' = "mark" \/ (pc' = "collide" /\ s < at') =>
                           Front(s) \in Cells /\ board'[Front(s)] = kEmpty
    BY <1>1 DEF MarksInv, FirstMarked, Front
  <2>1. dead = {} /\ Dying = {} /\ Alive = Snakes
    BY <1>1 DEF Alive
  <2>2. \A c \in Cells : board'[c] = board[c]
    BY <1>2, <2>1
  <2>3. \A r \in Snakes :
          /\ \A i \in 2..StartLength :
               /\ points[r][i] \in Cells
               /\ board[points[r][i]] = r
               /\ \A j \in 2..StartLength : points[r][i] = points[r][j] => i = j
          /\ r < at => Front(r) \in Cells /\ board[Front(r)] = kEmpty
    BY <1>1, <2>1 DEF SnakeInv, MarksInv, FirstMarked
  <2>4. ASSUME pc' = "mark" \/ s < at'
        PROVE  Front(s) \in Cells /\ board'[Front(s)] = kEmpty
    <3>1. s \in Int /\ s <= at
      BY <1>1, <1>n, <2>4, Ids
    <3>2. CASE s = at
      BY <1>3, <2>1, <2>2, <3>2 DEF Crashes, Inside
    <3>3. CASE s # at
      BY <1>n, <2>2, <2>3, <3>1, <3>3
    <3> QED
      BY <3>2, <3>3
  <2> QED
    BY <2>2, <2>3, <2>4
<1> QED
  BY <1>5, <1>6, <1>7, <1>8, <1>9, <1>10, <1>11 DEF SnakeInv

LEMMA MarkKeeps ==
  ASSUME SnakeInv, Mark
  PROVE  SnakeInv'
<1> DEFINE On(c) == {s \in Alive : Front(s) = c}
<1>n. /\ StartLength \in Nat /\ 1 <= StartLength /\ NumPlayers \in Nat
      /\ MaxTurns \in Nat /\ turn \in 0..MaxTurns
  BY SnakeAssumption DEF SnakeInv, TypeOK
<1>0. TypeOK /\ Alive \subseteq Snakes /\ Alive' = Alive
  BY DEF SnakeInv, TypeOK, Alive, Mark
<1>1. /\ pc = "mark" /\ turn' = turn + 1 /\ turn < MaxTurns
      /\ pc' \in {"over", "move"}
      /\ points' = points /\ direction' = direction
      /\ dead' = dead /\ events' = events /\ at' = at
  BY DEF Mark, SnakeInv, LoopInv
<1>2. board' = [c \in Cells |-> IF On(c) = {} THEN board[c]
                                ELSE CHOOSE s \in On(c) : \A r \in On(c) : r <= s]
  BY DEF Mark
<1>3. ASSUME NEW c \in Cells
      PROVE  /\ On(c) = {} => board'[c] = board[c]
             /\ On(c) # {} => board'[c] \in On(c)
  <2>1. On(c) \in SUBSET Snakes
    BY <1>0
  <2> QED
    BY <1>2, <2>1, LastExists
<1>4. TypeOK'
  <2>1. \A c \in Cells : board'[c] \in Snakes \cup {kEmpty}
    BY <1>0, <1>3 DEF TypeOK
  <2>2. board' \in [Cells -> Snakes \cup {kEmpty}]
    BY <1>2, <2>1
  <2> QED
    BY <1>0, <1>1, <1>n, <2>2 DEF TypeOK
<1>5. LoopInv'
  BY <1>1 DEF LoopInv
<1>6. SnakesAreChains'
  BY <1>1 DEF SnakeInv, SnakesAreChains
<1>7. LivingInside'
  <2> SUFFICES ASSUME NEW s \in Alive, NEW i \in 1..Len(points[s])
               PROVE  points[s][i] \in Cells
    BY <1>0, <1>1 DEF LivingInside, Inside
  <2>1. Len(points[s]) = StartLength
    BY <1>0, PartsArePoints
  <2> QED
    BY <1>1, <2>1, RestingInside
<1>8. NoGhosts'
  <2> SUFFICES ASSUME NEW c \in Cells, board'[c] # kEmpty
               PROVE  board'[c] \notin dead /\ c \in Body(board'[c])
    BY <1>1 DEF NoGhosts, Body
  <2>1. CASE On(c) = {}
    BY <1>3, <2>1 DEF SnakeInv, NoGhosts
  <2>2. CASE On(c) # {}
    <3>1. board'[c] \in Alive /\ points[board'[c]][1] = c
      BY <1>3, <2>2 DEF Front
    <3>2. c \in Body(board'[c])
      BY <1>0, <1>n, <3>1, BodyTiles
    <3> QED
      BY <3>1, <3>2 DEF Alive
  <2> QED
    BY <2>1, <2>2
<1>9. HeadsInv'
  BY <1>0, <1>1 DEF SnakeInv, HeadsInv, Front
<1>10. MarksInv'
  <2> SUFFICES ASSUME dead = {}, NEW s \in Snakes
               PROVE  \A i \in 1..StartLength :
                        /\ points[s][i] \in Cells
                        /\ board'[points[s][i]] = s
                        /\ \A j \in 1..StartLength :
                             points[s][i] = points[s][j] => i = j
    BY <1>1 DEF MarksInv, FirstMarked, Front
  <2>1. Alive = Snakes /\ s \in Alive
    BY DEF Alive
  <2>2. \A r \in Snakes :
          /\ \A i \in 2..StartLength :
               /\ points[r][i] \in Cells
               /\ board[points[r][i]] = r
               /\ \A j \in 2..StartLength : points[r][i] = points[r][j] => i = j
          /\ points[r][1] \in Cells /\ board[points[r][1]] = kEmpty
    BY <1>1 DEF SnakeInv, MarksInv, FirstMarked, Front
  <2>3. board'[points[s][1]] = s
    <3>1. s \in On(points[s][1])
      BY <2>1 DEF Front
    <3>2. \A r \in On(points[s][1]) : r = s
      BY <1>1, <2>1 DEF SnakeInv, HeadsInv, Front
    <3> QED
      BY <1>3, <2>2, <3>1, <3>2
  <2>4. ASSUME NEW i \in 2..StartLength
        PROVE  board'[points[s][i]] = s /\ points[s][i] # points[s][1]
    <3>1. board[points[s][i]] = s /\ s # kEmpty /\ points[s][i] \in Cells
      BY <2>2, Ids
    <3>2. \A r \in Snakes : points[r][1] # points[s][i]
      BY <2>2, <3>1
    <3>3. On(points[s][i]) = {}
      BY <2>1, <3>2 DEF Front
    <3> QED
      BY <1>3, <3>1, <3>2, <3>3
  <2>5. \A i \in 1..StartLength : i = 1 \/ i \in 2..StartLength
    BY <1>n
  <2> QED
    BY <2>2, <2>3, <2>4, <2>5
<1> QED
  BY <1>4, <1>5, <1>6, <1>7, <1>8, <1>9, <1>10 DEF SnakeInv

LEMMA StutterKeeps ==
  ASSUME SnakeInv, UNCHANGED vars
  PROVE  SnakeInv'
<1>1. /\ pc' = pc /\ turn' = turn /\ board' = board /\ points' = points
      /\ direction' = direction /\ dead' = dead /\ events' = events /\ at' = at
  BY DEF vars
<1>2. TypeOK' /\ LoopInv' /\ SnakesAreChains'
  BY <1>1 DEF SnakeInv, TypeOK, LoopInv, SnakesAreChains
<1>3. LivingInside' /\ HeadsInv'
  BY <1>1 DEF SnakeInv, LivingInside, Inside, HeadsInv, Alive, Front
<1>4. NoGhosts'
  BY <1>1 DEF SnakeInv, NoGhosts, Body
<1>5. MarksInv'
  BY <1>1 DEF SnakeInv, MarksInv, FirstMarked, Front
<1> QED
  BY <1>2, <1>3, <1>4, <1>5 DEF SnakeInv

-----------------------------------------------------------------------------
(* Theorems.                                                               *)

\* SnakeInv is an inductive invariant of the game.
THEOREM SnakeInvariant == Spec => []SnakeInv
<1>1. SnakeInv /\ [Next]_vars => SnakeInv'
  BY MoveKeeps, CollideKeeps, MarkKeeps, StutterKeeps DEF Next
<1> QED
  BY <1>1, InitSnake, PTL DEF Spec

\* ProcessTurn keeps the types of the board, the snakes and the events.
THEOREM SnakeTypeCorrect == Spec => []TypeOK
<1>1. SnakeInv => TypeOK
  BY DEF SnakeInv
<1> QED
  BY <1>1, SnakeInvariant, PTL

\* Every mark on the board is under the living snake it names, however many
\* snakes died and in whatever order KillSnake and ShortenTail emptied tiles.
THEOREM MarksAreNoGhosts == Spec => []NoGhosts
<1>1. SnakeInv => NoGhosts
  BY DEF SnakeInv
<1> QED
  BY <1>1, SnakeInvariant, PTL

\* board_ is indexed inside its bounds: a living snake that is outside is one
\* whose head the collision loop has yet to see.
THEOREM LivingStayInside == Spec => []LivingInside
<1>1. SnakeInv => LivingInside
  BY DEF SnakeInv
<1> QED
  BY <1>1, SnakeInvariant, PTL

\* A snake keeps its length and stays connected.
THEOREM SnakesStayChains == Spec => []SnakesAreChains
<1>1. SnakeInv => SnakesAreChains
  BY DEF SnakeInv
<1> QED
  BY <1>1, SnakeInvariant, PTL

\* The collision loop lets no two living heads share a tile, for any number of
\* players and whatever order the meeting snakes are looked at in.
THEOREM LivingHeadsApart == Spec => []HeadsApart
<1>1. SnakeInv => HeadsApart
  BY DEF SnakeInv, HeadsInv, HeadsApart
<1> QED
  BY <1>1, SnakeInvariant, PTL

\* Until the first death the board shows every tile of every snake.
THEOREM MarksAreExact == Spec => []MarksExactUntilADeath
<1>1. SnakeInv => MarksExactUntilADeath
  <2> SUFFICES ASSUME SnakeInv, pc \in {"move", "over"}, dead = {},
                      NEW s \in Snakes, NEW c \in Body(s)
               PROVE  board[c] = s
    BY DEF MarksExactUntilADeath
  <2>1. PICK i \in 1..StartLength : points[s][i] = c
    BY BodyTiles
  <2> QED
    BY <2>1 DEF SnakeInv, MarksInv, FirstMarked
<1> QED
  BY <1>1, SnakeInvariant, PTL

\* What a step may report: see DeathsAreReported.
DeathStep ==
  /\ dead \subseteq dead'
  /\ \A s \in dead : points'[s] = points[s]
  /\ \A s \in Snakes : s \in dead' \ dead <=>
       pc = "collide" /\ \E i \in Len(events) + 1..Len(events') : events'[i] = s
  /\ pc = "collide" => Len(events') = Len(events) + Cardinality(dead' \ dead)

LEMMA Concatenated ==
  ASSUME NEW p \in Seq(Snakes), NEW q \in Seq(Snakes)
  PROVE  /\ p \o q \in Seq(Snakes) /\ Len(p \o q) = Len(p) + Len(q)
         /\ \A i \in 1..Len(p) + Len(q) :
              (p \o q)[i] = IF i <= Len(p) THEN p[i] ELSE q[i - Len(p)]
  BY ConcatProperties, Zenon

\* The events that a turn of the collision loop adds list two sets in turn.
LEMMA ListedInTurn ==
  ASSUME NEW e \in Seq(Snakes), NEW S \in SUBSET Snakes, NEW T \in SUBSET Snakes,
         S \cap T = {}
  PROVE  LET f == e \o Ascending(S) \o Ascending(T) IN
           /\ Len(f) = Len(e) + Cardinality(S \cup T)
           /\ \A s \in Snakes : s \in S \cup T <=> \E i \in Len(e) + 1..Len(f) : f[i] = s
<1> DEFINE a == Ascending(S)
           b == Ascending(T)
           g == e \o a
           f == g \o b
           m == Cardinality(S)
           n == Cardinality(T)
           l == Len(e)
<1>1. /\ IsFiniteSet(S) /\ m \in Nat /\ a \in Seq(Snakes) /\ Len(a) = m
      /\ \A i \in 1..m : a[i] \in S
      /\ \A s \in S : \E i \in 1..m : a[i] = s
  BY AscendingLists
<1>2. /\ IsFiniteSet(T) /\ n \in Nat /\ b \in Seq(Snakes) /\ Len(b) = n
      /\ \A i \in 1..n : b[i] \in T
      /\ \A s \in T : \E i \in 1..n : b[i] = s
  BY AscendingLists
<1>3. Cardinality(S \cup T) = m + n
  <2>1. Cardinality(S \cap T) = 0
    BY FS_EmptySet
  <2>2. Cardinality(S \cup T) = Cardinality(S) + Cardinality(T) - Cardinality(S \cap T)
    BY <1>1, <1>2, FS_Union
  <2> QED
    BY <1>1, <1>2, <2>1, <2>2
<1>l. l \in Nat
  BY LenProperties
<1> HIDE DEF a, b, m, n
<1>4. /\ g \in Seq(Snakes) /\ Len(g) = l + m
      /\ \A i \in 1..l + m : g[i] = IF i <= l THEN e[i] ELSE a[i - l]
  <2>1. /\ g \in Seq(Snakes) /\ Len(g) = Len(e) + Len(a)
        /\ \A i \in 1..Len(e) + Len(a) : g[i] = IF i <= Len(e) THEN e[i] ELSE a[i - Len(e)]
    BY <1>1, Concatenated, Zenon
  <2> QED
    BY <1>1, <2>1
<1> HIDE DEF g, l
<1>5. /\ Len(f) = l + m + n
      /\ \A i \in 1..l + m + n : f[i] = IF i <= l + m THEN g[i] ELSE b[i - (l + m)]
  <2>1. /\ Len(f) = Len(g) + Len(b)
        /\ \A i \in 1..Len(g) + Len(b) : f[i] = IF i <= Len(g) THEN g[i] ELSE b[i - Len(g)]
    BY <1>2, <1>4, Concatenated, Zenon
  <2> QED
    BY <1>2, <1>4, <2>1
<1> HIDE DEF f
<1>6. ASSUME NEW s \in S PROVE \E i \in l + 1..l + m + n : f[i] = s
  <2>1. PICK i \in 1..m : a[i] = s
    BY <1>1
  <2>2. /\ l + i \in l + 1..l + m + n /\ l + i \in 1..l + m + n /\ l + i \in 1..l + m
        /\ ~(l + i <= l) /\ (l + i) - l = i /\ l + i <= l + m
    BY <1>1, <1>2, <1>l
  <2>3. f[l + i] = g[l + i]
    BY <1>5, <2>2
  <2>4. g[l + i] = a[i]
    BY <1>4, <2>2
  <2> QED
    BY <2>1, <2>2, <2>3, <2>4
<1>7. ASSUME NEW s \in T PROVE \E i \in l + 1..l + m + n : f[i] = s
  <2>1. PICK i \in 1..n : b[i] = s
    BY <1>2
  <2>2. /\ l + m + i \in l + 1..l + m + n /\ l + m + i \in 1..l + m + n
        /\ ~(l + m + i <= l + m) /\ (l + m + i) - (l + m) = i
    BY <1>1, <1>2, <1>l
  <2>3. f[l + m + i] = b[i]
    BY <1>5, <2>2
  <2> QED
    BY <2>1, <2>2, <2>3
<1>8. ASSUME NEW i \in l + 1..l + m + n PROVE f[i] \in S \cup T
  <2>0. i \in 1..l + m + n /\ ~(i <= l)
    BY <1>1, <1>2, <1>l
  <2>1. CASE i <= l + m
    <3>1. i \in 1..l + m /\ i - l \in 1..m
      BY <1>1, <1>2, <1>l, <2>0, <2>1
    <3>2. f[i] = a[i - l]
      BY <1>4, <1>5, <2>0, <2>1, <3>1
    <3> QED
      BY <1>1, <3>1, <3>2
  <2>2. CASE ~(i <= l + m)
    <3>1. i - (l + m) \in 1..n
      BY <1>1, <1>2, <1>l, <2>0, <2>2
    <3>2. f[i] = b[i - (l + m)]
      BY <1>5, <2>0, <2>2
    <3> QED
      BY <1>2, <3>1, <3>2
  <2> QED
    BY <2>1, <2>2
<1>9. /\ Len(f) = l + Cardinality(S \cup T)
      /\ \A s \in Snakes : s \in S \cup T <=> \E i \in l + 1..Len(f) : f[i] = s
  <2>1. Len(f) = l + (m + n)
    BY <1>1, <1>2, <1>l, <1>5
  <2> QED
    BY <1>3, <1>5, <1>6, <1>7, <1>8, <2>1
<1> QED
  BY <1>9 DEF f, g, a, b, l

LEMMA CollideReports ==
  ASSUME SnakeInv, Collide
  PROVE  DeathStep
<1>1. /\ pc = "collide" /\ points' = points /\ Dying \subseteq Alive
      /\ dead' = dead \cup Dying
  BY CollideEffect
<1>2. dead' \ dead = Dying
  BY <1>1 DEF Alive
<1>3. events \in Seq(Snakes) /\ Len(events) \in Nat
  BY LenProperties DEF SnakeInv, TypeOK
<1>4. /\ Len(events') = Len(events) + Cardinality(Dying)
      /\ \A s \in Snakes :
           s \in Dying <=> \E i \in Len(events) + 1..Len(events') : events'[i] = s
  <2>1. CASE at \in dead
    <3>1. Dying = {} /\ events' = events
      BY <2>1 DEF Collide, Dying
    <3>2. Cardinality({}) = 0
      BY FS_EmptySet
    <3> QED
      BY <1>3, <3>1, <3>2
  <2>2. CASE at \notin dead
    <3> DEFINE S == Killed(at).first
               T == Killed(at).same
    <3>1. Dying = S \cup T
      BY <2>2 DEF Dying
    <3>2. S \in SUBSET Snakes /\ T \in SUBSET Snakes
      BY <1>1, <3>1 DEF Alive
    <3>3. S \cap T = {}
      BY DEF Killed, SameHeads
    <3>4. events' = events \o Ascending(S) \o Ascending(T)
      BY <2>2 DEF Collide
    <3> HIDE DEF S, T
    <3> DEFINE f == events \o Ascending(S) \o Ascending(T)
    <3>5. /\ Len(f) = Len(events) + Cardinality(S \cup T)
          /\ \A s \in Snakes :
               s \in S \cup T <=> \E i \in Len(events) + 1..Len(f) : f[i] = s
      BY <1>3, <3>2, <3>3, ListedInTurn
    <3> QED
      BY <3>1, <3>4, <3>5
  <2> QED
    BY <2>1, <2>2
<1> QED
  BY <1>1, <1>2, <1>4 DEF DeathStep

\* Every death is reported in the events of its turn, once, and the dead do not
\* change: what ProcessTurn tells the players is what it did to the snakes.
THEOREM DeathsReported == Spec => DeathsAreReported
<1>1. ASSUME SnakeInv, NEW actions \in [Snakes -> Actions], Move(actions)
      PROVE  DeathStep
  BY <1>1, MoveEffect DEF DeathStep
<1>2. Mark => DeathStep
  BY DEF Mark, DeathStep
<1>3. SnakeInv /\ [Next]_vars => [DeathStep]_vars
  BY <1>1, <1>2, CollideReports DEF Next
<1> QED
  BY <1>3, SnakeInvariant, PTL DEF Spec, DeathsAreReported, DeathStep
=============================================================================
