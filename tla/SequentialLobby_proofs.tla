----------------------- MODULE SequentialLobby_proofs -----------------------
(***************************************************************************)
(* Safety of the lobby for every number of players, matches and sizes.     *)
(*                                                                         *)
(* None of the invariants that the runs check is inductive: what a match   *)
(* thread may find in its match depends on which ids the io thread has     *)
(* handed out, on the player its handler still holds between two critical  *)
(* sections, and on who owns a connection.  LobbyInv collects all of it.   *)
(***************************************************************************)
EXTENDS SequentialLobby, SequenceTheorems, WellFoundedInduction, TLAPS

Handling == {"request", "create", "insert"}

\* Between two handlers the observers are those of the waiting players; during
\* one the player it runs for is the only one without an observer.
HandlerInv ==
  /\ io.pc \in Handling => /\ io.player \in PlayerId
                           /\ io.player \notin observed
                           /\ waiting_players = observed \cup {io.player}
  /\ io.pc \notin Handling => waiting_players = observed
  /\ io.pc \in {"create", "insert"} => io.want # NotJoin
  /\ io.pc = "insert" => io.want \in Sizes

\* An id that has not been handed out, or whose match is still to be inserted,
\* has neither an entry in the map nor a thread nor players.
IdInv ==
  /\ io.pc = "insert" => match_id_counter \in MatchId
  /\ \A m \in MatchId :
       /\ m \in matches => size[m] \in Sizes
       /\ m > match_id_counter \/ (io.pc = "insert" /\ m = match_id_counter) =>
            m \notin matches /\ match_threads[m] = "none"
       /\ m \notin matches /\ match_threads[m] = "none" => seats[m] = <<>>

\* The entry of a match is in the map until its thread unlinks it.
ThreadInv ==
  /\ StartedIffFull
  /\ \A m \in MatchId :
       IF m \in matches THEN match_threads[m] \notin {"destroying", "exited"}
                        ELSE match_threads[m] \in {"none", "destroying", "exited"}

\* Who owns a connection; only players that were accepted have one.
PlaceInv ==
  /\ EveryPlayerHasOnePlace
  /\ \A p \in waiting_players : p <= player_id_counter
  /\ \A m \in MatchId : \A i \in 1..Len(seats[m]) : seats[m][i] <= player_id_counter

\* Only the thread of a match that is being destroyed cancels reads.
LinkInv ==
  /\ \A p \in waiting_players : link[p] \notin {"cancelled", "missed", "gone"}
  /\ \A m \in MatchId : match_threads[m] \notin {"destroying", "exited"} =>
       \A i \in 1..Len(seats[m]) : link[seats[m][i]] \notin {"cancelled", "missed", "gone"}

\* Between the two critical sections of JoinRequest no other thread queues a
\* match of the size that was looked for.
QueueInv ==
  /\ OneQueuedMatchPerSize
  /\ io.pc \in {"create", "insert"} => Candidates(io.want) = {}

LobbyInv ==
  /\ TypeOK
  /\ HandlerInv
  /\ IdInv
  /\ ThreadInv
  /\ PlaceInv
  /\ LinkInv
  /\ OneMapWriter
  /\ QueueInv

-----------------------------------------------------------------------------
(* The smallest match of a non-empty set of matches exists.                *)

LEMMA FirstIsMember ==
  ASSUME NEW S \in SUBSET MatchId, S # {}
  PROVE  First(S) \in S
<1> DEFINE R == {e \in Nat \X Nat : e[1] < e[2]}
<1>1. IsWellFoundedOn(R, Nat)
  BY NatLessThanWellFounded DEF OpToRel
<1>2. PICK x \in S : \A y \in S : <<y, x>> \notin R
  <2>1. S \subseteq Nat
    BY LobbyAssumption DEF MatchId
  <2> HIDE DEF R
  <2> QED
    BY <1>1, <2>1, WFMin
<1>3. ASSUME NEW y \in S PROVE x <= y
  <2>1. x \in Nat /\ y \in Nat
    BY LobbyAssumption DEF MatchId
  <2>2. ~(y < x)
    BY <1>2, <2>1
  <2> QED
    BY <2>1, <2>2
<1> QED
  BY <1>3 DEF First

\* What taking a seat does to the seats of one match.
LEMMA AppendSeat ==
  ASSUME NEW s \in Seq(PlayerId), NEW p \in PlayerId
  PROVE  /\ Append(s, p) \in Seq(PlayerId)
         /\ Len(s) \in Nat
         /\ Len(Append(s, p)) = Len(s) + 1
         /\ \A i \in 1..Len(s) : Append(s, p)[i] = s[i]
         /\ Append(s, p)[Len(s) + 1] = p
  OBVIOUS

\* What destroying the next connection does to the seats of one match.
LEMMA TailSeat ==
  ASSUME NEW s \in Seq(PlayerId), s # <<>>
  PROVE  /\ Tail(s) \in Seq(PlayerId)
         /\ Len(s) \in Nat \ {0}
         /\ Len(Tail(s)) = Len(s) - 1
         /\ Head(s) = s[1] /\ Head(s) \in PlayerId
         /\ \A i \in 1..Len(s) - 1 : Tail(s)[i] = s[i + 1]
  BY HeadTailProperties, EmptySeq

LEMMA InitLobby == Init => LobbyInv
<1> SUFFICES ASSUME Init PROVE LobbyInv
  OBVIOUS
<1> USE LobbyAssumption DEF Init, PlayerId, MatchId, Idle, Handling
<1>1. TypeOK
  BY DEF TypeOK, IoPc, ThreadPc, LinkState, Wants, Free, Io, Invalid
<1>2. HandlerInv /\ IdInv /\ ThreadInv /\ LinkInv /\ OneMapWriter
  BY DEF HandlerInv, IdInv, ThreadInv, StartedIffFull, LinkInv, OneMapWriter
<1>3. PlaceInv
  BY DEF PlaceInv, EveryPlayerHasOnePlace
<1>4. QueueInv
  BY DEF QueueInv, OneQueuedMatchPerSize
<1> QED
  BY <1>1, <1>2, <1>3, <1>4 DEF LobbyInv

-----------------------------------------------------------------------------
(* The match that TryJoinExistingMatch picks is one of the candidates.     *)

LEMMA JoinedMatch ==
  ASSUME TypeOK, NEW want, Candidates(want) # {}
  PROVE  LET m == First(Candidates(want)) IN
           m \in MatchId /\ m \in matches /\ ~is_full(m) /\ size[m] = want
<1>1. Candidates(want) \in SUBSET MatchId
  BY DEF Candidates, TypeOK
<1>2. First(Candidates(want)) \in Candidates(want)
  BY <1>1, FirstIsMember
<1> QED
  BY <1>1, <1>2 DEF Candidates

\* The shape of every conjunct of TypeOK survives every step.
LEMMA TypeStep == LobbyInv /\ [Next]_vars => TypeOK'
<1> SUFFICES ASSUME LobbyInv, [Next]_vars PROVE TypeOK'
  OBVIOUS
<1>0. TypeOK /\ HandlerInv /\ IdInv
  BY DEF LobbyInv
<1> USE LobbyAssumption, <1>0 DEF TypeOK, IoPc, ThreadPc, LinkState
<1>1. CASE AddPlayer
  <2>1. player_id_counter + 1 \in 0..MaxPlayers /\ player_id_counter + 1 \in PlayerId
    BY <1>1 DEF AddPlayer, PlayerId
  <2> QED
    BY <1>1, <2>1 DEF AddPlayer, WaitForJoin, matchVars
<1>2. ASSUME NEW p \in PlayerId, NEW want \in Wants, ReceiveMessage(p, want)
      PROVE  TypeOK'
  BY <1>2 DEF ReceiveMessage, matchVars
<1>3. CASE IgnoreMessage
  BY <1>3 DEF IgnoreMessage, IoAt, WaitForJoin, matchVars, HandlerInv, Handling, Idle, Wants
<1>4. CASE JoinExisting
  <2> DEFINE m == First(Candidates(io.want))
  <2>1. m \in MatchId
    BY <1>4, JoinedMatch DEF JoinExisting
  <2>2. io.player \in PlayerId
    BY <1>4 DEF JoinExisting, IoAt, HandlerInv, Handling
  <2>3. Append(seats[m], io.player) \in Seq(PlayerId)
    BY <2>1, <2>2, AppendSeat
  <2> HIDE DEF m
  <2>4. AssignPlayerToMatch(io.player, m, size[m])
    BY <1>4 DEF JoinExisting, m
  <2>5. seats' \in [MatchId -> Seq(PlayerId)]
    BY <2>3, <2>4 DEF AssignPlayerToMatch
  <2>6. waiting_players' \subseteq PlayerId /\ match_threads' \in [MatchId -> ThreadPc]
    BY <2>4 DEF AssignPlayerToMatch
  <2> QED
    BY <1>4, <2>5, <2>6 DEF JoinExisting, Idle, Wants
<1>5. CASE NoneToJoin
  BY <1>5 DEF NoneToJoin, lobbyVars, matchVars
<1>6. CASE RefuseOptions
  BY <1>6 DEF RefuseOptions, IoAt, WaitForJoin, matchVars, HandlerInv, Handling, Idle, Wants
<1>7. CASE LockToInsert
  <2>1. match_id_counter' \in 0..MaxMatches
    BY <1>7 DEF LockToInsert
  <2>2. io' \in [pc : IoPc, player : PlayerId \cup {0}, want : Wants]
    BY <1>7 DEF LockToInsert
  <2> QED
    BY <1>7, <2>1, <2>2 DEF LockToInsert, lobbyVars
<1>8. CASE InsertMatch
  <2> DEFINE m == NewMatchId
  <2>1. m \in MatchId /\ io.player \in PlayerId /\ io.want \in Sizes
    BY <1>8 DEF InsertMatch, IoAt, NewMatchId, IdInv, HandlerInv, Handling
  <2>2. Append(seats[m], io.player) \in Seq(PlayerId)
    BY <2>1, AppendSeat
  <2> HIDE DEF m
  <2>3. AssignPlayerToMatch(io.player, m, io.want)
    BY <1>8 DEF InsertMatch, m
  <2>4. matches' = matches \cup {m} /\ size' = [size EXCEPT ![m] = io.want]
    BY <1>8 DEF InsertMatch, m
  <2> QED
    BY <1>8, <2>1, <2>2, <2>3, <2>4 DEF InsertMatch, AssignPlayerToMatch, Idle, Wants
<1>9. CASE JoinThreads
  BY <1>9 DEF JoinThreads, lobbyVars, matchVars
<1>10. ASSUME NEW p \in PlayerId, PeerLeaves(p) \/ PeerEndsLine(p) \/ HandleReadError(p)
       PROVE  TypeOK'
  BY <1>10 DEF PeerLeaves, PeerEndsLine, HandleReadError, lobbyVars, matchVars
<1>11. ASSUME NEW p \in PlayerId, HandlerThrows(p)
       PROVE  TypeOK'
  BY <1>11 DEF HandlerThrows, Idle, Wants, lobbyVars, matchVars
<1>12. ASSUME NEW m \in MatchId, FindMatch(m) \/ GameOver(m) \/ MatchFinished(m)
                                   \/ Unlink(m) \/ ThreadEnds(m)
       PROVE  TypeOK'
  BY <1>12 DEF FindMatch, GameOver, MatchFinished, Unlink, ThreadEnds, Step, lobbyVars
<1>13. ASSUME NEW m \in MatchId, CancelRead(m)
       PROVE  TypeOK'
  BY <1>13 DEF CancelRead, lobbyVars, matchVars
<1>14. ASSUME NEW m \in MatchId, DestroyConnection(m)
       PROVE  TypeOK'
  <2>1. Tail(seats[m]) \in Seq(PlayerId) /\ Head(seats[m]) \in PlayerId
    BY <1>14, TailSeat DEF DestroyConnection
  <2> QED
    BY <1>14, <2>1 DEF DestroyConnection, lobbyVars
<1>15. ASSUME NEW m \in MatchId, RacyLookup(m) \/ BroadcastThrows(m)
       PROVE  TypeOK'
  BY <1>15 DEF RacyLookup, BroadcastThrows, lobbyVars, matchVars
<1>16. CASE UNCHANGED vars
  BY <1>16 DEF vars
<1> QED
  BY <1>1, <1>2, <1>3, <1>4, <1>5, <1>6, <1>7, <1>8, <1>9, <1>10, <1>11, <1>12,
     <1>13, <1>14, <1>15, <1>16 DEF Next, IoStep, ThreadStep

-----------------------------------------------------------------------------
(* Observers and the player of the running handler.                        *)

LEMMA HandlerStep == LobbyInv /\ [Next]_vars => HandlerInv'
<1> SUFFICES ASSUME LobbyInv, [Next]_vars PROVE HandlerInv'
  OBVIOUS
<1>0. TypeOK /\ HandlerInv
  BY DEF LobbyInv
<1> USE <1>0 DEF HandlerInv, Handling, IoAt
<1>1. CASE AddPlayer
  BY <1>1 DEF AddPlayer, WaitForJoin
<1>2. ASSUME NEW p \in PlayerId, NEW want \in Wants, ReceiveMessage(p, want)
      PROVE  HandlerInv'
  <2>1. io' = [pc |-> "request", player |-> p, want |-> want]
    BY <1>2 DEF ReceiveMessage
  <2>2. io'.pc = "request" /\ io'.player = p
    BY <2>1
  <2> QED
    BY <1>2, <2>2 DEF ReceiveMessage
<1>3. CASE IgnoreMessage \/ RefuseOptions
  BY <1>3 DEF IgnoreMessage, RefuseOptions, WaitForJoin, Idle
<1>4. CASE JoinExisting \/ InsertMatch
  <2>1. waiting_players' = waiting_players \ {io.player}
    BY <1>4 DEF JoinExisting, InsertMatch, AssignPlayerToMatch
  <2>2. io'.pc = "idle" /\ observed' = observed /\ io.pc \in Handling
    BY <1>4 DEF JoinExisting, InsertMatch, Idle
  <2> QED
    BY <2>1, <2>2
<1>5. CASE NoneToJoin
  <2>1. io'.pc = "create" /\ io'.player = io.player /\ io'.want = io.want
    BY <1>5 DEF NoneToJoin, TypeOK
  <2> QED
    BY <1>5, <2>1 DEF NoneToJoin, lobbyVars
<1>6. CASE LockToInsert
  <2>1. io'.pc = "insert" /\ io'.player = io.player /\ io'.want = io.want
    BY <1>6 DEF LockToInsert, TypeOK
  <2>2. io.want \in Sizes
    BY <1>6 DEF LockToInsert, TypeOK, Wants
  <2> QED
    BY <1>6, <2>1, <2>2 DEF LockToInsert, lobbyVars
<1>7. CASE JoinThreads
  <2>1. io'.pc = "joined"
    BY <1>7 DEF JoinThreads, TypeOK
  <2> QED
    BY <1>7, <2>1 DEF JoinThreads, lobbyVars
<1>8. ASSUME NEW p \in PlayerId, HandlerThrows(p)
      PROVE  HandlerInv'
  BY <1>8 DEF HandlerThrows, Idle, lobbyVars
<1>9. ASSUME NEW p \in PlayerId, PeerLeaves(p) \/ PeerEndsLine(p) \/ HandleReadError(p)
      PROVE  HandlerInv'
  BY <1>9 DEF PeerLeaves, PeerEndsLine, HandleReadError, lobbyVars
<1>10. ASSUME NEW m \in MatchId,
              ThreadStep(m) \/ RacyLookup(m) \/ BroadcastThrows(m)
       PROVE  HandlerInv'
  BY <1>10 DEF ThreadStep, FindMatch, GameOver, MatchFinished, Unlink, CancelRead,
               DestroyConnection, ThreadEnds, RacyLookup, BroadcastThrows, lobbyVars
<1>11. CASE UNCHANGED vars
  BY <1>11 DEF vars
<1> QED
  BY <1>1, <1>2, <1>3, <1>4, <1>5, <1>6, <1>7, <1>8, <1>9, <1>10, <1>11
     DEF Next, IoStep

-----------------------------------------------------------------------------
(* The owner of matches_mutex_.                                            *)

LEMMA MutexStep == LobbyInv /\ [Next]_vars => OneMapWriter'
<1> SUFFICES ASSUME LobbyInv, [Next]_vars PROVE OneMapWriter'
  OBVIOUS
<1>0. TypeOK /\ OneMapWriter
  BY DEF LobbyInv
<1>1. /\ \A m \in MatchId : m # Free /\ m # Io
      /\ Free # Io
  BY LobbyAssumption DEF MatchId, Free, Io
<1> USE <1>0, <1>1 DEF OneMapWriter, TypeOK, IoAt, Unlocked
<1>2. ASSUME \/ AddPlayer
             \/ \E p \in PlayerId : PeerLeaves(p) \/ PeerEndsLine(p) \/ HandleReadError(p)
             \/ \E m \in MatchId : CancelRead(m) \/ DestroyConnection(m)
                                     \/ RacyLookup(m) \/ BroadcastThrows(m)
             \/ UNCHANGED vars
      PROVE  OneMapWriter'
  BY <1>2 DEF AddPlayer, PeerLeaves, PeerEndsLine, HandleReadError, CancelRead, DestroyConnection,
              RacyLookup, BroadcastThrows, vars, matchVars
<1>3. ASSUME \/ IgnoreMessage \/ RefuseOptions \/ NoneToJoin \/ JoinThreads
             \/ \E p \in PlayerId : \/ \E want \in Wants : ReceiveMessage(p, want)
                                    \/ HandlerThrows(p)
      PROVE  OneMapWriter'
  BY <1>3 DEF IgnoreMessage, RefuseOptions, NoneToJoin, JoinThreads, ReceiveMessage,
              HandlerThrows, Idle, matchVars
<1>4. CASE JoinExisting
  <2>1. io'.pc = "idle" /\ matches_mutex' = matches_mutex
    BY <1>4 DEF JoinExisting, Idle
  <2>2. ASSUME NEW m \in MatchId, match_threads'[m] \in {"erasing", "destroying"}
        PROVE  match_threads[m] = match_threads'[m]
    BY <1>4, <2>2 DEF JoinExisting, AssignPlayerToMatch
  <2> QED
    BY <2>1, <2>2
<1>5. CASE LockToInsert
  BY <1>5 DEF LockToInsert
<1>6. CASE InsertMatch
  <2>1. io'.pc = "idle" /\ matches_mutex = Io
    BY <1>6 DEF InsertMatch, Idle
  <2>2. ASSUME NEW m \in MatchId, match_threads'[m] \in {"erasing", "destroying"}
        PROVE  match_threads[m] = match_threads'[m]
    BY <1>6, <2>2 DEF InsertMatch, AssignPlayerToMatch
  <2> QED
    BY <2>1, <2>2
<1>7. ASSUME NEW m \in MatchId, FindMatch(m) \/ GameOver(m) \/ Unlink(m)
      PROVE  OneMapWriter'
  BY <1>7 DEF FindMatch, GameOver, Unlink, Step, ThreadAt
<1>8. ASSUME NEW m \in MatchId, MatchFinished(m)
      PROVE  OneMapWriter'
  BY <1>8 DEF MatchFinished, Step, ThreadAt
<1>9. ASSUME NEW m \in MatchId, ThreadEnds(m)
      PROVE  OneMapWriter'
  BY <1>9 DEF ThreadEnds, Step, ThreadAt
<1> QED
  BY <1>2, <1>3, <1>4, <1>5, <1>6, <1>7, <1>8, <1>9 DEF Next, IoStep, ThreadStep

-----------------------------------------------------------------------------
(* Both ways of seating the player of the running handler, seen from the   *)
(* match that gets it.                                                     *)

LEMMA JoinEffect ==
  ASSUME LobbyInv, JoinExisting
  PROVE  \E m \in MatchId :
           /\ m \in matches /\ ~is_full(m) /\ size[m] = io.want
           /\ match_threads[m] = "none"
           /\ io.player \in PlayerId /\ io.player \in waiting_players
           /\ AssignPlayerToMatch(io.player, m, size[m])
<1> DEFINE m == First(Candidates(io.want))
<1>1. m \in MatchId /\ m \in matches /\ ~is_full(m) /\ size[m] = io.want
  BY JoinedMatch DEF LobbyInv, JoinExisting
<1>2. AssignPlayerToMatch(io.player, m, size[m])
  BY DEF JoinExisting
<1>3. io.player \in PlayerId /\ io.player \in waiting_players
  BY DEF JoinExisting, IoAt, LobbyInv, HandlerInv, Handling
<1> HIDE DEF m
<1>4. match_threads[m] = "none"
  BY <1>1 DEF LobbyInv, ThreadInv, StartedIffFull
<1> QED
  BY <1>1, <1>2, <1>3, <1>4

LEMMA InsertEffect ==
  ASSUME LobbyInv, InsertMatch
  PROVE  \E m \in MatchId :
           /\ m = match_id_counter
           /\ m \notin matches /\ match_threads[m] = "none" /\ seats[m] = <<>>
           /\ io.want \in Sizes /\ io.want \in 1..4
           /\ io.player \in PlayerId /\ io.player \in waiting_players
           /\ matches' = matches \cup {m}
           /\ size' = [size EXCEPT ![m] = io.want]
           /\ AssignPlayerToMatch(io.player, m, io.want)
           /\ Len(seats[m]) = 0
<1> DEFINE m == match_id_counter
<1>1. /\ m \in MatchId /\ m \notin matches
      /\ match_threads[m] = "none" /\ seats[m] = <<>>
  BY DEF InsertMatch, IoAt, LobbyInv, IdInv
<1>2. io.want \in Sizes /\ io.player \in PlayerId /\ io.player \in waiting_players
  BY DEF InsertMatch, IoAt, LobbyInv, HandlerInv, Handling
<1>3. io.want \in 1..4
  BY <1>2, LobbyAssumption
<1>4. /\ matches' = matches \cup {m}
      /\ size' = [size EXCEPT ![m] = io.want]
      /\ AssignPlayerToMatch(io.player, m, io.want)
  BY DEF InsertMatch, NewMatchId
<1>5. Len(seats[m]) = 0
  BY <1>1
<1> QED
  BY <1>1, <1>2, <1>3, <1>4, <1>5

-----------------------------------------------------------------------------
(* Ids, entries of the map, and threads.                                   *)

LEMMA IdStep == LobbyInv /\ [Next]_vars => IdInv'
<1> SUFFICES ASSUME LobbyInv, [Next]_vars PROVE IdInv'
  OBVIOUS
<1>0. TypeOK /\ IdInv /\ ThreadInv
  BY DEF LobbyInv
<1>n. MatchId \subseteq Nat /\ match_id_counter \in Nat /\ MaxMatches \in Nat
  BY <1>0, LobbyAssumption DEF TypeOK, MatchId
<1>1. ASSUME \/ AddPlayer
             \/ \E p \in PlayerId : PeerLeaves(p) \/ PeerEndsLine(p) \/ HandleReadError(p)
             \/ \E m \in MatchId : CancelRead(m) \/ RacyLookup(m) \/ BroadcastThrows(m)
             \/ UNCHANGED vars
      PROVE  IdInv'
  BY <1>0, <1>1 DEF IdInv, AddPlayer, PeerLeaves, PeerEndsLine, HandleReadError, CancelRead,
              RacyLookup, BroadcastThrows, vars, matchVars
<1>2. ASSUME \/ IgnoreMessage \/ RefuseOptions \/ NoneToJoin \/ JoinThreads
             \/ \E p \in PlayerId : \/ \E want \in Wants : ReceiveMessage(p, want)
                                    \/ HandlerThrows(p)
      PROVE  IdInv'
  <2>1. UNCHANGED matchVars /\ io'.pc # "insert" /\ io.pc # "insert"
    BY <1>0, <1>2 DEF IgnoreMessage, RefuseOptions, NoneToJoin, JoinThreads, ReceiveMessage,
              HandlerThrows, Idle, IoAt, TypeOK
  <2> QED
    BY <1>0, <2>1 DEF IdInv, matchVars
<1>3. CASE JoinExisting
  <2>1. PICK m \in MatchId : /\ m \in matches
                             /\ AssignPlayerToMatch(io.player, m, size[m])
    BY <1>3, JoinEffect
  <2>2. /\ UNCHANGED <<match_id_counter, matches, size>>
        /\ io'.pc = "idle" /\ io.pc = "request"
    BY <1>3 DEF JoinExisting, Idle, IoAt
  <2>3. \A k \in MatchId : k # m => UNCHANGED <<seats[k], match_threads[k]>>
    BY <1>0, <2>1 DEF AssignPlayerToMatch, TypeOK
  <2> QED
    BY <1>0, <2>1, <2>2, <2>3 DEF IdInv
<1>4. CASE LockToInsert
  <2>1. /\ match_id_counter' = match_id_counter + 1
        /\ match_id_counter < MaxMatches
        /\ UNCHANGED <<matches, size, seats, match_threads>>
        /\ io'.pc = "insert" /\ io.pc = "create"
    BY <1>0, <1>4 DEF LockToInsert, IoAt, TypeOK
  <2>2. match_id_counter' \in MatchId
    BY <1>n, <2>1 DEF MatchId
  <2>3. \A m \in MatchId : m >= match_id_counter' => m > match_id_counter
    BY <1>n, <2>1
  <2> QED
    BY <1>0, <1>n, <2>1, <2>2, <2>3 DEF IdInv
<1>5. CASE InsertMatch
  <2>1. PICK m \in MatchId : /\ m = match_id_counter
                             /\ io.want \in Sizes
                             /\ matches' = matches \cup {m}
                             /\ size' = [size EXCEPT ![m] = io.want]
                             /\ AssignPlayerToMatch(io.player, m, io.want)
    BY <1>5, InsertEffect
  <2>2. UNCHANGED match_id_counter /\ io'.pc = "idle"
    BY <1>5 DEF InsertMatch, Idle
  <2>3. \A k \in MatchId : k # m => UNCHANGED <<seats[k], match_threads[k], size[k]>>
    BY <1>0, <2>1 DEF AssignPlayerToMatch, TypeOK
  <2>4. size'[m] \in Sizes /\ ~(m > match_id_counter)
    BY <1>0, <1>n, <2>1 DEF TypeOK
  <2> QED
    BY <1>0, <2>1, <2>2, <2>3, <2>4 DEF IdInv
<1>6. ASSUME NEW m \in MatchId, FindMatch(m) \/ GameOver(m) \/ MatchFinished(m)
                                  \/ Unlink(m) \/ ThreadEnds(m)
      PROVE  IdInv'
  <2>1. UNCHANGED <<match_id_counter, io, size, seats>> /\ matches' \subseteq matches
    BY <1>6 DEF FindMatch, GameOver, MatchFinished, Unlink, ThreadEnds
  <2>2. match_threads[m] # "none" /\ match_threads'[m] # "none"
    BY <1>0, <1>6 DEF FindMatch, GameOver, MatchFinished, Unlink, ThreadEnds, Step,
                      ThreadAt, TypeOK
  <2>3. \A k \in MatchId : k # m => /\ match_threads'[k] = match_threads[k]
                                    /\ k \in matches <=> k \in matches'
    BY <1>0, <1>6 DEF FindMatch, GameOver, MatchFinished, Unlink, ThreadEnds, Step, TypeOK
  <2> QED
    BY <1>0, <2>1, <2>2, <2>3 DEF IdInv
<1>7. ASSUME NEW m \in MatchId, DestroyConnection(m)
      PROVE  IdInv'
  <2>1. /\ UNCHANGED <<match_id_counter, io, size, matches, match_threads>>
        /\ match_threads[m] = "destroying"
        /\ \A k \in MatchId : k # m => seats'[k] = seats[k]
    BY <1>0, <1>7 DEF DestroyConnection, ThreadAt, TypeOK
  <2> QED
    BY <1>0, <2>1 DEF IdInv
<1> QED
  BY <1>1, <1>2, <1>3, <1>4, <1>5, <1>6, <1>7 DEF Next, IoStep, ThreadStep

LEMMA ThreadInvStep == LobbyInv /\ [Next]_vars => ThreadInv'
<1> SUFFICES ASSUME LobbyInv, [Next]_vars PROVE ThreadInv'
  OBVIOUS
<1>0. TypeOK /\ IdInv /\ ThreadInv
  BY DEF LobbyInv
<1>n. ASSUME NEW m \in MatchId
      PROVE  Len(seats[m]) \in Nat /\ size[m] \in Nat
  <2>1. seats[m] \in Seq(PlayerId) /\ size[m] \in Sizes \cup {0}
    BY <1>0 DEF TypeOK
  <2>2. Sizes \cup {0} \subseteq Nat
    BY LobbyAssumption
  <2> QED
    BY <2>1, <2>2, LenProperties
<1> USE DEF ThreadInv, StartedIffFull, is_full
<1>1. ASSUME UNCHANGED matchVars
      PROVE  ThreadInv'
  BY <1>0, <1>1 DEF matchVars
<1>2. CASE JoinExisting
  <2>1. PICK m \in MatchId : /\ m \in matches /\ ~is_full(m)
                             /\ match_threads[m] = "none"
                             /\ io.player \in PlayerId
                             /\ AssignPlayerToMatch(io.player, m, size[m])
    BY <1>2, JoinEffect
  <2>2. UNCHANGED <<matches, size>>
    BY <1>2 DEF JoinExisting
  <2>3. \A k \in MatchId : k # m => UNCHANGED <<seats[k], match_threads[k]>>
    BY <1>0, <2>1 DEF AssignPlayerToMatch, TypeOK
  <2>4. Len(seats'[m]) = Len(seats[m]) + 1
    BY <1>0, <2>1, AppendSeat DEF AssignPlayerToMatch, TypeOK
  <2>5. match_threads'[m] = IF Len(seats[m]) + 1 = size[m] THEN "starting" ELSE "none"
    BY <1>0, <2>1 DEF AssignPlayerToMatch, TypeOK
  <2>6. Len(seats[m]) + 1 <= size[m]
    BY <1>0, <1>n, <2>1
  <2>7. Len(seats'[m]) <= size'[m] /\ (match_threads'[m] # "none" <=> Len(seats'[m]) = size'[m])
    BY <2>2, <2>4, <2>5, <2>6
  <2>8. match_threads'[m] \notin {"destroying", "exited"}
    BY <2>5
  <2>9. ASSUME NEW k \in MatchId
        PROVE  /\ k \in matches =>
                    /\ Len(seats'[k]) <= size'[k]
                    /\ match_threads'[k] # "none" <=> Len(seats'[k]) = size'[k]
               /\ IF k \in matches
                  THEN match_threads'[k] \notin {"destroying", "exited"}
                  ELSE match_threads'[k] \in {"none", "destroying", "exited"}
    <3>1. CASE k = m
      BY <2>1, <2>7, <2>8, <3>1
    <3>2. CASE k # m
      BY <1>0, <2>2, <2>3, <3>2
    <3> QED
      BY <3>1, <3>2
  <2> QED
    BY <1>0, <2>2, <2>9 DEF TypeOK
<1>3. CASE InsertMatch
  <2>1. PICK m \in MatchId : /\ match_threads[m] = "none"
                             /\ io.want \in 1..4 /\ io.player \in PlayerId
                             /\ matches' = matches \cup {m}
                             /\ size' = [size EXCEPT ![m] = io.want]
                             /\ AssignPlayerToMatch(io.player, m, io.want)
                             /\ Len(seats[m]) = 0
    BY <1>3, InsertEffect
  <2>2. \A k \in MatchId : k # m => UNCHANGED <<seats[k], match_threads[k], size[k]>>
    BY <1>0, <2>1 DEF AssignPlayerToMatch, TypeOK
  <2>3. Len(seats'[m]) = 1
    BY <1>0, <2>1, AppendSeat DEF AssignPlayerToMatch, TypeOK
  <2>4. match_threads'[m] = IF 1 = io.want THEN "starting" ELSE "none"
    BY <1>0, <2>1 DEF AssignPlayerToMatch, TypeOK
  <2>5. size'[m] = io.want
    BY <1>0, <2>1 DEF TypeOK
  <2>6. Len(seats'[m]) <= size'[m] /\ (match_threads'[m] # "none" <=> Len(seats'[m]) = size'[m])
    BY <2>1, <2>3, <2>4, <2>5
  <2> QED
    BY <1>0, <2>1, <2>2, <2>4, <2>6 DEF TypeOK
<1>4. ASSUME NEW m \in MatchId, FindMatch(m) \/ GameOver(m) \/ MatchFinished(m)
      PROVE  ThreadInv'
  BY <1>0, <1>4 DEF FindMatch, GameOver, MatchFinished, Step, ThreadAt, TypeOK
<1>5. ASSUME NEW m \in MatchId, Unlink(m) \/ ThreadEnds(m)
      PROVE  ThreadInv'
  <2>1. /\ UNCHANGED <<size, seats>> /\ matches' \subseteq matches
        /\ m \notin matches' /\ match_threads'[m] \in {"destroying", "exited"}
        /\ \A k \in MatchId : k # m => /\ match_threads'[k] = match_threads[k]
                                       /\ k \in matches <=> k \in matches'
    BY <1>0, <1>5 DEF Unlink, ThreadEnds, Step, ThreadAt, TypeOK
  <2> QED
    BY <1>0, <2>1 DEF TypeOK
<1>6. ASSUME NEW m \in MatchId, DestroyConnection(m)
      PROVE  ThreadInv'
  BY <1>0, <1>6 DEF DestroyConnection, ThreadAt, TypeOK
<1>7. ASSUME \/ AddPlayer \/ IgnoreMessage \/ NoneToJoin \/ RefuseOptions \/ JoinThreads
             \/ \E p \in PlayerId : \/ \E want \in Wants : ReceiveMessage(p, want)
                                    \/ PeerLeaves(p) \/ PeerEndsLine(p) \/ HandleReadError(p)
                                    \/ HandlerThrows(p)
             \/ \E m \in MatchId : CancelRead(m) \/ RacyLookup(m) \/ BroadcastThrows(m)
             \/ UNCHANGED vars
      PROVE  UNCHANGED matchVars
  BY <1>7 DEF AddPlayer, IgnoreMessage, NoneToJoin, RefuseOptions, JoinThreads,
              ReceiveMessage, PeerLeaves, PeerEndsLine, HandleReadError, HandlerThrows, CancelRead,
              RacyLookup, BroadcastThrows, vars, matchVars
<1>8. CASE LockToInsert
  BY <1>0, <1>8 DEF LockToInsert
<1> QED
  BY <1>1, <1>2, <1>3, <1>4, <1>5, <1>6, <1>7, <1>8 DEF Next, IoStep, ThreadStep

-----------------------------------------------------------------------------
(* Ownership of connections.                                               *)

\* A waiting player that takes a seat leaves one place for exactly one other.
LEMMA SeatKeepsPlaces ==
  ASSUME TypeOK, PlaceInv, NEW m \in MatchId, NEW p \in PlayerId,
         p \in waiting_players, NEW n, AssignPlayerToMatch(p, m, n),
         UNCHANGED <<player_id_counter, link>>
  PROVE  PlaceInv'
<1>1. /\ \A k \in MatchId : k # m => seats'[k] = seats[k]
      /\ seats'[m] = Append(seats[m], p)
      /\ waiting_players' = waiting_players \ {p}
  BY DEF AssignPlayerToMatch, TypeOK
<1>2. /\ Len(seats[m]) \in Nat
      /\ Len(seats'[m]) = Len(seats[m]) + 1
      /\ \A i \in 1..Len(seats[m]) : seats'[m][i] = seats[m][i]
      /\ seats'[m][Len(seats[m]) + 1] = p
  BY <1>1, AppendSeat DEF TypeOK
\* A seat of the new state is the new one or an old one of the same match.
<1>3. ASSUME NEW k \in MatchId, NEW i \in 1..Len(seats'[k])
      PROVE  \/ k = m /\ i = Len(seats[m]) + 1 /\ seats'[k][i] = p
             \/ i \in 1..Len(seats[k]) /\ seats'[k][i] = seats[k][i]
  BY <1>1, <1>2
<1>4. ASSUME NEW k \in MatchId, NEW i \in 1..Len(seats[k])
      PROVE  i \in 1..Len(seats'[k]) /\ seats'[k][i] = seats[k][i] /\ seats[k][i] # p
  <2>1. seats[k][i] # p
    BY DEF PlaceInv, EveryPlayerHasOnePlace
  <2> QED
    BY <1>1, <1>2, <2>1
<1>5. ASSUME NEW q \in 1..player_id_counter'
      PROVE  \/ q \in waiting_players'
             \/ \E k \in MatchId : Seated(q, k)'
             \/ link'[q] = "gone"
  <2>1. CASE q = p
    <3>1. Len(seats[m]) + 1 \in 1..Len(seats'[m])
      BY <1>2
    <3> QED
      BY <2>1, <3>1, <1>2 DEF Seated
  <2>2. CASE q # p /\ q \in waiting_players
    BY <2>2, <1>1
  <2>3. ASSUME NEW k \in MatchId, Seated(q, k)
        PROVE  Seated(q, k)'
    BY <2>3, <1>4 DEF Seated
  <2> QED
    BY <2>1, <2>2, <2>3 DEF PlaceInv, EveryPlayerHasOnePlace
<1>6. ASSUME NEW k \in MatchId, NEW i \in 1..Len(seats'[k])
      PROVE  /\ seats'[k][i] \notin waiting_players'
             /\ seats'[k][i] <= player_id_counter'
             /\ \A l \in MatchId : \A j \in 1..Len(seats'[l]) :
                  seats'[k][i] = seats'[l][j] => k = l /\ i = j
  <2>1. seats'[k][i] \notin waiting_players' /\ seats'[k][i] <= player_id_counter'
    BY <1>1, <1>3 DEF PlaceInv, EveryPlayerHasOnePlace
  <2>2. ASSUME NEW l \in MatchId, NEW j \in 1..Len(seats'[l]), seats'[k][i] = seats'[l][j]
        PROVE  k = l /\ i = j
    <3>1. CASE i \in 1..Len(seats[k]) /\ j \in 1..Len(seats[l])
      <4>1. seats[k][i] = seats[l][j]
        BY <2>2, <3>1, <1>4
      <4>2. \A b \in MatchId : \A c \in 1..Len(seats[b]) :
              seats[k][i] = seats[b][c] => k = b /\ i = c
        BY <3>1 DEF PlaceInv, EveryPlayerHasOnePlace
      <4> QED
        BY <3>1, <4>1, <4>2
    <3>2. CASE i \notin 1..Len(seats[k])
      <4>1. k = m /\ i = Len(seats[m]) + 1 /\ seats'[k][i] = p
        BY <3>2, <1>3
      <4>2. ~(l \in MatchId /\ j \in 1..Len(seats[l]))
        BY <2>2, <4>1, <1>4
      <4>3. l = m /\ j = Len(seats[m]) + 1
        BY <4>2, <1>3
      <4> QED
        BY <4>1, <4>3
    <3>3. CASE j \notin 1..Len(seats[l])
      <4>1. l = m /\ j = Len(seats[m]) + 1 /\ seats'[l][j] = p
        BY <3>3, <1>3
      <4>2. ~(k \in MatchId /\ i \in 1..Len(seats[k]))
        BY <2>2, <4>1, <1>4
      <4>3. k = m /\ i = Len(seats[m]) + 1
        BY <4>2, <1>3
      <4> QED
        BY <4>1, <4>3
    <3> QED
      BY <3>1, <3>2, <3>3
  <2> QED
    BY <2>1, <2>2
<1>7. \A q \in waiting_players' : q <= player_id_counter'
  BY <1>1 DEF PlaceInv
<1> QED
  BY <1>5, <1>6, <1>7 DEF PlaceInv, EveryPlayerHasOnePlace

\* The destructor of the next connection of a match takes one seat away.
LEMMA DestroyKeepsPlaces ==
  ASSUME TypeOK, PlaceInv, NEW m \in MatchId, DestroyConnection(m)
  PROVE  PlaceInv'
<1>1. /\ \A k \in MatchId : k # m => seats'[k] = seats[k]
      /\ seats'[m] = Tail(seats[m]) /\ seats[m] # <<>>
      /\ UNCHANGED <<player_id_counter, waiting_players>>
      /\ link' = [link EXCEPT ![Head(seats[m])] = "gone"]
  BY DEF DestroyConnection, TypeOK, lobbyVars
<1>2. /\ Len(seats[m]) \in Nat \ {0}
      /\ Len(seats'[m]) = Len(seats[m]) - 1
      /\ Head(seats[m]) = seats[m][1] /\ Head(seats[m]) \in PlayerId
      /\ \A i \in 1..Len(seats[m]) - 1 : seats'[m][i] = seats[m][i + 1]
  BY <1>1, TailSeat DEF TypeOK
<1>3. ASSUME NEW k \in MatchId, NEW i \in 1..Len(seats'[k])
      PROVE  \/ k = m /\ i + 1 \in 1..Len(seats[m]) /\ seats'[k][i] = seats[m][i + 1]
             \/ k # m /\ i \in 1..Len(seats[k]) /\ seats'[k][i] = seats[k][i]
  <2>1. CASE k # m
    BY <2>1, <1>1
  <2>2. CASE k = m
    <3>1. i \in 1..Len(seats[m]) - 1
      BY <2>2, <1>2
    <3>2. i + 1 \in 1..Len(seats[m])
      BY <3>1, <1>2
    <3> QED
      BY <2>2, <3>1, <3>2, <1>2
  <2> QED
    BY <2>1, <2>2
<1>4. ASSUME NEW q \in 1..player_id_counter'
      PROVE  \/ q \in waiting_players'
             \/ \E k \in MatchId : Seated(q, k)'
             \/ link'[q] = "gone"
  <2>1. CASE q \in waiting_players
    BY <2>1, <1>1
  <2>2. ASSUME NEW k \in MatchId, k # m, Seated(q, k)
        PROVE  Seated(q, k)'
    BY <2>2, <1>1 DEF Seated
  <2>3. ASSUME Seated(q, m)
        PROVE  Seated(q, m)' \/ link'[q] = "gone"
    <3>1. PICK i \in 1..Len(seats[m]) : seats[m][i] = q
      BY <2>3 DEF Seated
    <3>2. CASE i = 1
      BY <3>1, <3>2, <1>1, <1>2 DEF TypeOK
    <3>3. CASE i # 1
      <4>1. i - 1 \in 1..Len(seats[m]) - 1 /\ seats'[m][i - 1] = seats[m][(i - 1) + 1]
        BY <3>3, <1>2
      <4>2. (i - 1) + 1 = i
        BY <3>3
      <4> QED
        BY <3>1, <4>1, <4>2, <1>2 DEF Seated
    <3> QED
      BY <3>2, <3>3
  <2>4. CASE link[q] = "gone"
    BY <2>4, <1>1, <1>2 DEF TypeOK
  <2> QED
    BY <2>1, <2>2, <2>3, <2>4, <1>1 DEF PlaceInv, EveryPlayerHasOnePlace
<1>5. ASSUME NEW k \in MatchId, NEW i \in 1..Len(seats'[k])
      PROVE  /\ seats'[k][i] \notin waiting_players'
             /\ seats'[k][i] <= player_id_counter'
  BY <1>1, <1>3 DEF PlaceInv, EveryPlayerHasOnePlace
<1>6. ASSUME NEW k \in MatchId, NEW i \in 1..Len(seats'[k]),
             NEW l \in MatchId, NEW j \in 1..Len(seats'[l]), seats'[k][i] = seats'[l][j]
      PROVE  k = l /\ i = j
  <2>1. CASE k # m /\ l # m
    BY <2>1, <1>6, <1>3 DEF PlaceInv, EveryPlayerHasOnePlace
  <2>2. CASE k = m /\ l = m
    <3>1. /\ i + 1 \in 1..Len(seats[m]) /\ seats'[m][i] = seats[m][i + 1]
          /\ j + 1 \in 1..Len(seats[m]) /\ seats'[m][j] = seats[m][j + 1]
      BY <2>2, <1>3
    <3>2. seats[m][i + 1] = seats[m][j + 1]
      BY <2>2, <1>6, <3>1
    <3>3. i + 1 = j + 1
      BY <3>1, <3>2 DEF PlaceInv, EveryPlayerHasOnePlace
    <3>4. i \in Int /\ j \in Int
      OBVIOUS
    <3> QED
      BY <3>3, <3>4, <2>2
  <2>3. CASE (k = m /\ l # m) \/ (k # m /\ l = m)
    BY <2>3, <1>6, <1>3 DEF PlaceInv, EveryPlayerHasOnePlace
  <2> QED
    BY <2>1, <2>2, <2>3
<1>7. \A q \in waiting_players' : q <= player_id_counter'
  BY <1>1 DEF PlaceInv
<1> QED
  BY <1>4, <1>5, <1>6, <1>7 DEF PlaceInv, EveryPlayerHasOnePlace

LEMMA PlaceStep == LobbyInv /\ [Next]_vars => PlaceInv'
<1> SUFFICES ASSUME LobbyInv, [Next]_vars PROVE PlaceInv'
  OBVIOUS
<1>0. TypeOK /\ PlaceInv /\ HandlerInv
  BY DEF LobbyInv
<1>1. ASSUME UNCHANGED <<player_id_counter, waiting_players, seats>>,
             \A p \in PlayerId : link[p] = "gone" => link'[p] = "gone"
      PROVE  PlaceInv'
  <2>1. 1..player_id_counter \subseteq PlayerId
    BY <1>0, LobbyAssumption DEF TypeOK, PlayerId
  <2> QED
    BY <1>0, <1>1, <2>1 DEF PlaceInv, EveryPlayerHasOnePlace, Seated
<1>2. CASE AddPlayer
  <2> DEFINE p == player_id_counter + 1
  <2>1. /\ player_id_counter' = p /\ seats' = seats
        /\ waiting_players' = waiting_players \cup {p}
        /\ \A q \in PlayerId : q # p => link'[q] = link[q]
    BY <1>0, <1>2 DEF AddPlayer, TypeOK, matchVars
  <2>2. player_id_counter \in Nat /\ 1..player_id_counter \subseteq PlayerId
    BY <1>0, LobbyAssumption DEF TypeOK, PlayerId
  <2>3. ASSUME NEW m \in MatchId, NEW i \in 1..Len(seats[m])
        PROVE  seats[m][i] \in Nat /\ seats[m][i] <= player_id_counter
    <3>1. seats[m] \in Seq(PlayerId)
      BY <1>0 DEF TypeOK
    <3>2. seats[m][i] \in PlayerId
      BY <3>1, ElementOfSeq
    <3> QED
      BY <1>0, <3>2, LobbyAssumption DEF PlaceInv, PlayerId
  <2>4. ASSUME NEW q \in 1..player_id_counter'
        PROVE  \/ q \in waiting_players'
               \/ \E k \in MatchId : Seated(q, k)'
               \/ link'[q] = "gone"
    <3>1. CASE q = p
      BY <3>1, <2>1
    <3>2. CASE q # p
      <4>1. q \in 1..player_id_counter
        BY <3>2, <2>1, <2>2
      <4> QED
        BY <1>0, <3>2, <4>1, <2>1, <2>2 DEF PlaceInv, EveryPlayerHasOnePlace, Seated
    <3> QED
      BY <3>1, <3>2
  <2>5. \A m \in MatchId : \A i \in 1..Len(seats[m]) :
          seats[m][i] # p /\ seats[m][i] <= p
    BY <2>2, <2>3
  <2>6. \A q \in waiting_players' : q <= p
    <3>1. \A q \in waiting_players : q \in Nat /\ q <= player_id_counter
      BY <1>0, LobbyAssumption DEF PlaceInv, TypeOK, PlayerId
    <3> QED
      BY <2>1, <2>2, <3>1
  <2> HIDE DEF p
  <2> QED
    BY <1>0, <2>1, <2>4, <2>5, <2>6 DEF PlaceInv, EveryPlayerHasOnePlace
<1>3. CASE JoinExisting
  <2>1. UNCHANGED <<player_id_counter, link>>
    BY <1>3 DEF JoinExisting
  <2> QED
    BY <1>0, <1>3, <2>1, JoinEffect, SeatKeepsPlaces
<1>4. CASE InsertMatch
  <2>1. UNCHANGED <<player_id_counter, link>>
    BY <1>4 DEF InsertMatch
  <2> QED
    BY <1>0, <1>4, <2>1, InsertEffect, SeatKeepsPlaces
<1>5. ASSUME NEW m \in MatchId, DestroyConnection(m)
      PROVE  PlaceInv'
  BY <1>0, <1>5, DestroyKeepsPlaces
<1>6. ASSUME \/ IgnoreMessage \/ NoneToJoin \/ RefuseOptions \/ JoinThreads \/ LockToInsert
             \/ \E p \in PlayerId : \/ \E want \in Wants : ReceiveMessage(p, want)
                                    \/ HandlerThrows(p)
             \/ \E m \in MatchId : \/ FindMatch(m) \/ GameOver(m) \/ MatchFinished(m)
                                   \/ Unlink(m) \/ ThreadEnds(m)
                                   \/ RacyLookup(m) \/ BroadcastThrows(m)
             \/ UNCHANGED vars
      PROVE  UNCHANGED <<player_id_counter, waiting_players, seats, link>>
  BY <1>6 DEF IgnoreMessage, NoneToJoin, RefuseOptions, JoinThreads, LockToInsert,
              ReceiveMessage, HandlerThrows, FindMatch, GameOver, MatchFinished, Unlink,
              ThreadEnds, RacyLookup, BroadcastThrows, vars, lobbyVars, matchVars
<1>7. ASSUME \/ \E p \in PlayerId : PeerLeaves(p) \/ PeerEndsLine(p) \/ HandleReadError(p)
             \/ \E m \in MatchId : CancelRead(m)
      PROVE  PlaceInv'
  <2>1. UNCHANGED <<player_id_counter, waiting_players, seats>>
    BY <1>7 DEF PeerLeaves, PeerEndsLine, HandleReadError, CancelRead, lobbyVars, matchVars
  <2>2. \A p \in PlayerId : link[p] = "gone" => link'[p] = "gone"
    BY <1>0, <1>7 DEF PeerLeaves, PeerEndsLine, HandleReadError, CancelRead, TypeOK
  <2> QED
    BY <1>1, <2>1, <2>2
<1> QED
  BY <1>1, <1>2, <1>3, <1>4, <1>5, <1>6, <1>7 DEF Next, IoStep, ThreadStep

-----------------------------------------------------------------------------
(* Connections of matches that are not being destroyed.                    *)

LEMMA LinkStep == LobbyInv /\ [Next]_vars => LinkInv'
<1> SUFFICES ASSUME LobbyInv, [Next]_vars PROVE LinkInv'
  OBVIOUS
<1>0. TypeOK /\ LinkInv /\ PlaceInv /\ HandlerInv
  BY DEF LobbyInv
<1>p. ASSUME NEW m \in MatchId, NEW i \in 1..Len(seats[m])
      PROVE  seats[m][i] \in PlayerId
  <2>1. seats[m] \in Seq(PlayerId)
    BY <1>0 DEF TypeOK
  <2> QED
    BY <2>1, ElementOfSeq
<1>1. ASSUME waiting_players' \subseteq waiting_players,
             UNCHANGED seats,
             \A m \in MatchId : match_threads[m] \in {"destroying", "exited"}
                                  => match_threads'[m] \in {"destroying", "exited"},
             \A p \in PlayerId : link'[p] \in {"cancelled", "missed", "gone"}
                                   => link[p] \in {"cancelled", "missed", "gone"}
      PROVE  LinkInv'
  <2>1. \A p \in waiting_players' : p \in PlayerId /\ p \in waiting_players
    BY <1>0, <1>1 DEF TypeOK
  <2> QED
    BY <1>0, <1>p, <1>1, <2>1 DEF LinkInv
<1>2. CASE AddPlayer
  <2> DEFINE p == player_id_counter + 1
  <2>1. /\ waiting_players' = waiting_players \cup {p}
        /\ UNCHANGED <<seats, match_threads>>
        /\ p \in PlayerId
        /\ \A q \in PlayerId : link'[q] = IF q = p THEN "open" ELSE link[q]
    BY <1>0, <1>2, LobbyAssumption DEF AddPlayer, TypeOK, matchVars, PlayerId
  <2> HIDE DEF p
  <2>2. \A q \in PlayerId : link'[q] \in {"cancelled", "missed", "gone"}
                              => link[q] \in {"cancelled", "missed", "gone"}
    BY <2>1
  <2>3. \A q \in waiting_players' : link'[q] \notin {"cancelled", "missed", "gone"}
    BY <1>0, <2>1 DEF LinkInv, TypeOK
  <2> QED
    BY <1>0, <1>p, <2>1, <2>2, <2>3 DEF LinkInv
<1>3. CASE JoinExisting \/ InsertMatch
  <2>1. \E m \in MatchId : \E n : /\ AssignPlayerToMatch(io.player, m, n)
                                  /\ match_threads[m] = "none"
                                  /\ io.player \in PlayerId
                                  /\ io.player \in waiting_players
    BY <1>3, JoinEffect, InsertEffect
  <2>2. PICK m \in MatchId : \E n : /\ AssignPlayerToMatch(io.player, m, n)
                                    /\ match_threads[m] = "none"
                                    /\ io.player \in PlayerId
                                    /\ io.player \in waiting_players
    BY <2>1
  <2>3. UNCHANGED link
    BY <1>3 DEF JoinExisting, InsertMatch
  <2>4. /\ seats'[m] = Append(seats[m], io.player)
        /\ \A k \in MatchId : k # m => UNCHANGED <<seats[k], match_threads[k]>>
        /\ waiting_players' = waiting_players \ {io.player}
    BY <1>0, <2>2 DEF AssignPlayerToMatch, TypeOK
  <2>5. /\ Len(seats[m]) \in Nat
        /\ Len(seats'[m]) = Len(seats[m]) + 1
        /\ \A i \in 1..Len(seats[m]) : seats'[m][i] = seats[m][i]
        /\ seats'[m][Len(seats[m]) + 1] = io.player
    BY <1>0, <2>2, <2>4, AppendSeat DEF TypeOK
  <2>6. ASSUME NEW i \in 1..Len(seats'[m])
        PROVE  link'[seats'[m][i]] \notin {"cancelled", "missed", "gone"}
    <3>1. CASE i = Len(seats[m]) + 1
      BY <1>0, <3>1, <2>2, <2>3, <2>5 DEF LinkInv
    <3>2. CASE i # Len(seats[m]) + 1
      <4>1. i \in 1..Len(seats[m])
        BY <3>2, <2>5
      <4> QED
        BY <1>0, <4>1, <2>2, <2>3, <2>5 DEF LinkInv
    <3> QED
      BY <3>1, <3>2
  <2> QED
    BY <1>0, <2>3, <2>4, <2>6 DEF LinkInv
<1>4. ASSUME NEW m \in MatchId, CancelRead(m) \/ DestroyConnection(m)
      PROVE  LinkInv'
  <2> DEFINE p == Head(seats[m])
  <2>1. /\ match_threads[m] = "destroying" /\ seats[m] # <<>>
        /\ UNCHANGED <<waiting_players, match_threads>>
        /\ \A k \in MatchId : k # m => seats'[k] = seats[k]
        /\ \A q \in PlayerId : q # p => link'[q] = link[q]
    BY <1>0, <1>4 DEF CancelRead, DestroyConnection, ThreadAt, TypeOK, lobbyVars, matchVars
  <2>2. 1 \in 1..Len(seats[m]) /\ p = seats[m][1]
    BY <1>0, <2>1, TailSeat DEF TypeOK
  <2> HIDE DEF p
  <2>3. /\ p \notin waiting_players
        /\ \A k \in MatchId : k # m => \A i \in 1..Len(seats[k]) : seats[k][i] # p
    BY <1>0, <2>2 DEF PlaceInv, EveryPlayerHasOnePlace
  <2>4. \A q \in waiting_players : q \in PlayerId
    BY <1>0 DEF TypeOK
  <2> QED
    BY <1>0, <1>p, <2>1, <2>3, <2>4 DEF LinkInv
<1>5. ASSUME NEW p \in PlayerId, PeerLeaves(p) \/ PeerEndsLine(p) \/ HandleReadError(p)
      PROVE  LinkInv'
  <2>1. UNCHANGED <<waiting_players, seats, match_threads>>
    BY <1>5 DEF PeerLeaves, PeerEndsLine, HandleReadError, lobbyVars, matchVars
  <2>2. \A q \in PlayerId : link'[q] \in {"cancelled", "missed", "gone"}
                              => link[q] \in {"cancelled", "missed", "gone"}
    BY <1>0, <1>5 DEF PeerLeaves, PeerEndsLine, HandleReadError, TypeOK
  <2> QED
    BY <1>1, <2>1, <2>2
<1>6. ASSUME NEW m \in MatchId, FindMatch(m) \/ GameOver(m) \/ MatchFinished(m)
                                  \/ Unlink(m) \/ ThreadEnds(m)
      PROVE  LinkInv'
  <2>1. UNCHANGED <<waiting_players, seats, link>>
    BY <1>6 DEF FindMatch, GameOver, MatchFinished, Unlink, ThreadEnds, lobbyVars
  <2>2. \A k \in MatchId : match_threads[k] \in {"destroying", "exited"}
                             => match_threads'[k] \in {"destroying", "exited"}
    BY <1>0, <1>6 DEF FindMatch, GameOver, MatchFinished, Unlink, ThreadEnds, Step,
                      ThreadAt, TypeOK
  <2> QED
    BY <1>1, <2>1, <2>2
<1>7. ASSUME \/ IgnoreMessage \/ NoneToJoin \/ RefuseOptions \/ JoinThreads \/ LockToInsert
             \/ \E p \in PlayerId : \/ \E want \in Wants : ReceiveMessage(p, want)
                                    \/ HandlerThrows(p)
             \/ \E m \in MatchId : RacyLookup(m) \/ BroadcastThrows(m)
             \/ UNCHANGED vars
      PROVE  UNCHANGED <<waiting_players, seats, match_threads, link>>
  BY <1>7 DEF IgnoreMessage, NoneToJoin, RefuseOptions, JoinThreads, LockToInsert,
              ReceiveMessage, HandlerThrows, RacyLookup, BroadcastThrows, vars,
              lobbyVars, matchVars
<1> QED
  BY <1>1, <1>2, <1>3, <1>4, <1>5, <1>6, <1>7 DEF Next, IoStep, ThreadStep

-----------------------------------------------------------------------------
(* Awaiting matches.                                                       *)

LEMMA QueueStep == LobbyInv /\ [Next]_vars => QueueInv'
<1> SUFFICES ASSUME LobbyInv, [Next]_vars PROVE QueueInv'
  OBVIOUS
<1>0. TypeOK /\ QueueInv /\ ThreadInv
  BY DEF LobbyInv
<1> USE DEF QueueInv, OneQueuedMatchPerSize, Candidates, is_full
<1>1. ASSUME matches' \subseteq matches, UNCHANGED size,
             \A m \in matches' : seats'[m] = seats[m],
             io'.pc \in {"create", "insert"} =>
               io.pc \in {"create", "insert"} /\ io'.want = io.want
      PROVE  QueueInv'
  BY <1>0, <1>1
<1>2. CASE JoinExisting
  <2>1. PICK m \in MatchId : /\ m \in matches /\ ~is_full(m)
                             /\ AssignPlayerToMatch(io.player, m, size[m])
    BY <1>2, JoinEffect
  <2>2. UNCHANGED <<matches, size>> /\ io'.pc = "idle"
    BY <1>2 DEF JoinExisting, Idle
  <2>3. \A k \in matches : k # m => seats'[k] = seats[k]
    BY <1>0, <2>1 DEF AssignPlayerToMatch, TypeOK
  <2> QED
    BY <1>0, <2>1, <2>2, <2>3
<1>3. CASE NoneToJoin
  <2>1. UNCHANGED matchVars /\ io'.want = io.want
    BY <1>0, <1>3 DEF NoneToJoin, TypeOK
  <2>2. Candidates(io.want) = {}
    BY <1>3 DEF NoneToJoin
  <2> QED
    BY <1>0, <2>1, <2>2 DEF matchVars
<1>4. CASE LockToInsert
  <2>1. UNCHANGED <<matches, size, seats>> /\ io'.want = io.want /\ io.pc = "create"
    BY <1>0, <1>4 DEF LockToInsert, IoAt, TypeOK
  <2> QED
    BY <1>1, <2>1
<1>5. CASE InsertMatch
  <2>1. PICK m \in MatchId : /\ m \notin matches
                             /\ matches' = matches \cup {m}
                             /\ size' = [size EXCEPT ![m] = io.want]
                             /\ AssignPlayerToMatch(io.player, m, io.want)
    BY <1>5, InsertEffect
  <2>2. io'.pc = "idle" /\ io.pc = "insert"
    BY <1>5 DEF InsertMatch, Idle, IoAt
  <2>3. \A k \in matches : k # m /\ seats'[k] = seats[k] /\ size'[k] = size[k]
    BY <1>0, <2>1 DEF AssignPlayerToMatch, TypeOK
  <2>4. size'[m] = io.want
    BY <1>0, <2>1 DEF TypeOK
  <2>5. \A k \in matches : size[k] = io.want => is_full(k)
    BY <1>0, <2>2
  <2> QED
    BY <1>0, <2>1, <2>2, <2>3, <2>4, <2>5
<1>6. ASSUME NEW m \in MatchId, DestroyConnection(m)
      PROVE  QueueInv'
  <2>1. UNCHANGED <<matches, size, io>> /\ m \notin matches
    BY <1>0, <1>6 DEF DestroyConnection, ThreadAt, ThreadInv
  <2>2. \A k \in matches : seats'[k] = seats[k]
    BY <1>0, <1>6, <2>1 DEF DestroyConnection, TypeOK
  <2> QED
    BY <1>1, <2>1, <2>2
<1>7. ASSUME \/ AddPlayer \/ IgnoreMessage \/ RefuseOptions \/ JoinThreads
             \/ \E p \in PlayerId : \/ \E want \in Wants : ReceiveMessage(p, want)
                                    \/ PeerLeaves(p) \/ PeerEndsLine(p) \/ HandleReadError(p)
                                    \/ HandlerThrows(p)
             \/ \E m \in MatchId : \/ FindMatch(m) \/ GameOver(m) \/ MatchFinished(m)
                                   \/ Unlink(m) \/ CancelRead(m) \/ ThreadEnds(m)
                                   \/ RacyLookup(m) \/ BroadcastThrows(m)
             \/ UNCHANGED vars
      PROVE  QueueInv'
  <2>1. /\ matches' \subseteq matches /\ UNCHANGED <<size, seats>>
        /\ io' = io \/ io'.pc \notin {"create", "insert"}
    BY <1>0, <1>7 DEF AddPlayer, IgnoreMessage, RefuseOptions, JoinThreads, ReceiveMessage,
          PeerLeaves, PeerEndsLine, HandleReadError, HandlerThrows, FindMatch, GameOver, MatchFinished,
          Unlink, CancelRead, ThreadEnds, RacyLookup, BroadcastThrows, vars, lobbyVars,
          matchVars, Idle, TypeOK
  <2> QED
    BY <1>1, <2>1
<1> QED
  BY <1>2, <1>3, <1>4, <1>5, <1>6, <1>7 DEF Next, IoStep, ThreadStep

-----------------------------------------------------------------------------
(* The theorems.                                                           *)

\* LobbyInv holds in every state the server reaches.
THEOREM LobbyInvariant == Spec => []LobbyInv
<1>1. LobbyInv /\ [Next]_vars => LobbyInv'
  BY TypeStep, HandlerStep, IdStep, ThreadInvStep, PlaceStep, LinkStep, MutexStep,
     QueueStep DEF LobbyInv
<1> QED
  BY InitLobby, <1>1, PTL DEF Spec

\* Every variable of the lobby keeps its type; in particular the player and the
\* options that JoinRequest carries from one critical section to the next are
\* there when it uses them.
THEOREM TypeCorrect == Spec => []TypeOK
<1>1. LobbyInv => TypeOK
  BY DEF LobbyInv
<1> QED
  BY LobbyInvariant, <1>1, PTL

\* However many matches finish and requests arrive at the same time, only one
\* thread restructures matches_ (JoinRequest and MatchFinished).
THEOREM MapHasOneWriter == Spec => []OneMapWriter
<1>1. LobbyInv => OneMapWriter
  BY DEF LobbyInv
<1> QED
  BY LobbyInvariant, <1>1, PTL

\* No size ever has two matches that wait for players, although the search and
\* the insertion of JoinRequest are separate critical sections.
THEOREM OneMatchAwaits == Spec => []OneQueuedMatchPerSize
<1>1. LobbyInv => OneQueuedMatchPerSize
  BY DEF LobbyInv, QueueInv
<1> QED
  BY LobbyInvariant, <1>1, PTL

\* A connection is never dropped and never owned twice on its way from
\* waiting_players_ into a match and out of it.
THEOREM OnePlacePerPlayer == Spec => []EveryPlayerHasOnePlace
<1>1. LobbyInv => EveryPlayerHasOnePlace
  BY DEF LobbyInv, PlaceInv
<1> QED
  BY LobbyInvariant, <1>1, PTL

\* AssignPlayerToMatch starts a match when it is full, never before and never
\* later, and no match gets more players than it is for.
THEOREM MatchesStartFull == Spec => []StartedIffFull
<1>1. LobbyInv => StartedIffFull
  BY DEF LobbyInv, ThreadInv
<1> QED
  BY LobbyInvariant, <1>1, PTL

\* The match a thread runs stays in matches_, and no connection of its players
\* is being destroyed, until that thread itself has come to MatchFinished.
THEOREM RunningMatchIsThere == Spec => []PlayedMatchIsAlive
<1>1. LobbyInv => PlayedMatchIsAlive
  BY DEF LobbyInv, ThreadInv, LinkInv, PlayedMatchIsAlive
<1> QED
  BY LobbyInvariant, <1>1, PTL

\* Whichever way JoinRequest returns, the players that still wait are observed.
THEOREM EveryWaitingPlayerIsHeard == Spec => []NoDeafPlayer
<1>1. LobbyInv => NoDeafPlayer
  BY DEF LobbyInv, HandlerInv, Handling, NoDeafPlayer
<1> QED
  BY LobbyInvariant, <1>1, PTL

\* A match that has its thread keeps its size and its roster: players leave it
\* from the front, when they are destroyed, and none is added; its thread is not
\* started a second time.
THEOREM RosterIsFrozen == Spec => RosterFrozen
<1> DEFINE A == \A m \in MatchId : match_threads[m] # "none" =>
                  /\ match_threads'[m] \notin {"none", "starting"} \ {match_threads[m]}
                  /\ size'[m] = size[m]
                  /\ \/ seats'[m] = seats[m]
                     \/ seats[m] # <<>> /\ seats'[m] = Tail(seats[m])
<1>1. ASSUME LobbyInv, [Next]_vars PROVE [A]_vars
  <2>0. TypeOK
    BY <1>1 DEF LobbyInv
  <2>1. ASSUME UNCHANGED <<size, seats, match_threads>>
        PROVE  A
    BY <2>0, <2>1 DEF TypeOK
  <2>2. CASE JoinExisting
    <3>1. PICK m \in MatchId : /\ match_threads[m] = "none"
                               /\ AssignPlayerToMatch(io.player, m, size[m])
      BY <1>1, <2>2, JoinEffect
    <3>2. size' = size
      BY <2>2 DEF JoinExisting
    <3> QED
      BY <2>0, <3>1, <3>2 DEF AssignPlayerToMatch, TypeOK
  <2>3. CASE InsertMatch
    <3>1. PICK m \in MatchId : /\ match_threads[m] = "none"
                               /\ size' = [size EXCEPT ![m] = io.want]
                               /\ AssignPlayerToMatch(io.player, m, io.want)
      BY <1>1, <2>3, InsertEffect
    <3> QED
      BY <2>0, <3>1 DEF AssignPlayerToMatch, TypeOK
  <2>4. ASSUME NEW m \in MatchId, FindMatch(m) \/ GameOver(m) \/ MatchFinished(m)
                                    \/ Unlink(m) \/ ThreadEnds(m)
        PROVE  A
    BY <2>0, <2>4 DEF FindMatch, GameOver, MatchFinished, Unlink, ThreadEnds, Step,
                      ThreadAt, TypeOK
  <2>5. ASSUME NEW m \in MatchId, DestroyConnection(m)
        PROVE  A
    BY <2>0, <2>5 DEF DestroyConnection, TypeOK
  <2>6. ASSUME \/ AddPlayer \/ IgnoreMessage \/ NoneToJoin \/ RefuseOptions
               \/ JoinThreads \/ LockToInsert
               \/ \E p \in PlayerId : \/ \E want \in Wants : ReceiveMessage(p, want)
                                      \/ PeerLeaves(p) \/ PeerEndsLine(p) \/ HandleReadError(p)
                                      \/ HandlerThrows(p)
               \/ \E m \in MatchId : CancelRead(m) \/ RacyLookup(m) \/ BroadcastThrows(m)
               \/ UNCHANGED vars
        PROVE  UNCHANGED <<size, seats, match_threads>>
    BY <2>6 DEF AddPlayer, IgnoreMessage, NoneToJoin, RefuseOptions, JoinThreads,
          LockToInsert, ReceiveMessage, PeerLeaves, PeerEndsLine, HandleReadError, HandlerThrows,
          CancelRead, RacyLookup, BroadcastThrows, vars, matchVars
  <2> HIDE DEF A
  <2> QED
    BY <1>1, <2>1, <2>2, <2>3, <2>4, <2>5, <2>6 DEF Next, IoStep, ThreadStep
<1>2. Spec => [][A]_vars
  <2> HIDE DEF A
  <2> QED
    BY LobbyInvariant, <1>1, PTL DEF Spec
<1> QED
  BY <1>2 DEF RosterFrozen
=============================================================================
