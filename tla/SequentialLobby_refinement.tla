--------------------- MODULE SequentialLobby_refinement ---------------------
(***************************************************************************)
(* The lobby implements Matchmaking: a request that seats a player is the  *)
(* abstract step that seats it, an Unlink is the end of the match, and     *)
(* everything else, the locking and the destruction of connections first   *)
(* of all, is invisible.                                                   *)
(***************************************************************************)
EXTENDS SequentialLobby_proofs, FiniteSetTheorems

Roster(m) == {seats[m][i] : i \in 1..Len(seats[m])}

\* Nobody sits twice in a match, so its members are as many as its seats.
LEMMA RosterCardinality ==
  ASSUME LobbyInv, NEW m \in MatchId
  PROVE  Cardinality(Roster(m)) = Len(seats[m])
<1>1. seats[m] \in Seq(PlayerId) /\ Len(seats[m]) \in Nat
  BY LenProperties DEF LobbyInv, TypeOK
<1>2. seats[m] \in [1..Len(seats[m]) -> Roster(m)]
  BY <1>1, LenProperties DEF Roster
<1>3. \A i, j \in 1..Len(seats[m]) : seats[m][i] = seats[m][j] => i = j
  BY DEF LobbyInv, PlaceInv, EveryPlayerHasOnePlace
<1>4. \A p \in Roster(m) : \E i \in 1..Len(seats[m]) : seats[m][i] = p
  BY DEF Roster
<1>5. seats[m] \in Bijection(1..Len(seats[m]), Roster(m))
  BY <1>2, <1>3, <1>4 DEF Bijection, Injection, IsInjective, Surjection
<1>6. ExistsBijection(1..Len(seats[m]), Roster(m))
  BY <1>5 DEF ExistsBijection
<1> QED
  BY <1>1, <1>6, FS_CountingElements

\* Taking a seat, in terms of the abstract state.
LEMMA SeatIsSeat ==
  ASSUME LobbyInv, NEW m \in MatchId, NEW n \in Nat, NEW p \in PlayerId,
         p \in waiting_players, match_threads[m] = "none",
         m \in matches \/ seats[m] = <<>>,
         AssignPlayerToMatch(p, m, n),
         matches' = matches \cup {m}, size' = [size EXCEPT ![m] = n],
         player_id_counter' = player_id_counter,
         n \in Sizes, p = io.player, n = io.want,
         io.pc \in {"request", "insert"}, io' = Idle
  PROVE  MM!Seat(p, m, n)
<1>0. TypeOK
  BY DEF LobbyInv
<1>1. /\ seats'[m] = Append(seats[m], p)
      /\ match_threads'[m] = IF Len(seats[m]) + 1 = n THEN "starting" ELSE "none"
      /\ \A k \in MatchId : k # m => UNCHANGED <<seats[k], match_threads[k]>>
      /\ waiting_players' = waiting_players \ {p}
  BY <1>0 DEF AssignPlayerToMatch, TypeOK
<1>2. Roster(m)' = Roster(m) \cup {p}
  <2>1. /\ Len(seats[m]) \in Nat
        /\ Len(seats'[m]) = Len(seats[m]) + 1
        /\ \A i \in 1..Len(seats[m]) : seats'[m][i] = seats[m][i]
        /\ seats'[m][Len(seats[m]) + 1] = p
    BY <1>0, <1>1, AppendSeat DEF TypeOK
  <2> DEFINE l == Len(seats[m])
             e == l + 1
             old == seats[m]
             new == seats'[m]
  <2>2. \A i \in 1..e : i \in 1..l \/ i = e
    BY <2>1
  <2>3. e \in 1..e /\ \A i \in 1..l : i \in 1..e
    BY <2>1
  <2>4. Len(old) = l /\ Len(new) = e /\ new[e] = p /\ \A i \in 1..l : new[i] = old[i]
    BY <2>1
  <2> HIDE DEF l, e, old, new
  <2>5. {new[i] : i \in 1..Len(new)} = {old[i] : i \in 1..Len(old)} \cup {p}
    BY <2>2, <2>3, <2>4
  <2> QED
    BY <2>5 DEF Roster, old, new
<1>3. /\ Members[m] = Roster(m)
      /\ Cardinality(Members[m]) = Len(seats[m])
  BY RosterCardinality DEF Members, Alive, Roster
<1>4. Members' = [Members EXCEPT ![m] = @ \cup {p}]
  <2>1. Members'[m] = Members[m] \cup {p}
    BY <1>1, <1>2, <1>3 DEF Members, Alive, Roster
  <2>2. ASSUME NEW k \in MatchId, k # m
        PROVE  Members'[k] = Members[k]
    <3>1. UNCHANGED <<seats[k], match_threads[k]>>
      BY <1>1, <2>2
    <3>2. UNCHANGED <<Alive(k), Roster(k)>>
      BY <3>1 DEF Alive, Roster
    <3> QED
      BY <3>2 DEF Members, Roster
  <2> QED
    BY <2>1, <2>2 DEF Members
<1>5. Phase' = [Phase EXCEPT ![m] = IF Cardinality(Members[m]) + 1 = n
                                    THEN "running" ELSE "queued"]
  <2>1. Phase'[m] = IF Len(seats[m]) + 1 = n THEN "running" ELSE "queued"
    BY <1>1 DEF Phase, Alive
  <2>2. \A k \in MatchId : k # m => Phase'[k] = Phase[k]
    BY <1>1 DEF Phase, Alive
  <2> QED
    BY <1>3, <2>1, <2>2 DEF Phase
<1>6. MM!Cardinality(Members[m]) = Cardinality(Members[m])
  BY DEF Cardinality, MM!Cardinality
<1>7. Asked[p] = n /\ Asked' = [Asked EXCEPT ![p] = 0]
  BY DEF Asked, Idle
<1> QED
  BY <1>1, <1>4, <1>5, <1>6, <1>7 DEF MM!Seat

LEMMA InitRefines == Init => MM!MMInit
  BY LobbyAssumption DEF Init, MM!MMInit, Asked, Idle, Phase, Members, Alive

\* Every step is an abstract step or changes nothing that Matchmaking sees.
LEMMA StepRefines ==
  ASSUME LobbyInv, LobbyInv', [Next]_vars
  PROVE  [MM!MMNext]_(MM!mmVars)
<1>0. TypeOK /\ IdInv /\ ThreadInv /\ QueueInv /\ PlaceInv
  BY DEF LobbyInv
<1>n. Sizes \subseteq Nat
  BY LobbyAssumption
<1>1. CASE AddPlayer
  <2> DEFINE p == player_id_counter + 1
  <2>1. /\ player_id_counter' = p /\ p \in PlayerId
        /\ waiting_players' = waiting_players \cup {p}
        /\ UNCHANGED <<size, seats, match_threads, matches>>
    BY <1>0, <1>1, LobbyAssumption DEF AddPlayer, matchVars, TypeOK, PlayerId
  <2>2. p \notin 1..player_id_counter /\ 1..p = 1..player_id_counter \cup {p}
    BY <1>0, LobbyAssumption DEF TypeOK
  <2>3. UNCHANGED <<Asked, Phase, Members>>
    BY <1>1, <2>1 DEF AddPlayer, Asked, Phase, Members, Alive
  <2>4. MM!Arrive(p)
    BY <2>1, <2>2, <2>3 DEF MM!Arrive
  <2> QED
    BY <2>1, <2>4 DEF MM!MMNext
<1>2. CASE JoinExisting
  <2>1. PICK m \in MatchId :
          /\ m \in matches /\ ~is_full(m) /\ size[m] = io.want
          /\ match_threads[m] = "none"
          /\ io.player \in PlayerId /\ io.player \in waiting_players
          /\ AssignPlayerToMatch(io.player, m, size[m])
    BY <1>2, JoinEffect
  <2>2. size[m] \in Sizes /\ size' = [size EXCEPT ![m] = size[m]]
    BY <1>0, <1>2, <2>1 DEF JoinExisting, IdInv, TypeOK
  <2>3. matches' = matches \cup {m} /\ player_id_counter' = player_id_counter
    BY <1>2, <2>1 DEF JoinExisting
  <2>4. Phase[m] = "queued"
    BY <2>1 DEF Phase, Alive
  <2>5. MM!Seat(io.player, m, size[m])
    <3>1. io.pc = "request" /\ io' = Idle
      BY <1>2 DEF JoinExisting, IoAt
    <3> QED
      BY <1>n, <2>1, <2>2, <2>3, <3>1, SeatIsSeat
  <2>6. MM!JoinQueued(io.player, m, size[m])
    BY <2>4, <2>5 DEF MM!JoinQueued
  <2> QED
    BY <2>1, <2>2, <2>6 DEF MM!MMNext
<1>3. CASE InsertMatch
  <2>1. PICK m \in MatchId :
          /\ m \notin matches /\ match_threads[m] = "none" /\ seats[m] = <<>>
          /\ io.want \in Sizes
          /\ io.player \in PlayerId /\ io.player \in waiting_players
          /\ matches' = matches \cup {m}
          /\ size' = [size EXCEPT ![m] = io.want]
          /\ AssignPlayerToMatch(io.player, m, io.want)
    BY <1>3, InsertEffect
  <2>2. player_id_counter' = player_id_counter /\ io.pc = "insert" /\ io' = Idle
    BY <1>3 DEF InsertMatch, IoAt
  <2>3. Phase[m] = "unused"
    BY <2>1 DEF Phase, Alive
  <2>4. ASSUME NEW h \in MatchId, Phase[h] = "queued", size[h] = io.want
        PROVE  FALSE
    <3>1. h \in matches /\ match_threads[h] = "none"
      BY <2>4 DEF Phase, Alive
    <3>2. ~is_full(h)
      BY <1>0, <3>1 DEF ThreadInv, StartedIffFull
    <3> QED
      BY <1>0, <2>2, <2>4, <3>1, <3>2 DEF QueueInv, Candidates
  <2>5. MM!Seat(io.player, m, io.want)
    BY <1>n, <2>1, <2>2, SeatIsSeat
  <2>6. MM!QueueNew(io.player, m, io.want)
    BY <2>3, <2>4, <2>5 DEF MM!QueueNew
  <2> QED
    BY <2>1, <2>6 DEF MM!MMNext
<1>4. ASSUME NEW m \in MatchId, Unlink(m)
      PROVE  MM!MMNext
  <2>1. /\ match_threads[m] = "erasing"
        /\ match_threads' = [match_threads EXCEPT ![m] = "destroying"]
        /\ matches' = matches \ {m}
        /\ UNCHANGED <<player_id_counter, waiting_players, size, seats, io>>
    BY <1>4 DEF Unlink, Step, ThreadAt, lobbyVars
  <2>2. Phase[m] = "running"
    BY <2>1 DEF Phase, Alive
  <2>3. Phase' = [Phase EXCEPT ![m] = "over"]
    BY <1>0, <2>1 DEF Phase, Alive, TypeOK
  <2>4. Members' = [Members EXCEPT ![m] = {}]
    BY <1>0, <2>1 DEF Members, Alive, TypeOK
  <2>5. MM!Finish(m)
    BY <2>1, <2>2, <2>3, <2>4 DEF MM!Finish, Asked
  <2> QED
    BY <2>5 DEF MM!MMNext
<1>5. ASSUME NEW m \in MatchId, FindMatch(m) \/ GameOver(m) \/ MatchFinished(m)
                                  \/ ThreadEnds(m)
      PROVE  UNCHANGED MM!mmVars
  <2>1. /\ UNCHANGED <<player_id_counter, waiting_players, matches, size, seats, io>>
        /\ \A k \in MatchId :
             /\ match_threads'[k] = "none" <=> match_threads[k] = "none"
             /\ match_threads'[k] \in {"destroying", "exited"}
                  <=> match_threads[k] \in {"destroying", "exited"}
    BY <1>0, <1>5 DEF FindMatch, GameOver, MatchFinished, ThreadEnds, Step, ThreadAt,
                      TypeOK, lobbyVars
  <2>2. UNCHANGED <<Asked, Phase, Members>>
    BY <2>1 DEF Asked, Phase, Members, Alive
  <2> QED
    BY <2>1, <2>2 DEF MM!mmVars
<1>6. ASSUME NEW m \in MatchId, DestroyConnection(m)
      PROVE  UNCHANGED MM!mmVars
  <2>1. /\ UNCHANGED <<player_id_counter, waiting_players, matches, size, match_threads, io>>
        /\ match_threads[m] = "destroying"
        /\ \A k \in MatchId : k # m => seats'[k] = seats[k]
    BY <1>0, <1>6 DEF DestroyConnection, ThreadAt, TypeOK, lobbyVars
  <2>2. UNCHANGED <<Asked, Phase, Members>>
    BY <2>1 DEF Asked, Phase, Members, Alive
  <2> QED
    BY <2>1, <2>2 DEF MM!mmVars
<1>7. ASSUME NEW p \in PlayerId, NEW want \in Wants, ReceiveMessage(p, want)
      PROVE  [MM!MMNext]_(MM!mmVars)
  <2>1. /\ UNCHANGED <<player_id_counter, waiting_players, matches, size, seats, match_threads>>
        /\ io.pc = "idle"
        /\ io' = [pc |-> "request", player |-> p, want |-> want]
        /\ p \in waiting_players
    BY <1>0, <1>7 DEF ReceiveMessage, IoAt, matchVars, LobbyInv, HandlerInv, Handling
  <2>2. UNCHANGED <<Phase, Members>>
    BY <2>1 DEF Phase, Members, Alive
  <2>3. CASE want \in Sizes
    <3>1. Asked[p] = 0 /\ Asked' = [Asked EXCEPT ![p] = want]
      BY <2>1, <2>3 DEF Asked
    <3>2. MM!Ask(p, want)
      BY <2>1, <2>2, <3>1 DEF MM!Ask
    <3> QED
      BY <2>3, <3>2 DEF MM!MMNext
  <2>4. CASE want \notin Sizes
    <3>1. UNCHANGED Asked
      BY <2>1, <2>4 DEF Asked
    <3> QED
      BY <2>1, <2>2, <3>1 DEF MM!mmVars
  <2> QED
    BY <2>3, <2>4
<1>8. ASSUME \/ IgnoreMessage \/ NoneToJoin \/ RefuseOptions \/ JoinThreads \/ LockToInsert
             \/ \E p \in PlayerId : \/ PeerLeaves(p) \/ PeerEndsLine(p) \/ HandleReadError(p)
                                    \/ HandlerThrows(p)
             \/ \E m \in MatchId : CancelRead(m) \/ RacyLookup(m) \/ BroadcastThrows(m)
             \/ UNCHANGED vars
      PROVE  UNCHANGED MM!mmVars
  <2>1. UNCHANGED <<player_id_counter, waiting_players, matches, size, seats, match_threads>>
    BY <1>8 DEF IgnoreMessage, NoneToJoin, RefuseOptions, JoinThreads, LockToInsert,
          PeerLeaves, PeerEndsLine, HandleReadError, HandlerThrows, CancelRead, RacyLookup,
          BroadcastThrows, vars, lobbyVars, matchVars
  <2>2. UNCHANGED <<Phase, Members>>
    BY <2>1 DEF Phase, Members, Alive
  <2>3. UNCHANGED Asked
    <3>1. CASE IgnoreMessage \/ RefuseOptions
      <4>1. io.want \notin Sizes /\ io'.pc = "idle"
        BY <3>1, LobbyAssumption DEF IgnoreMessage, RefuseOptions, Idle, NotJoin, Invalid
      <4> QED
        BY <4>1 DEF Asked
    <3>2. CASE NoneToJoin \/ LockToInsert
      <4>1. /\ io'.pc \in {"create", "insert"} /\ io.pc \in {"request", "create"}
            /\ io'.player = io.player /\ io'.want = io.want
        BY <1>0, <3>2 DEF NoneToJoin, LockToInsert, IoAt, TypeOK
      <4> QED
        BY <4>1 DEF Asked
    <3>3. CASE JoinThreads \/ \E p \in PlayerId : HandlerThrows(p)
      <4>1. io'.pc \in {"joining", "joined"} /\ io.pc \in {"idle", "joining"}
        BY <1>0, <3>3 DEF JoinThreads, HandlerThrows, IoAt, Idle, TypeOK
      <4> QED
        BY <4>1 DEF Asked
    <3>4. CASE \/ \E p \in PlayerId : PeerLeaves(p) \/ PeerEndsLine(p) \/ HandleReadError(p)
               \/ \E m \in MatchId : CancelRead(m) \/ RacyLookup(m) \/ BroadcastThrows(m)
               \/ UNCHANGED vars
      <4>1. UNCHANGED io
        BY <3>4 DEF PeerLeaves, PeerEndsLine, HandleReadError, CancelRead, RacyLookup, BroadcastThrows, vars
      <4> QED
        BY <4>1 DEF Asked
    <3> QED
      BY <1>8, <3>1, <3>2, <3>3, <3>4
  <2> QED
    BY <2>1, <2>2, <2>3 DEF MM!mmVars
<1> QED
  BY <1>1, <1>2, <1>3, <1>4, <1>5, <1>6, <1>7, <1>8 DEF Next, IoStep, ThreadStep

\* SequentialLobby, with its two critical sections per request and its unlocked
\* destructors, is the matchmaking that lobby.h:18-19 describes.
THEOREM LobbyImplementsMatchmaking == Spec => ImplementsMatchmaking
<1>1. LobbyInv /\ LobbyInv' /\ [Next]_vars => [MM!MMNext]_(MM!mmVars)
  BY StepRefines
<1> QED
  BY InitRefines, LobbyInvariant, <1>1, PTL DEF Spec, ImplementsMatchmaking, MM!MMSpec
=============================================================================
