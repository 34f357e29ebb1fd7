--------------------------- MODULE SequentialLobby ---------------------------
(***************************************************************************)
(* games/lobby.{h,cpp} with the two kinds of thread that run it: the io    *)
(* thread, which executes one read or accept handler at a time (main.cpp,  *)
(* communication/server.cpp), and one thread per started match.  The two   *)
(* meet at matches_mutex_, at the unlocked lookup of a starting match, and *)
(* at the connections a finished match destroys: ~TcpConnection returns    *)
(* only after the io thread has run the aborted read handler.              *)
(***************************************************************************)
EXTENDS Integers, Sequences, FiniteSets

CONSTANTS
  MaxPlayers,   \* bound: connections accepted
  MaxMatches,   \* bound: matches created
  Sizes         \* values of num_players that clients ask for

ASSUME LobbyAssumption ==
  /\ MaxPlayers \in Nat
  /\ MaxMatches \in Nat
  /\ Sizes \subseteq 1..4      \* SnakeMatch::Options::ParseFromJson

PlayerId == 1..MaxPlayers
MatchId == 1..MaxMatches

\* What a message asks for: a size, a size the factory refuses, or no join.
Invalid == 0
NotJoin == -1
Wants == Sizes \cup {Invalid, NotJoin}

\* Owners of matches_mutex_; the thread of match m owns it as m.
Free == -1
Io == 0

VARIABLES
  player_id_counter,
  match_id_counter,
  waiting_players,  \* keys of waiting_players_
  observed,         \* players whose connection holds a JoinRequest observer
  matches,          \* keys of matches_
  size,             \* options_.num_players of a match
  seats,            \* players_ of a match: connections not destroyed yet
  match_threads,    \* pc of the thread of a match
  matches_mutex,
  io,               \* the io thread: pc, player whose handler runs, its wish
  link,             \* the read operation of a player's connection
  process           \* up, or crashed (std::terminate or undefined behaviour)

vars == <<player_id_counter, match_id_counter, waiting_players, observed,
          matches, size, seats, match_threads, matches_mutex, io, link,
          process>>

matchVars == <<match_id_counter, matches, size, seats, match_threads>>
lobbyVars == <<player_id_counter, waiting_players, observed>>

IoPc == {"idle", "request", "create", "insert", "joining", "joined"}
ThreadPc == {"none", "starting", "playing", "finished", "erasing",
             "destroying", "exited"}

\* none: not accepted; open: a read is pending; closed: the peer has left but
\* its read error is not handled yet; lost: disconnected_ is set; cancelled:
\* the destructor waits in read_performed_ for a completion that is queued;
\* missed: it waits, but cancel() found only the queued completion of a half
\* line, so the read goes on; gone: the last handler has run.
LinkState == {"none", "open", "closed", "lost", "cancelled", "missed", "gone"}

TypeOK ==
  /\ player_id_counter \in 0..MaxPlayers
  /\ match_id_counter \in 0..MaxMatches
  /\ waiting_players \subseteq PlayerId
  /\ observed \subseteq PlayerId
  /\ matches \subseteq MatchId
  /\ size \in [MatchId -> Sizes \cup {0}]
  /\ seats \in [MatchId -> Seq(PlayerId)]
  /\ match_threads \in [MatchId -> ThreadPc]
  /\ matches_mutex \in MatchId \cup {Free, Io}
  /\ io \in [pc : IoPc, player : PlayerId \cup {0}, want : Wants]
  /\ link \in [PlayerId -> LinkState]
  /\ process \in {"up", "crashed"}

Idle == [pc |-> "idle", player |-> 0, want |-> Invalid]

Init ==
  /\ player_id_counter = 0
  /\ match_id_counter = 0
  /\ waiting_players = {}
  /\ observed = {}
  /\ matches = {}
  /\ size = [m \in MatchId |-> 0]
  /\ seats = [m \in MatchId |-> <<>>]
  /\ match_threads = [m \in MatchId |-> "none"]
  /\ matches_mutex = Free
  /\ io = Idle
  /\ link = [p \in PlayerId |-> "none"]
  /\ process = "up"

-----------------------------------------------------------------------------
(* The io thread: accepts and reads.                                       *)

IoAt(pc) == process = "up" /\ io.pc = pc

Bug_CountsFromZero(p) == observed' = observed \cup {p - 1}

WaitForJoin(p) == observed' = observed \cup {p}

\* Server::HandleAccept constructs the connection, whose constructor arms the
\* first read, and calls AddPlayer.
AddPlayer ==
  /\ IoAt("idle")
  /\ player_id_counter < MaxPlayers
  /\ LET p == player_id_counter + 1 IN
       /\ player_id_counter' = p
       /\ waiting_players' = waiting_players \cup {p}
       /\ link' = [link EXCEPT ![p] = "open"]
       /\ WaitForJoin(p)
  /\ UNCHANGED <<matchVars, matches_mutex, io, process>>

is_full(m) == Len(seats[m]) = size[m]
First(S) == CHOOSE m \in S : \A k \in S : m <= k

Bug_JoinsFull(want) == {m \in matches : size[m] = want}
Bug_IgnoresSize(want) == {m \in matches : want # Invalid /\ ~is_full(m)}
Bug_TriesOnlyFirst(want) ==
  {m \in matches : m = First(matches) /\ ~is_full(m) /\ size[m] = want}

\* The matches TryJoinExistingMatch would take; map order makes it the first.
Candidates(want) == {m \in matches : ~is_full(m) /\ size[m] = want}

\* Bound: no request that needs more than MaxMatches matches.
WithinBound(want) ==
  want \in Sizes => match_id_counter < MaxMatches \/ Candidates(want) # {}

\* HandleRead of p finds the JoinRequest observer and pops it.  p's
\* read_handle_mutex_ is held until io is idle again.
ReceiveMessage(p, want) ==
  /\ IoAt("idle")
  /\ WithinBound(want)
  /\ p \in observed
  /\ link[p] = "open"
  /\ observed' = observed \ {p}
  /\ io' = [pc |-> "request", player |-> p, want |-> want]
  /\ UNCHANGED <<player_id_counter, waiting_players, matchVars, matches_mutex,
                 link, process>>

\* JoinRequest, first early return.
IgnoreMessage ==
  /\ IoAt("request")
  /\ io.want = NotJoin
  /\ WaitForJoin(io.player)
  /\ io' = Idle
  /\ UNCHANGED <<player_id_counter, waiting_players, matchVars, matches_mutex,
                 link, process>>

Bug_KeepsWaiting(p, m, n) ==
  /\ seats' = [seats EXCEPT ![m] = Append(@, p)]
  /\ match_threads' =
       IF Len(seats[m]) + 1 = n
       THEN [match_threads EXCEPT ![m] = "starting"] ELSE match_threads
  /\ UNCHANGED waiting_players

Bug_NoMutex == TRUE

\* std::lock_guard on matches_mutex_ does not block.
Unlocked == matches_mutex = Free

\* AssignPlayerToMatch, then StartMatch if that filled the match.
AssignPlayerToMatch(p, m, n) ==
  /\ seats' = [seats EXCEPT ![m] = Append(@, p)]
  /\ waiting_players' = waiting_players \ {p}
  /\ match_threads' =
       IF Len(seats[m]) + 1 = n
       THEN [match_threads EXCEPT ![m] = "starting"] ELSE match_threads

\* TryJoinExistingMatch finds a match; the whole critical section is one step,
\* since nothing in it changes the shape of the matches_ map.
JoinExisting ==
  /\ IoAt("request")
  /\ io.want # NotJoin
  /\ Unlocked
  /\ Candidates(io.want) # {}
  /\ LET m == First(Candidates(io.want)) IN
       AssignPlayerToMatch(io.player, m, size[m])
  /\ io' = Idle
  /\ UNCHANGED <<player_id_counter, match_id_counter, observed, matches, size,
                 matches_mutex, link, process>>

\* TryJoinExistingMatch returns false and gives the mutex back.
NoneToJoin ==
  /\ IoAt("request")
  /\ io.want # NotJoin
  /\ Unlocked
  /\ Candidates(io.want) = {}
  /\ io' = [io EXCEPT !.pc = "create"]
  /\ UNCHANGED <<lobbyVars, matchVars, matches_mutex, link, process>>

Bug_RefusesSilently ==
  /\ IoAt("create")
  /\ io.want = Invalid
  /\ io' = Idle
  /\ UNCHANGED <<lobbyVars, matchVars, matches_mutex, link, process>>

\* CreateMatch returned nullptr.
RefuseOptions ==
  /\ IoAt("create")
  /\ io.want = Invalid
  /\ WaitForJoin(io.player)
  /\ io' = Idle
  /\ UNCHANGED <<player_id_counter, waiting_players, matchVars, matches_mutex,
                 link, process>>

\* JoinRequest takes the mutex a second time and starts to insert.
LockToInsert ==
  /\ IoAt("create")
  /\ io.want # Invalid
  /\ Unlocked
  /\ match_id_counter < MaxMatches
  /\ match_id_counter' = match_id_counter + 1
  /\ matches_mutex' = Io
  /\ io' = [io EXCEPT !.pc = "insert"]
  /\ UNCHANGED <<lobbyVars, matches, size, seats, match_threads, link, process>>

Bug_ReusesIds == Cardinality(matches) + 1

\* match_id of JoinRequest, after ++match_id_counter_.
NewMatchId == match_id_counter

\* ... the new match is in the map, its first player is in, the guard is gone.
InsertMatch ==
  /\ IoAt("insert")
  /\ LET m == NewMatchId IN
       /\ matches' = matches \cup {m}
       /\ size' = [size EXCEPT ![m] = io.want]
       /\ AssignPlayerToMatch(io.player, m, io.want)
  /\ matches_mutex' = Free
  /\ io' = Idle
  /\ UNCHANGED <<player_id_counter, match_id_counter, observed, link, process>>

-----------------------------------------------------------------------------
(* Connections.                                                            *)

PeerLeaves(p) ==
  /\ process = "up"
  /\ link[p] = "open"
  /\ link' = [link EXCEPT ![p] = "closed"]
  /\ UNCHANGED <<lobbyVars, matchVars, matches_mutex, io, process>>

\* What a missed read waits for: the rest of the line, or the end of the stream.
PeerEndsLine(p) ==
  /\ process = "up"
  /\ link[p] = "missed"
  /\ link' = [link EXCEPT ![p] = "cancelled"]
  /\ UNCHANGED <<lobbyVars, matchVars, matches_mutex, io, process>>

\* The last HandleRead: the peer left, or the destructor cancelled.  One with a
\* line, whose completion was queued when it did, differs in nothing the lobby
\* sees.
HandleReadError(p) ==
  /\ IoAt("idle")
  /\ \/ link[p] = "closed" /\ link' = [link EXCEPT ![p] = "lost"]
     \/ link[p] = "cancelled" /\ link' = [link EXCEPT ![p] = "gone"]
  /\ UNCHANGED <<lobbyVars, matchVars, matches_mutex, io, process>>

-----------------------------------------------------------------------------
(* The thread of match m.                                                  *)

ThreadAt(m, pc) == process = "up" /\ match_threads[m] = pc

Step(m, from, to) ==
  /\ ThreadAt(m, from)
  /\ match_threads' = [match_threads EXCEPT ![m] = to]

\* A thread is changing the shape of the matches_ map under the mutex.
Restructuring ==
  \/ io.pc = "insert"
  \/ \E m \in MatchId : match_threads[m] = "erasing"

\* matches_[match_id]->StartGame, evaluated without matches_mutex_.
FindMatch(m) ==
  /\ Step(m, "starting", "playing")
  /\ m \in matches
  /\ UNCHANGED <<lobbyVars, match_id_counter, matches, size, seats,
                 matches_mutex, io, link, process>>

\* The same lookup while the map is being changed is a data race, and one of
\* its outcomes is that the entry is not found.
RacyLookup(m) ==
  /\ ThreadAt(m, "starting")
  /\ Restructuring \/ m \notin matches
  /\ process' = "crashed"
  /\ UNCHANGED <<lobbyVars, matchVars, matches_mutex, io, link>>

\* StartGame reaches finish_callback.
GameOver(m) ==
  /\ Step(m, "playing", "finished")
  /\ UNCHANGED <<lobbyVars, match_id_counter, matches, size, seats,
                 matches_mutex, io, link, process>>

\* Broadcast to a peer that has left may throw, and nothing in the thread
\* catches the exception.
BroadcastThrows(m) ==
  /\ ThreadAt(m, "playing")
  /\ \E i \in 1..Len(seats[m]) : link[seats[m][i]] \in {"closed", "lost"}
  /\ process' = "crashed"
  /\ UNCHANGED <<lobbyVars, matchVars, matches_mutex, io, link>>

MatchFinished(m) ==
  /\ Step(m, "finished", "erasing")
  /\ Unlocked
  /\ matches_mutex' = m
  /\ UNCHANGED <<lobbyVars, match_id_counter, matches, size, seats, io, link,
                 process>>

Bug_ErasesFirst(m) ==
  /\ Step(m, "erasing", "destroying")
  /\ matches' = matches \ {First(matches)}
  /\ UNCHANGED <<lobbyVars, match_id_counter, size, seats, matches_mutex, io,
                 link, process>>

\* matches_.erase unlinks the entry and then destroys the match in it.
Unlink(m) ==
  /\ Step(m, "erasing", "destroying")
  /\ matches' = matches \ {m}
  /\ UNCHANGED <<lobbyVars, match_id_counter, size, seats, matches_mutex, io,
                 link, process>>

\* ~TcpConnection of the next player: takes read_handle_mutex_, cancels the
\* read and waits for its handler.  A queued completion is not cancelled: that of
\* a line or an error ends the read as well, that of a half line does not, unless
\* the peer has left.
CancelRead(m) ==
  /\ ThreadAt(m, "destroying")
  /\ seats[m] # <<>>
  /\ LET p == Head(seats[m]) IN
       /\ io.player # p
       /\ \/ link[p] \in {"open", "closed"} /\ link' = [link EXCEPT ![p] = "cancelled"]
          \/ link[p] = "open" /\ link' = [link EXCEPT ![p] = "missed"]
  /\ UNCHANGED <<lobbyVars, matchVars, matches_mutex, io, process>>

\* ~TcpConnection returns: disconnected_ was set, or the handler has run.
DestroyConnection(m) ==
  /\ ThreadAt(m, "destroying")
  /\ seats[m] # <<>>
  /\ link[Head(seats[m])] \in {"lost", "gone"}
  /\ link' = [link EXCEPT ![Head(seats[m])] = "gone"]
  /\ seats' = [seats EXCEPT ![m] = Tail(@)]
  /\ UNCHANGED <<lobbyVars, match_id_counter, matches, size, match_threads,
                 matches_mutex, io, process>>

Bug_KeepsMutex(m) ==
  /\ Step(m, "destroying", "exited")
  /\ seats[m] = <<>>
  /\ UNCHANGED <<lobbyVars, match_id_counter, matches, size, seats,
                 matches_mutex, io, link, process>>

\* The match is destroyed, MatchFinished drops its guard and the thread ends.
ThreadEnds(m) ==
  /\ Step(m, "destroying", "exited")
  /\ seats[m] = <<>>
  /\ matches_mutex' = Free
  /\ UNCHANGED <<lobbyVars, match_id_counter, matches, size, seats, io, link,
                 process>>

-----------------------------------------------------------------------------
(* Shutdown: an exception of a handler leaves io_service.run(), and main   *)
(* unwinds through ~Server and ~SequentialLobby.                           *)

\* The handler of p, whose connection has no other from then on.
HandlerThrows(p) ==
  /\ IoAt("idle")
  /\ link[p] \in {"open", "closed", "cancelled"}
  /\ io' = [Idle EXCEPT !.pc = "joining"]
  /\ UNCHANGED <<lobbyVars, matchVars, matches_mutex, link, process>>

\* ~SequentialLobby, its body: join every thread.  Its members are next, and
\* with them the connection whose handler threw: the exception skipped both the
\* next read and the notification its destructor waits for, so the program does
\* not get further than this.
JoinThreads ==
  /\ IoAt("joining")
  /\ \A m \in MatchId : match_threads[m] \in {"none", "exited"}
  /\ io' = [io EXCEPT !.pc = "joined"]
  /\ UNCHANGED <<lobbyVars, matchVars, matches_mutex, link, process>>

-----------------------------------------------------------------------------
IoStep == IgnoreMessage \/ JoinExisting \/ NoneToJoin \/ RefuseOptions
            \/ LockToInsert \/ InsertMatch \/ JoinThreads

ThreadStep(m) == FindMatch(m) \/ GameOver(m) \/ MatchFinished(m) \/ Unlink(m)
                   \/ CancelRead(m) \/ DestroyConnection(m) \/ ThreadEnds(m)

Next ==
  \/ AddPlayer
  \/ IoStep
  \/ \E p \in PlayerId : \/ \E want \in Wants : ReceiveMessage(p, want)
                         \/ PeerLeaves(p)
                         \/ PeerEndsLine(p)
                         \/ HandleReadError(p)
                         \/ HandlerThrows(p)
  \/ \E m \in MatchId : ThreadStep(m) \/ RacyLookup(m) \/ BroadcastThrows(m)

Spec == Init /\ [][Next]_vars

\* The operating system keeps scheduling both kinds of thread, and io_service
\* runs every ready handler in its turn; peers owe nothing.
Fairness ==
  /\ WF_vars(IoStep)
  /\ \A p \in PlayerId : SF_vars(HandleReadError(p))
  /\ \A m \in MatchId : WF_vars(ThreadStep(m))

FairSpec == Spec /\ Fairness

-----------------------------------------------------------------------------
(* Safety.                                                                 *)

Seated(p, m) == \E i \in 1..Len(seats[m]) : seats[m][i] = p

\* lobby.h:18-19: a second match of a size is only queued when the first is
\* full, although TryJoinExistingMatch and the insertion are two separate
\* critical sections.
OneQueuedMatchPerSize ==
  \A m, k \in matches :
    size[m] = size[k] /\ ~is_full(m) /\ ~is_full(k) => m = k

\* A connection is owned by waiting_players_ or by exactly one seat of one
\* match from AddPlayer until its destructor returns: it is neither dropped
\* nor held twice on its way through JoinRequest.
EveryPlayerHasOnePlace ==
  /\ \A p \in 1..player_id_counter :
       \/ p \in waiting_players
       \/ \E m \in MatchId : Seated(p, m)
       \/ link[p] = "gone"
  /\ \A m \in MatchId : \A i \in 1..Len(seats[m]) :
       /\ seats[m][i] \notin waiting_players
       /\ \A k \in MatchId : \A j \in 1..Len(seats[k]) :
            seats[m][i] = seats[k][j] => m = k /\ i = j

\* A match in the map has a thread exactly when all its players are there,
\* and no request ever overfills it.
StartedIffFull ==
  \A m \in matches : /\ Len(seats[m]) <= size[m]
                     /\ match_threads[m] # "none" <=> is_full(m)

\* MatchFinished erases the match whose thread calls it, after its game: while
\* a thread runs a game, its match and all its connections are there.
PlayedMatchIsAlive ==
  \A m \in MatchId :
    match_threads[m] \in {"starting", "playing", "finished", "erasing"} =>
      /\ m \in matches
      /\ \A i \in 1..Len(seats[m]) : link[seats[m][i]] \notin {"cancelled", "missed", "gone"}

\* Between handlers every player of the lobby is observed: whichever way
\* JoinRequest returned, the next message of the player is heard.
NoDeafPlayer ==
  io.pc = "idle" => waiting_players = observed

\* The map is never changed by two threads at once.
OneMapWriter ==
  /\ io.pc = "insert" => matches_mutex = Io
  /\ \A m \in MatchId :
       match_threads[m] \in {"erasing", "destroying"} => matches_mutex = m

\* Once a match has its thread, nobody is added to it under any circumstances
\* (an id handed out twice would do that), and its thread is never restarted.
RosterFrozen ==
  [][\A m \in MatchId : match_threads[m] # "none" =>
       /\ match_threads'[m] \notin {"none", "starting"} \ {match_threads[m]}
       /\ size'[m] = size[m]
       /\ \/ seats'[m] = seats[m]
          \/ seats[m] # <<>> /\ seats'[m] = Tail(seats[m])]_vars

-----------------------------------------------------------------------------
(* Liveness.                                                               *)

\* A match thread destroys a connection whose last handler cannot run: the io
\* thread waits for matches_mutex_, which that match thread holds.
Deadlocked ==
  /\ io.pc \in {"request", "create"}
  /\ io.want # NotJoin
  /\ \E m \in MatchId : /\ matches_mutex = m
                        /\ match_threads[m] = "destroying"
                        /\ seats[m] # <<>>
                        /\ link[Head(seats[m])] \in {"open", "closed", "cancelled", "missed"}

\* Under matches_mutex_ a match thread waits for a peer that has begun a line.
AwaitsPeer ==
  \E m \in MatchId : /\ match_threads[m] = "destroying"
                     /\ seats[m] # <<>>
                     /\ link[Head(seats[m])] = "missed"

IoLoopEnded == io.pc \in {"joining", "joined"}

\* The wait of ~TcpConnection under matches_mutex_ is the only thing that can
\* keep a finished match from being recycled, and it does so for ever only when
\* the io thread waits for that mutex, its loop has ended, or a peer with a half
\* line never does anything more.
RecycledUnlessStuck ==
  \A m \in MatchId : match_threads[m] = "finished" ~>
    match_threads[m] = "exited" \/ process # "up" \/ IoLoopEnded \/ [](Deadlocked \/ AwaitsPeer)

\* lobby.h:45 of MatchFinished: "Recycles a finished match."  (Whatever its peers
\* do: those that await one of them are left out.)
FinishedMatchIsRecycled ==
  \A m \in MatchId : match_threads[m] = "finished" ~>
    match_threads[m] = "exited" \/ process # "up" \/ IoLoopEnded \/ AwaitsPeer

\* lobby.h:25 of ~SequentialLobby: "Joins with all threads."
JoinsWithAllThreads ==
  io.pc = "joining" ~> io.pc = "joined" \/ process # "up"

-----------------------------------------------------------------------------
(* What the lobby promises.                                                *)

Alive(m) == match_threads[m] \notin {"destroying", "exited"}

\* The request that is being handled, once it is known to be a proper one.
Asked == [p \in PlayerId |->
            IF /\ io.pc \in {"request", "create", "insert"} /\ io.player = p
               /\ io.want \in Sizes
            THEN io.want ELSE 0]

Phase == [m \in MatchId |-> IF ~Alive(m) THEN "over"
                            ELSE IF match_threads[m] # "none" THEN "running"
                            ELSE IF m \in matches THEN "queued" ELSE "unused"]

Members == [m \in MatchId |->
              IF Alive(m) THEN {seats[m][i] : i \in 1..Len(seats[m])} ELSE {}]

MM == INSTANCE Matchmaking WITH
  Players <- PlayerId,
  Groups <- MatchId,
  arrived <- 1..player_id_counter,
  lobby <- waiting_players,
  asked <- Asked,
  phase <- Phase,
  members <- Members

\* The lobby implements the matchmaking of lobby.h:18-19.
ImplementsMatchmaking == MM!MMSpec
=============================================================================
