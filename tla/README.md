# SnakeServer: specifications, model checks and proofs

This directory specifies the server of `kareth/aimageddon` (a TCP server that
seats connecting programs into matches of a turn based snake game) in TLA+,
checks the specifications with TLC on small instances and proves the main
safety properties with TLAPS for every value of the constants.  `PROJECT.json`
maps every definition to the source lines it models; paths below are relative to
the repository and start with `src/`.

## 1. Inventory

| Part | Sources | State | Operations | What makes it correct | Module |
|---|---|---|---|---|---|
| Lobby | `src/games/lobby.{h,cpp}` | `waiting_players_`, `matches_`, `match_threads_`, two id counters, `matches_mutex_` | AddPlayer, WaitForJoin, JoinRequest, TryJoinExistingMatch, AssignPlayerToMatch, StartMatch, MatchFinished, destructor | no player lost or seated twice; one queued match per size; a match starts exactly when full; every finished match is recycled; the destructor joins | `SequentialLobby`, `Matchmaking` |
| TCP connection | `src/communication/tcp_connection.{h,cpp}` | read buffer, `messages_`, `observers_`, `queue_mutex_`, `read_handle_mutex_`, `read_performed_`, two flags | Write, Read, ReadMessageAsync, ReadMessage, HandleRead, ProcessMessage, destructor | lines in order and exactly once; none stalls; no handler after the destructor | `TcpConnection` |
| Round based player | `src/games/round_based/player.{h,cpp}` | `connection_`, `waiting_rounds_` (promises), `waiting_messages_` | GetRoundMessageAsync, ProcessMessage, WaitForMessageAsync, destructor | a promise is fulfilled once, with the message of its round | `RoundBasedMatch`, `TcpConnection` |
| Round based match | `src/games/round_based/match.{h,cpp}` | `players_` | AddPlayer, Broadcast, WaitForMessages | a turn uses the answers of its round; a timeout ends the wait, not the answer that came before it | `RoundBasedMatch` |
| Snake match | `src/games/snake/match.{h,cpp}`, `src/common/grid.h` | `board_`, `snakes_`, `events_`, `current_turn_` | SpawnSnakes, StartGame, ProcessTurn, KillSnake, IsGameFinished | board and snakes agree; every collision is seen; the deaths reported are those that happened; a client can follow the game | `SnakeMatch`, `SnakeClient`, turn loop in `RoundBasedMatch` |
| Match interface, factory | `src/games/match.{h,cpp}` | options | CreateMatch, ParseFromJson | wrong options are refused | wishes of `SequentialLobby` |
| Server, main | `src/communication/server.{h,cpp}`, `src/main.cpp` | acceptor | HandleAccept, `io_service.run()` | handlers are serial | io thread of `SequentialLobby` |
| Game logger | `src/communication/game_logger.*` | pointer to Redis | Log | its commands are sent and answered; what a lost Redis does to a match | `Log`, `LogThrows` of `RoundBasedMatch`, the senders of `RedisClient` |
| Redis TCP client | `src/cpp_redis/sources/network/tcp_client.cpp`, `io_service.cpp` | `m_socket`, `m_is_connected`, `m_write_buffer`, `m_read_buffer`, the outstanding operations | connect, disconnect, send, async_read, async_write, process_disconnection | a write covers what it erases; one write at a time; connect and disconnect return; a lost connection is noticed | `RedisTcpClient` |
| Redis client | `src/cpp_redis/sources/redis_client.cpp`, `network/redis_connection.cpp` | `m_callbacks`, its mutex, the reply builder | send, connection_receive_handler, clear_callbacks | a reply meets the callback of its command | `RedisClient` |
| Reply builders | `src/cpp_redis/sources/builders/` | `m_buffer`, the builders in progress, the replies | `operator<<`, one builder per type | the replies do not depend on how the bytes are cut into reads | `ReplyBuilder` |
| Redis subscriber | `src/cpp_redis/sources/redis_subscriber.cpp` | handlers per channel | subscribe, unsubscribe | not used by the server | not modelled |
| Messages | `src/communication/*message*` | none | parse, print | pure | not modelled |
| jsoncons, gmock, gtest, gflags, tests | | | | third party | not modelled |

### How the parts interact

One **io thread** runs `io_service.run()`: accepts, read handlers, and inside
the read handlers the observers of the connection (`JoinRequest` for a player in
the lobby, `RoundBasedPlayer::ProcessMessage` for one in a match).  When a match
is full `StartMatch` spawns a **match thread** that plays it (`StartGame`), then
calls `MatchFinished`, which destroys the match, its players and their
connections.  They share `matches_` (under `matches_mutex_`, except for the
lookup in `StartMatch`), the promises of a player, and the two queues of a
connection.  `~TcpConnection` cancels the outstanding read and waits for its
handler, so a match thread waits for the io thread, and the io thread takes
`matches_mutex_`, so it waits for match threads.  That pair of waits, the
promises registered after the message that asks for them was sent, and the
collision loop that clears tiles while later snakes are still to be looked at
are where this program is hard.  The Redis library adds an io thread of its own:
senders append to a buffer an asynchronous write is reading, callbacks are
matched with replies by their order alone, and nothing is reset when a connection
is lost.  `PROJECT.json` lists 40 hazards at their lines, with the properties
that cover them or the reason why none does.

## 2. Modules

Each module is a component with its state, one action per step in which it can
be interleaved, its properties at the end; `MC*` instantiate them for TLC, and
`*_proofs`, `*_refinement` hold the proofs.  Names are those of the code.

**`Matchmaking`** is the abstract specification: the promise of
`src/games/lobby.h:18-19` without threads, locks or connections.  A player
arrives, asks for a size, and is seated in the queued group of that size or in a
new one when there is none; the group runs when it is complete.

**`SequentialLobby`** is the lobby with its two kinds of thread. The io thread is
at `io.pc`: `idle` between handlers, `request` before the first critical section
of `JoinRequest`, `create` between the two, `insert` inside the second, `joining`
and `joined` in the destructor. A match thread is at `match_threads[m]`:
`starting` (spawned, before the unlocked `matches_[match_id]`), `playing`,
`finished` (calls `MatchFinished`), `erasing` (owns the mutex), `destroying`
(inside `matches_.erase`, connection by connection), `exited`. `link[p]` is the
read operation of a connection as the lobby sees it: what `TcpConnection` models
in detail is here the fact that a destructor needs the io thread to be between
handlers, and that its `cancel()` may meet only the queued completion of a half
line: the read is then `missed`, goes on, and ends when the peer does something
more (`PeerEndsLine`). A critical section that leaves the shape of `matches_`
alone is one step; one that changes it is two, so that the unlocked lookup can
fall between (`RacyLookup`: the process may crash). `BroadcastThrows` is the
exception that `Write` to a closed socket raises in a match thread,
`HandlerThrows` the one that leaves `io_service.run()`.

**`TcpConnection`** is one connection with the `RoundBasedPlayer` that owns it.
`read_op` is the pending `async_read_until`; a completed read is queued before
its handler runs, a part of a line completes the socket read but not the
composed one (`ContinueRead`), and a cancellation reaches only an outstanding
read.  A line that is not JSON throws in `HandleRead` (`MessageThrows`), a callback
may throw (`CallbackThrows`): neither starts a read nor notifies, and the io loop
ends.  The user thread calls `Read`, `ReadMessageAsync` and finally the
destructor; `pc[User]` tells a notified end of its wait (`woken`) from a spurious
one (`stray`).  The unsynchronised `connection_` pointer is a nondeterministic
choice of its two outcomes (`NullConnection`).  All user calls come from one
thread, as in the server; with two the delivery order would not hold, since a
popped message is handed over outside `queue_mutex_`.

**`RoundBasedMatch`** is the turn loop of `SnakeMatch::StartGame` with the
promises of the players: `Write` to the players one by one, `GetRoundMessageAsync`
one by one, then `Collect` one by one against one deadline. Clients answer any
round at any time and as often as they like, or send messages of no round (`Ahead`
bounds how far ahead of its round a message may be; a round that is no turn is
handled as one that is not asked yet); they may leave (`WriteThrows`), stop
reading so that `Write` blocks (`peer` is `stuck`), or answer with something
`ParseAction` throws on (`ParseThrows`). `heard` and `answered` are history
variables, used by `MissedMeansLate` and `UnansweredStayOpen` only. What a turn
does to the board is abstracted to "the game is finished or not".

**`SnakeMatch`** is `SpawnSnakes` and `ProcessTurn`.  The move loop is one step
(its iterations do not read what others write, except that tails are emptied),
the collision loop one step per snake, the marking of heads one step.  Apples
are left out: nothing in the code puts one on the board.

**`SnakeClient`** adds to it a program that plays: `view` is what can be drawn
from `MakeGameStart` and the heads and events of each `MakeGameStatus`.
`Followed` is what `src/games/snake/protocol.md` tells a client to do with them.

**`ReplyBuilder`** is the incremental decoder of `src/cpp_redis/sources/builders`
as operators on a record: `Build` is one step of the innermost builder, `Fed`
what `reply_builder::operator<<` does with the bytes of a read.  It is compared
with `Encoded`, what a server writes for the replies in `Reply`.

**`RedisTcpClient`** is `tcp_client` with its `io_service`, socket and server.
`completions` are the queued handlers, `reads` and `write_op` the operations the
socket works on; `write_op.moved` says that the vector the write reads from has
been reallocated by `send`, after which any byte may be written.  `owner` is the
thread in `connect` or `disconnect`, with the test of `is_notified` and the wait
as two steps, `io` the place in the completion handler that runs, `sender[s]`
that of a thread in `send`.  A unit of the write buffer is a whole command.

**`RedisClient`** composes it with `ReplyBuilder`: each action of the TCP client
is conjoined with what `redis_client` and `redis_connection` do in it.
`LockAndCheck`, `SendCommand`, `PushCallback` are `redis_client::send`;
`FeedBuilder`, `Decode`, `HandOver`, `Received` the receive handler;
`ClearCallbacks` the disconnection handler.  `sound` and `replying` are history
variables: the connection began with a clean client and nothing has moved under a
write, and the commands answered whose reply is on its way.

The modules are composed by what they assume of one another:
`SequentialLobby` uses "the destructor returns after one more handler, unless the
io loop has ended or the peer of a half line does nothing more" and "writing to a
closed socket may throw", which are what `TcpConnection`
(`NotifiedDestructionIsLast`, `DestructorReturns`) and `RoundBasedMatch`
(`MatchEnds`) say.  `LogThrows` of `RoundBasedMatch` is the exception
`RedisTcpClient` raises in a `send` without a connection (there the sender just
stays idle).  A single composed module of the server is not written.

## 3. Runs

| Run | Result | What it shows |
|---|---|---|
| `lobby` | passes, about 227 000 states | invariants, roster, refinement of `Matchmaking`, and that nothing but the deadlock below, the end of the io loop or a silent peer with a half line keeps a finished match from being recycled |
| `lobby_recycle` | violated | the deadlock of `JoinRequest` and `MatchFinished` |
| `lobby_shutdown` | violated | `~SequentialLobby` waits for ever after a handler threw |
| `tcp` | passes, about 25 000 states | order, exactly once, no stall, end of reading; the destructor returns unless the io loop has ended or it awaits a silent peer with a half line |
| `tcp_wakeup` | violated | `read_performed_.wait` has no predicate |
| `rounds` | passes, about 2 078 000 states | right answers to the right turn, timeouts, promises fulfilled once and open exactly for the rounds not answered; every match ends unless a connected player stops reading |
| `rounds_early` | violated | an answer between broadcast and registration is passed over |
| `rounds_left` | violated | one player that leaves ends the process |
| `snake` | passes, about 220 000 states | marks, chains, bounds, heads, reported deaths; heads and events are enough to follow the game, and every death can be explained from them |
| `snake_overlap` | violated | a death hides a living snake from a third one |
| `redis` | passes, about 288 000 states | replies meet their callbacks, no callback survives a connection, replies do not depend on cuts, commands are answered, a closed connection is noticed |
| `redis_resend` | violated | bytes left by a failed write keep the next connection from writing |

### Bounds, and why they suffice

- Lobby: three connections, three matches, sizes 1 and 2.  Two players fill a
  match while the third starts one of the other size, joins, leaves or has its
  request handled during the recycling of the first match; sizes equal to and
  different from each other occur, and a request that is refused or is no join.
  Three matches allow one queued, one running and one being recycled at once.
  `WithinBound` disables a *request* that would need a fourth match, not the
  middle of one, so the bound never looks like a deadlock.  The two violation
  runs need two matches.
- Connection: three lines and three calls let messages queue, observers queue,
  and a line be in the hands of each thread while another is queued.
- Rounds: two players, two turns, two messages each: an answer to turn 1 can
  arrive in turn 2, twice, or before its promise; one player can be waited for
  while the other answers.  With `Ahead` 2 any round can be answered at any time;
  the two violation runs need no early answers and have `Ahead` 0.
- Redis: two senders, two commands, two connections: a command is appended while
  the other is written, answered or has just failed, a sender can be between the
  check and the lock of a connection that is lost, and a second connection can
  find what the first left.  One thing this bound hides was found by the proof:
  a write covers two commands only when both were appended during an earlier
  write, so it takes three.  When such a write fails half way the io thread forgets
  how far it got before it runs `process_disconnection`.  `CallbacksMeetTheirReplies` therefore
  speaks of connections the io thread has not begun to give up
  (`io # "closing"`); TLC finds it true for three commands on one and on two
  connections as well.  Replies of the run are numbers that name commands,
  cut at every byte.  `SomeReplies` holds one reply of each kind and its edges
  (null, empty, a text that is an end of line, nested arrays); every stream of up
  to two of them is decoded for every prefix and every continuation.
- Snakes: three snakes of length 3 on 5 x 5 tiles for four turns (five for the
  overlap): they reach each other, the walls and themselves, and three heads can
  meet.  The code's values are 15 x 15, length 4, 40 turns; the proofs cover them.

Deadlock checking is off in every run: each of these systems stops when its
clients do nothing more or when the game is over.

### Fairness

`WF` of the io thread, of each match thread and of the timer: the operating system
keeps scheduling threads and clocks advance. `SF(HandleReadError(p))` in the
lobby: `io_service` runs every ready handler in its turn, though other handlers
run in between. `WF(SocketCompletes)`: the kernel reports what has arrived. In
`RedisClient`: the io thread, the kernel's socket operations, the wait of
`connect` and `disconnect`, senders that have begun a `send`, and a Redis server
that answers what it reads; nobody has to connect, send or disconnect, and the
owner's wait may be lost (`ReturnsUnlessWakeupLost` says when). Nothing is assumed
of clients: they need not answer, end a line, read or leave; nor that anyone ever
destroys a connection. So `DestructorReturns` and `RecycledUnlessStuck` do not say
that a destructor returns: they name the ways it does not (`IoLoopEnded`, a peer
that keeps its half line for ever, and in the lobby the deadlock), and that there
are no others.

## 4. What is proved

`tlapm` checks every proof to its last leaf.  The leaves are kept small: each
needs about a second of a prover, also with all the others running, so that the
proofs do not depend on the machine they are checked on.  What is expensive for
the provers, joining and cutting sequences, is in lemmas of its own
(`NatsAssociate`, `SymbolsAssociate`, `BytesAssociate`, `FrontOfBytes`).

**`SequentialLobby_proofs`**, for any number of players, matches and any set of
sizes up to 4 (`LobbyAssumption`).  None of the invariants the run checks is
inductive alone: that a seat is unique needs that the player of the current
request is still in `waiting_players_`, that the new match has a fresh id needs
that ids above the counter are unused everywhere, and that the queued match of a
size is unique needs that nothing has been queued between the search and the
insertion, although the mutex was free in between (only the io thread queues).
`LobbyInv` collects this: `TypeOK`, `HandlerInv` (the player of the handler in
progress), `IdInv` (ids and map entries), `ThreadInv` (threads against entries),
`PlaceInv` (one owner per connection), `LinkInv` (connections of a live match
are usable), `OneMapWriter`, `QueueInv` (one queued match per size, none for the
size about to be inserted).  One lemma per action shows it is kept; the theorems
`TypeCorrect`, `MapHasOneWriter`, `OneMatchAwaits`, `OnePlacePerPlayer`,
`MatchesStartFull`, `RunningMatchIsThere`, `EveryWaitingPlayerIsHeard` and the
action property `RosterIsFrozen` follow.

**`SequentialLobby_refinement`** proves that the lobby implements `Matchmaking`.
The mapping: `lobby` is `waiting_players`, `asked` the request being handled,
`phase` is read from the thread of a match and `members` from its seats until it
is unlinked.  Seating a player is `QueueNew` or `JoinQueued`, receiving a proper
request `Ask`, `AddPlayer` `Arrive`, `Unlink` `Finish`; everything else stutters.
"There is no matching game" is a guard of `QueueNew` and has to be derived at a
point where the code has released the mutex it searched under; `QueueInv` is
what makes it true.

**`SnakeMatch_proofs`**, for one to four snakes and every board on which they
fit (`SnakeAssumption`: the length is less than each side minus one, which the
code's 4 and 15 satisfy), any number of turns.  `SnakeInv` adds to the checked
invariants `LoopInv` (where the loops are), `HeadsInv` (a snake the collision
loop has passed shares its head with no living snake) and `MarksInv` (before the
first death the marks are exact up to the heads, and a head the loop has passed
came to an empty tile).  The lemmas before it show where snakes spawn and that
they do not touch, what `push_front` and `ShortenTail` do to a sequence, and that
the deaths reported for a set list exactly that set.  Theorems:
`SnakeTypeCorrect`, `MarksAreNoGhosts`, `LivingStayInside`, `SnakesStayChains`,
`LivingHeadsApart`, `MarksAreExact` and the action property `DeathsReported`.
That `MarksAreExact` stops at the first death is not a weakness of the proof: see
`snake_overlap`.

**`SnakeClient_proofs`** builds on `SnakeInv`, since a watched game is a game
(`WatchedGame`).  `ViewInv` says that during a turn the status that could be sent
leads from the view to the snakes as they are, that every death so far is
explained by snakes that were alive in the view, and that a mark on the board is
under a part behind the head (`MarkedBehind`): without the last one a snake could
be killed by the mark of a head nobody has seen.  Theorems:
`HeadsAndEventsSuffice`, `NoInvisibleDeath`.

**`TcpConnection_proofs`**, for any number of lines and calls.  `ConnectionInv`
adds to the checked invariants `HandInv` (what a thread carries is a line until
its callback has run), `QueueInv` (a thread that has taken a message found no
observer and a handler that has taken an observer found no message, so one line
at most is in the hands of a thread and none overtakes it), `MutexInv` (who holds
`read_handle_mutex_`) and `StopInv` (a handler that finds the waiting destructor,
or an error, starts no read).  The order of delivery needs `QueueInv` because a
popped message is delivered after `queue_mutex_` is released.
Theorems: `ConnectionTypeCorrect`, `LinesInOrder`,
`MessagesMeetObservers`, `NotifiedMeansLast` and the action property
`ReadingStops`.

**`RoundBasedMatch_proofs`**, for up to four players, any number of turns and
messages.  `MatchInv` adds `LoopInv` (`turn` against `current_turn_`), `ToldInv`
(who knows of the round that is asked next), `SenderInv` (messages on the wire
and in futures come from their player), `PromiseInv` (an open promise of this
turn has no value; none exists before it is registered) and `HeardInv`.  That a
promise is open only for rounds its player was told of is needed to show that no
promise of the new round exists when the loop starts again; `AnsweredInv`, that
only a round whose promise is registered counts as answered, is needed to show
that the promise of a new round is open.  Theorems:
`MatchTypeCorrect`, `TurnsUseTheirAnswers`, `OnlyTheLateMiss`,
`MissedTurnsStayOpen` and the action property `FirstAnswersCount`.

**`ReplyBuilder_proofs`** is about the decoder and knows nothing of clients.
`NumbersAreReadBack` says that the value of the digits written for `n` is `n`.
The induction theorems of the library take an operator as parameter and cannot
be used, so the module does induction by hand: `LeastNat` (a set of naturals
that is not empty has a least element, from well-foundedness) and from it
`Recursion` (a function that computes each value from an earlier one exists),
with which `Decimal` and `m_nbr` are unfolded.  `Streams(bytes, numbers)` relates
bytes to the numbers they encode; the lemma `DecoderFollowsStream` says what one
`Build` keeps when the decoder has some bytes of such a stream, cut anywhere, and
the rest is to come: it does not fail, and what it has left belongs to the same
replies, or to all but the first, which it has handed over.  It does not say that
the step takes anything; that complete replies are handed over is
`EveryCutDecodes`.  The composed model has number replies only, and its proof
uses this step.

The rest of the module is about every reply: texts, numbers, bulk strings, null,
arrays of these and arrays of such arrays, of any length (`Reply`; every set
`SomeReplies` is assumed to be of such replies, `RepliesAssumption`).  Numbers
are unbounded there, the code's `int` is not: what the theorems say of the code
is about numbers and sizes an `int` holds.

- A step of the builders does the same when more bytes follow than it looks at
  (`BuildIs`), and makes the decoder lighter: it takes bytes or finishes a builder
  (`BuildTakes`).  So the steps of `operator<<` come to an end that does not
  depend on how many are allowed: `FeedingSettles` (after `Fed` no builder can go
  on) and `FeedingInParts` (feeding `x`, then `y`, is feeding `x \o y`, unless `x`
  makes the decoder throw).
- A decoder in front of `Encoded(r)` gets to hold `r` and nothing else
  (`ReplyIsRead`), by the form of replies: `FlatIsRead`, then rows, then arrays,
  whose rows are collected one by one (`CollectsAll`).
- With a part of the bytes, the decoder is on the way to where all of them take it
  (`FedIsLater`): it cannot have failed, since failures last (`FailureLasts`), and
  it does not have the reply yet (`PartOfReply`).

`EveryCutDecodes` joins them: after each byte of any sequence of replies the
decoder has exactly the replies that are complete, and its state is the same
however the bytes before were cut.

**`RedisClient_proofs`**, for any number of senders, commands and connections;
`ClientAssumption` says that `Free`, which stands for an unlocked mutex, is no
thread.  `WritesStayInBuffer` is proved for `tcp_client` alone (`WritesStay`)
and inside the whole client (`ClientWritesStay`); its `BufferInv` adds that a
write in progress has something left to write.  The other theorems:

- `ClientIsTyped` (`ClientTypeOK`), by `TypeInv`: types alone are not inductive,
  since `PushCallback` uses the number of the command its sender has appended,
  so that a sender inside `send` holds `m_callbacks_mutex` (`MutexInv`).
- `LostCallbacksAreCleared` (`NoCallbackSurvives`), by `WatchInv`: while there are
  callbacks of a connection, or a thread that may add one, something will still
  run that clears them - a read outstanding or completed, or the io thread
  inside the handler.
- `RepliesMeetTheirCallbacks` (`CallbacksMeetTheirReplies`), by `ClientInv`.  The
  order of commands and callbacks is `OrderInv`; that commands are erased exactly
  as far as they were written needs that at most one write is completed and not
  handled (`WriteInv`).  What the decoder holds is `DecodeInv`: the bytes it has,
  those in the read buffer and those in the socket are a stream of the replies to
  `replying`, in this order, which `DecoderFollowsStream` keeps.  Bytes reach it in
  order since one read at a time is outstanding and its bytes are in
  `m_read_buffer` until the handler takes them (`OneReadInv`, `ReadBufferInv`).
  All three must hold when a connection begins: there `TrafficInv` says that
  nothing is on the way before the handler of `connect` has run.  `SoundInv` says
  that a connection without a moved write stays open until the io thread gives
  it up.
- `RepliesAreReadWhole` (`RepliesAreCutIndependent`): a client that was never
  connected has a new decoder (`UnusedInv`: no handler is queued, nobody sends),
  and `EveryCutDecodes` says what that does, whatever `SomeReplies` is.

So every safety invariant and action property of the passing runs has a theorem.
Only model-checked: every liveness property (`RecycledUnlessStuck`,
`NoLineStalls`, `DestructorReturns`, `MatchEnds`, `ReturnsUnlessWakeupLost`,
`CommandsAreAnswered`, `EndOfStreamIsNoticed`), since the prover handles neither
fairness nor `ENABLED`.

## 5. Disagreements of code and documentation

Shown by runs, with the quoted lines in `PROJECT.json`:

- `FinishedMatchIsRecycled`: `matches_.erase` waits for the io thread under the
  mutex the io thread may be waiting for (`src/games/lobby.cpp:37`).
- `JoinsWithAllThreads`: the destructor of the lobby joins threads that wait for
  handlers nobody runs any more (`src/games/lobby.cpp:11`).
- `DestructionIsLast`: a spurious wakeup frees the connection under its handler
  (`src/communication/tcp_connection.cpp:15`).
- `NoAnswerIsPassedOver`: a fast answer goes to `waiting_messages_`, which is
  never read (`src/games/round_based/player.cpp:28`).
- `MatchSurvivesItsPlayers`: writing to a player that left ends the process
  (`src/games/round_based/match.cpp:13`).
- `NoOverlap`: `KillSnake` empties a tile of the snake that was run into
  (`src/games/snake/match.cpp:116`).
- `BufferIsBeingWritten`: after a failed write the buffer keeps its bytes, so
  `send()` on the next connection believes a write is running
  (`src/cpp_redis/sources/network/tcp_client.cpp:125`).

Read while modelling, visible without a run: `src/games/snake/protocol.md` calls
`turn` the member the code reads and writes as `round`; it says a status names the
turn that was played, the code sends the next one; `game_end` carries no scores;
snakes 1 to 3 start on the edge, while the comment in `match.h` puts corners one
tile off it; after the last turn no status is sent, only `game_end`, while it says
"After each turn server sends update" (`src/games/snake/protocol.md:44`); the
protocol speaks of an invalid direction only, while an answer without `data`
throws in the match thread. `src/games/lobby.h:28` says that `AddPlayer`
"automatically starts a single player game": it waits for a join request. A null
array (`*-1`), which the Redis protocol has, throws in the decoder, as does every
negative array size, and the next read goes on with a size that was never set; a
bulk size of -2 makes it look before the start of the buffer. The README of
`src/cpp_redis` says that connecting a connected client, and disconnecting one
that is not, throws: both return.

## 6. Not modelled, and why

- Text: JSON, formatting of status messages and of Redis commands.  What a
  message says is a parameter of the action that receives it; that parsing can
  throw is `MessageThrows`, `CallbackThrows` and `HandlerThrows`.
- In `TcpConnection` and `RoundBasedMatch`, the end of the io loop by a handler of
  another connection: `SequentialLobby` has it.
- Replies that are null arrays or malformed: `SomeReplies` and `Reply` leave them
  out, the decoder's steps for them are modelled.
- Sizes of socket buffers: a player that stops reading blocks its `Write` for
  good from some moment on; how many bytes fit before is left out.
- Growth: `match_threads_` and `waiting_messages_` are never emptied; a bounded
  model has nothing to say about it.
- The accept handler's socket allocation (`src/communication/server.cpp:23`).
- The destruction of the lobby's members after its threads are joined.
- The Redis subscriber, which the server does not use; callbacks that send,
  which would lock `m_callbacks_mutex` twice (`GameLogger` passes none); integers of 64 bits in replies; the conversions
  between reply classes.

## 7. Plan

Order chosen so that the server's own behaviour comes first.

1. Done: `Matchmaking`, `SequentialLobby`, `TcpConnection`, `RoundBasedMatch`,
   `SnakeMatch`, the runs above and the proofs of section 4.
2. Done: `RedisTcpClient`, `ReplyBuilder`, `RedisClient`, with the runs `redis`
   and `redis_resend`; `SnakeClient`; players that stop reading and answers that
   do not parse.
3. Done: the proofs about connections, rounds, clients and the Redis client,
   with the decoder for every kind of reply and every cut.
4. Left: a composed server, `TcpConnection` in the place of `link`, so that the
   deadlock of `lobby_recycle` is seen end to end.

## 8. Running

    tlc -config lobby.cfg MCSequentialLobby.tla      # likewise the other runs
    tlapm SequentialLobby_proofs.tla                 # likewise the other proofs
