--------------------------- MODULE RoundBasedMatch ---------------------------
(***************************************************************************)
(* One match: the turn loop of SnakeMatch::StartGame (games/snake/         *)
(* match.cpp) in its thread, the promises of RoundBasedPlayer and the      *)
(* waiting of RoundBasedMatch (games/round_based), with the io thread that *)
(* hands in the messages of the players.  What a turn does to the board is *)
(* SnakeMatch; here it only decides whether the game is finished.          *)
(***************************************************************************)
EXTENDS Integers, Sequences

CONSTANTS
  NumPlayers,   \* num_players_
  MaxTurns,     \* options_.max_turns
  MaxSends,     \* bound: messages a player sends
  Ahead         \* bound: how far a message is ahead of the round asked for last

ASSUME MatchAssumption ==
  /\ NumPlayers \in 1..4
  /\ MaxTurns \in Nat \ {0}
  /\ MaxSends \in Nat
  /\ Ahead \in Nat

Players == 1..NumPlayers
Turns == 1..MaxTurns
NoRound == 0         \* a message without the member "round"
Message == [from : Players, round : Turns \cup {NoRound}, id : 1..MaxSends]
None == [from |-> 0]  \* nullptr, or a future without a value

VARIABLES
  pc,               \* the match thread
  broadcast,        \* the message Broadcast sends: start, status, end
  turn,             \* the loop variable of StartGame
  current_turn,     \* current_turn_
  finished,         \* IsGameFinished()
  next,             \* the player the loop of Broadcast or WaitForMessages is at
  expired,          \* the timeout of WaitForMessages has passed
  future,           \* future_messages of this turn
  messages,         \* messages of this turn, of players before next
  waiting_rounds,   \* per player: rounds with a promise in waiting_rounds_
  waiting_messages, \* per player: rounds in waiting_messages_, which nothing reads
  wire,             \* per player: sent, not yet handled by the io thread
  sends, announced,  \* per player: messages sent, the last turn asked for
  peer,              \* per player: up, stuck (it has stopped reading and its
                     \* socket buffer is full), left
  logger,           \* the connection to Redis is up
  heard,            \* history: players whose answer to this turn was handled
                    \* between GetRoundMessageAsync and the timeout
  answered          \* history, per player: rounds an answer to which was handled
                    \* after GetRoundMessageAsync

matchVars == <<pc, broadcast, turn, current_turn, finished, next, expired, messages>>
playerVars == <<future, waiting_rounds, waiting_messages, heard, answered>>
clientVars == <<wire, sends, announced, peer>>
vars == <<matchVars, playerVars, clientVars, logger>>

Pc == {"broadcast", "sent", "log", "ask", "collect", "turn", "over", "crashed"}

TypeOK ==
  /\ pc \in Pc
  /\ broadcast \in {"start", "status", "end"}
  /\ turn \in 1..MaxTurns + 1 /\ current_turn \in 1..MaxTurns + 1
  /\ finished \in BOOLEAN /\ expired \in BOOLEAN /\ logger \in BOOLEAN
  /\ next \in Players
  /\ future \in [Players -> Message \cup {None}]
  /\ messages \in [Players -> Message \cup {None}]
  /\ waiting_rounds \in [Players -> SUBSET Turns]
  /\ waiting_messages \in [Players -> SUBSET Turns]
  /\ wire \in [Players -> Seq(Message)]
  /\ sends \in [Players -> 0..MaxSends]
  /\ announced \in [Players -> 0..MaxTurns]
  /\ peer \in [Players -> {"up", "stuck", "left"}]
  /\ heard \subseteq Players
  /\ answered \in [Players -> SUBSET Turns]

Nobody == [p \in Players |-> None]

\* StartGame has spawned the snakes and broadcasts the start.
Init ==
  /\ pc = "broadcast" /\ broadcast = "start"
  /\ turn = 1 /\ current_turn = 1 /\ finished = FALSE
  /\ next = 1 /\ expired = FALSE
  /\ future = Nobody /\ messages = Nobody
  /\ waiting_rounds = [p \in Players |-> {}]
  /\ waiting_messages = [p \in Players |-> {}]
  /\ wire = [p \in Players |-> <<>>]
  /\ sends = [p \in Players |-> 0]
  /\ announced = [p \in Players |-> 0]
  /\ peer = [p \in Players |-> "up"]
  /\ logger = TRUE
  /\ heard = {}
  /\ answered = [p \in Players |-> {}]

-----------------------------------------------------------------------------
(* Players and Redis.                                                      *)

\* A player answers the turn it was last asked for, an earlier one again or one
\* it was not asked for yet, or sends a message of another kind.  (A round that is
\* no turn fares like one that was not asked for.)
PlayerSends(p, r) ==
  /\ peer[p] # "left" /\ sends[p] < MaxSends
  /\ r <= announced[p] + Ahead
  /\ sends' = [sends EXCEPT ![p] = @ + 1]
  /\ wire' = [wire EXCEPT ![p] = Append(@, [from |-> p, round |-> r, id |-> sends[p] + 1])]
  /\ UNCHANGED <<matchVars, playerVars, announced, peer, logger>>

\* A player stops reading, for good, or closes its connection.  (One that reads
\* on later only makes a Write take longer.)
PlayerFails(p, state) ==
  /\ peer[p] = "up" \/ (peer[p] = "stuck" /\ state = "left")
  /\ peer' = [peer EXCEPT ![p] = state]
  /\ UNCHANGED <<matchVars, playerVars, wire, sends, announced, logger>>

RedisDisconnects ==
  /\ logger
  /\ logger' = FALSE
  /\ UNCHANGED <<matchVars, playerVars, clientVars>>

-----------------------------------------------------------------------------
(* The io thread: RoundBasedPlayer::ProcessMessage.                        *)

\* The rounds GetRoundMessageAsync has been called with for p.
Asked(p) ==
  {t \in Turns :
     \/ t < turn
     \/ t = turn /\ \/ pc = "ask" /\ p < next
                    \/ pc \in {"collect", "turn"}
                    \/ pc \in {"broadcast", "sent", "log"} /\ broadcast = "status"}

\* set_value reaches the future of this turn; that of an earlier turn is gone.
SetValue(p, m) ==
  future' = IF m.round = turn THEN [future EXCEPT ![p] = m] ELSE future

Bug_KeepsPromise(p, m) == SetValue(p, m) /\ UNCHANGED waiting_rounds

Bug_AnyRound(p, m) ==
  /\ future' = [future EXCEPT ![p] = m]
  /\ waiting_rounds' = [waiting_rounds EXCEPT ![p] = @ \ {m.round}]

\* A promise is fulfilled once and forgotten.
Fulfil(p, m) ==
  /\ SetValue(p, m)
  /\ waiting_rounds' = [waiting_rounds EXCEPT ![p] = @ \ {m.round}]

ProcessMessage(p) ==
  /\ pc # "crashed"
  /\ wire[p] # <<>>
  /\ wire' = [wire EXCEPT ![p] = Tail(@)]
  /\ LET m == Head(wire[p]) IN
       /\ \/ /\ m.round \in waiting_rounds[p]
             /\ Fulfil(p, m)
             /\ heard' = IF m.round = turn /\ ~expired THEN heard \cup {p} ELSE heard
             /\ UNCHANGED waiting_messages
          \/ /\ m.round \notin waiting_rounds[p] \cup {NoRound}
             /\ waiting_messages' = [waiting_messages EXCEPT ![p] = @ \cup {m.round}]
             /\ UNCHANGED <<future, waiting_rounds, heard>>
          \/ m.round = NoRound /\ UNCHANGED <<future, waiting_rounds, waiting_messages, heard>>
       /\ answered' = [answered EXCEPT ![p] = @ \cup (Asked(p) \cap {m.round})]
  /\ UNCHANGED <<matchVars, sends, announced, peer, logger>>

-----------------------------------------------------------------------------
(* The match thread.                                                       *)

\* The next player of a loop over players_, and what follows the last one.
Advance(after) ==
  /\ next' = IF next = NumPlayers THEN 1 ELSE next + 1
  /\ pc' = IF next = NumPlayers THEN after ELSE pc

\* Broadcast: the players are written to one after the other, and the write
\* blocks while a socket buffer is full.  The start asks for turn 1, a status for
\* the round it carries.
Write ==
  /\ pc = "broadcast" /\ peer[next] # "stuck"
  /\ Advance("sent")
  /\ announced' = IF broadcast = "end" THEN announced
                  ELSE [announced EXCEPT ![next] = current_turn]
  /\ UNCHANGED <<broadcast, turn, current_turn, finished, expired, messages,
                 playerVars, wire, sends, peer, logger>>

\* Writing to a player that has left may throw; nothing catches it.
WriteThrows ==
  /\ pc = "broadcast"
  /\ peer[next] = "left"
  /\ pc' = "crashed"
  /\ UNCHANGED <<broadcast, turn, current_turn, finished, next, expired, messages,
                 playerVars, clientVars, logger>>

\* The head of the loop of StartGame, and of WaitForMessages: the timeout is
\* computed, then the promises are registered.
NextTurn(t) ==
  /\ turn' = t
  /\ messages' = Nobody /\ future' = Nobody /\ heard' = {}
  /\ IF t <= MaxTurns /\ ~finished
     THEN pc' = "ask" /\ expired' = FALSE /\ UNCHANGED broadcast
     ELSE pc' = "broadcast" /\ broadcast' = "end" /\ UNCHANGED expired

\* The start and the end are logged after they are sent, a status before.
Broadcasted ==
  /\ pc = "sent"
  /\ IF broadcast = "status"
     THEN NextTurn(turn + 1)
     ELSE pc' = "log" /\ UNCHANGED <<broadcast, turn, expired, messages, future, heard>>
  /\ UNCHANGED <<current_turn, finished, next, waiting_rounds, waiting_messages,
                 answered, clientVars, logger>>

Bug_AsksNextRound == turn + 1

\* The round WaitForMessages is called with.
RoundAsked == turn

Bug_OnlyThisRound(p) == {RoundAsked}

\* A promise is added to those of the turns the player has missed.
Registered(p) == waiting_rounds[p] \cup {RoundAsked}

\* RoundBasedPlayer::GetRoundMessageAsync
GetRoundMessageAsync ==
  /\ pc = "ask"
  /\ waiting_rounds' = [waiting_rounds EXCEPT ![next] = Registered(next)]
  /\ Advance("collect")
  /\ UNCHANGED <<broadcast, turn, current_turn, finished, expired, messages,
                 future, waiting_messages, heard, answered, clientVars, logger>>

Expire ==
  /\ pc \in {"ask", "collect"} /\ ~expired
  /\ expired' = TRUE
  /\ UNCHANGED <<pc, broadcast, turn, current_turn, finished, next, messages,
                 playerVars, clientVars, logger>>

Bug_WaitsForever(p) == future[p] # None
Bug_DropsExpired(p) == IF expired THEN None ELSE future[p]

\* wait_until returns: the value is there, or the time is over.
WaitReturns(p) == future[p] # None \/ expired

\* A value that is there is taken, also after the timeout.
Collected(p) == future[p]

Collect ==
  /\ pc = "collect"
  /\ WaitReturns(next)
  /\ messages' = [messages EXCEPT ![next] = Collected(next)]
  /\ Advance("turn")
  /\ UNCHANGED <<broadcast, turn, current_turn, finished, expired,
                 playerVars, clientVars, logger>>

\* ProcessTurn; a finished game stays finished, it is tested before each turn.
ProcessTurn ==
  /\ pc = "turn"
  /\ finished' \in BOOLEAN
  /\ current_turn' = current_turn + 1
  /\ broadcast' = "status"
  /\ pc' = "log"
  /\ UNCHANGED <<turn, next, expired, messages, playerVars, clientVars, logger>>

\* ParseAction of an answer without an object "data" throws; nothing catches it.
ParseThrows ==
  /\ pc = "turn"
  /\ \E p \in Players : messages[p] # None
  /\ pc' = "crashed"
  /\ UNCHANGED <<broadcast, turn, current_turn, finished, next, expired, messages,
                 playerVars, clientVars, logger>>

\* Log of the start, of each status and of the end; then what follows it.
Log ==
  /\ pc = "log" /\ logger
  /\ IF broadcast = "start" \/ (broadcast = "status" /\ (finished \/ turn = MaxTurns))
     THEN NextTurn(current_turn)
     ELSE /\ pc' = IF broadcast = "end" THEN "over" ELSE "broadcast"
          /\ UNCHANGED <<broadcast, turn, expired, messages, future, heard>>
  /\ UNCHANGED <<current_turn, finished, next, waiting_rounds, waiting_messages,
                 answered, clientVars, logger>>

LogThrows ==
  /\ pc = "log" /\ ~logger
  /\ pc' = "crashed"
  /\ UNCHANGED <<broadcast, turn, current_turn, finished, next, expired, messages,
                 playerVars, clientVars, logger>>

-----------------------------------------------------------------------------
MatchStep == Write \/ WriteThrows \/ Broadcasted \/ GetRoundMessageAsync
               \/ Collect \/ ProcessTurn \/ ParseThrows \/ Log \/ LogThrows

Next ==
  \/ MatchStep \/ Expire \/ RedisDisconnects
  \/ \E p \in Players : \/ \E r \in Turns \cup {NoRound} : PlayerSends(p, r)
                        \/ ProcessMessage(p)
                        \/ \E state \in {"stuck", "left"} : PlayerFails(p, state)

Spec == Init /\ [][Next]_vars

\* The thread of the match runs and its clock advances; players owe nothing.
FairSpec == Spec /\ WF_vars(MatchStep) /\ WF_vars(Expire)

-----------------------------------------------------------------------------
(* Properties.                                                             *)

\* A turn is played with messages of the right player for the right round,
\* however late, duplicated or out of place the others are.
TurnUsesItsAnswers ==
  \A p \in Players : messages[p] # None => messages[p].from = p /\ messages[p].round = turn

WasCollected(p) == pc = "turn" \/ (pc = "collect" /\ p < next)

\* A player that answers after its promise is registered and before the timeout
\* does not miss the turn, whatever order the players are waited for in, and
\* nobody misses a turn before the timeout.
MissedMeansLate ==
  \A p \in Players :
    WasCollected(p) /\ messages[p] = None => expired /\ p \notin heard

\* The first answer counts: set_value is never called twice for one promise.
FirstAnswerCounts ==
  [][\A p \in Players : future[p] # None => future'[p] \in {future[p], None}]_vars

\* player.cpp:15,25: the promise of a missed turn stays, and an answer that comes
\* turns later still meets it.  A player has an open promise for each round it was
\* asked for and did not answer since then, whatever it sent before, and for no
\* other; and it has been told of all of them.
UnansweredStayOpen ==
  pc # "crashed" => \A p \in Players : /\ waiting_rounds[p] = Asked(p) \ answered[p]
                                       /\ \A t \in Asked(p) : t <= announced[p]

\* match.h:29-30: "Waits UP TO time_span millisecond for messages with given
\* round from all players. If no such message is received nullptr is assigned."
\* No answer that was received sits in waiting_messages_ while the promise of
\* its round is still waited for.
NoAnswerIsPassedOver ==
  \A p \in Players : waiting_messages[p] \cap waiting_rounds[p] = {}

\* protocol.md:41-42: "If there is no message received [...] no action is taken
\* and snake continues to move": the match does not need a player to stay.
MatchSurvivesItsPlayers == pc = "crashed" => ~logger

\* Every match ends, whether its players answer or not, unless one that stays
\* connected stops reading: the Broadcast to it holds up all others for ever.
MatchEnds ==
  \/ <>(pc \in {"over", "crashed"})
  \/ <>[](pc = "broadcast" /\ peer[next] = "stuck")
=============================================================================
