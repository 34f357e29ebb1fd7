------------------------ MODULE RoundBasedMatch_proofs ------------------------
(***************************************************************************)
(* Safety of the rounds of a match, for any number of turns, of players    *)
(* up to four, and of messages they send.                                  *)
(***************************************************************************)
EXTENDS RoundBasedMatch, SequenceTheorems, TLAPS

\* The loop variable of StartGame and current_turn_: they differ between
\* ProcessTurn and the next turn only.
LoopInv ==
  /\ pc \in {"ask", "collect", "turn"} => turn \in Turns /\ current_turn = turn
  /\ pc \in {"broadcast", "sent", "log"} /\ broadcast = "start" => turn = 1 /\ current_turn = 1
  /\ pc \in {"broadcast", "sent", "log"} /\ broadcast = "status" =>
       turn \in Turns /\ current_turn = turn + 1
  /\ pc \in {"broadcast", "sent"} /\ broadcast = "status" => turn < MaxTurns
  /\ pc \in {"sent", "log", "turn"} => next = 1

\* Everybody has been told of the round that is asked next.
Told ==
  \/ pc = "sent" /\ broadcast # "end"
  \/ pc = "log" /\ broadcast = "start"
  \/ pc \in {"ask", "collect", "turn"}

\* The players that have been told of the round that is asked next.
ToldInv ==
  /\ pc = "broadcast" /\ broadcast # "end" => \A p \in 1..next - 1 : announced[p] = current_turn
  /\ Told => \A p \in Players : announced[p] = current_turn

\* What is on the wire of a player, what its promise got and what was collected
\* comes from this player, the latter two for this turn.
SenderInv ==
  \A p \in Players :
    /\ \A i \in 1..Len(wire[p]) : wire[p][i].from = p
    /\ future[p] # None => future[p].from = p /\ future[p].round = turn

\* A promise of this turn that is open has no value, and there is none before it
\* is registered.
PromiseInv ==
  /\ \A p \in Players : turn \in waiting_rounds[p] => future[p] = None
  /\ pc \in {"broadcast", "sent", "log"} /\ broadcast = "start" =>
       \A p \in Players : waiting_rounds[p] = {}
  /\ pc = "ask" => \A p \in next..NumPlayers : turn \notin waiting_rounds[p] /\ future[p] = None

\* Only answers to a round that was asked for count as such: asking for the next
\* one opens a promise nobody has answered.
AnsweredInv == pc # "crashed" => \A p \in Players : answered[p] \subseteq Asked(p)

\* Whoever was heard in time has its value in its future.
HeardInv == \A p \in heard : future[p] # None

MatchInv ==
  /\ TypeOK
  /\ LoopInv
  /\ ToldInv
  /\ SenderInv
  /\ PromiseInv
  /\ HeardInv
  /\ TurnUsesItsAnswers
  /\ MissedMeansLate
  /\ AnsweredInv
  /\ UnansweredStayOpen

-----------------------------------------------------------------------------
(* Players, turns and messages.                                            *)

LEMMA PlayerFacts ==
  /\ NumPlayers \in Nat /\ 1 \in Players
  /\ Players \subseteq Nat
  /\ 1 \in Turns /\ MaxTurns \in Nat
  BY MatchAssumption DEF Players, Turns

LEMMA NoneIsNoMessage == None \notin Message /\ \A m \in Message : m # None /\ m.from \in Players
<1>1. \A m \in Message : m.from \in Players
  BY DEF Message
<1>2. 0 \notin Players
  BY DEF Players
<1>3. None.from = 0
  BY DEF None
<1> QED
  BY <1>1, <1>2, <1>3

LEMMA MatchInvInit == Init => MatchInv
<1> SUFFICES ASSUME Init PROVE MatchInv
  OBVIOUS
<1> USE MatchAssumption, PlayerFacts DEF Init
<1>1. TypeOK
  <2>1. wire \in [Players -> Seq(Message)]
    BY EmptySeq
  <2>2. /\ sends \in [Players -> 0..MaxSends] /\ announced \in [Players -> 0..MaxTurns]
        /\ turn \in 1..MaxTurns + 1 /\ current_turn \in 1..MaxTurns + 1
    OBVIOUS
  <2>3. /\ waiting_rounds \in [Players -> SUBSET Turns]
        /\ waiting_messages \in [Players -> SUBSET Turns]
        /\ answered \in [Players -> SUBSET Turns]
        /\ peer \in [Players -> {"up", "stuck", "left"}]
        /\ future \in [Players -> Message \cup {None}] /\ messages \in [Players -> Message \cup {None}]
    BY DEF Nobody
  <2> QED
    BY <2>1, <2>2, <2>3 DEF TypeOK, Pc
<1>2. LoopInv /\ ToldInv /\ HeardInv /\ PromiseInv
  BY DEF LoopInv, ToldInv, Told, HeardInv, PromiseInv
<1>3. SenderInv
  <2>1. \A p \in Players : Len(wire[p]) = 0 /\ future[p] = None
    BY EmptySeq DEF Nobody
  <2> QED
    BY <2>1 DEF SenderInv
<1>4. TurnUsesItsAnswers /\ MissedMeansLate
  BY DEF TurnUsesItsAnswers, MissedMeansLate, WasCollected, Nobody
<1>5. \A p \in Players : Asked(p) = {}
  BY DEF Asked, Turns
<1>6. AnsweredInv /\ UnansweredStayOpen
  BY <1>5 DEF AnsweredInv, UnansweredStayOpen
<1> QED
  BY <1>1, <1>2, <1>3, <1>4, <1>6 DEF MatchInv

-----------------------------------------------------------------------------
(* The steps.                                                              *)

\* A step that asks for nothing and handles no message leaves the promises as they
\* are to what was asked for and answered.
LEMMA PromisesKept ==
  ASSUME MatchInv,
         UNCHANGED <<waiting_rounds, answered>>,
         pc' # "crashed" => pc # "crashed",
         \A p \in Players : \A t \in Turns : t \in Asked(p)' <=> t \in Asked(p),
         \A p \in Players : \A t \in Asked(p) : t <= announced[p] => t <= announced'[p]
  PROVE  AnsweredInv' /\ UnansweredStayOpen'
<1>1. \A p \in Players : Asked(p)' = Asked(p)
  BY DEF Asked
<1>2. AnsweredInv'
  BY <1>1 DEF MatchInv, AnsweredInv
<1>3. UnansweredStayOpen'
  BY <1>1 DEF MatchInv, UnansweredStayOpen
<1> QED
  BY <1>2, <1>3

\* Players that send or fail, and Redis, touch neither the match nor a promise.
LEMMA MatchInvClients ==
  MatchInv /\ (RedisDisconnects
                 \/ \E p \in Players : \/ \E r \in Turns \cup {NoRound} : PlayerSends(p, r)
                                       \/ \E state \in {"stuck", "left"} : PlayerFails(p, state))
    => MatchInv'
<1> SUFFICES ASSUME MatchInv,
                    \/ RedisDisconnects
                    \/ \E p \in Players : \/ \E r \in Turns \cup {NoRound} : PlayerSends(p, r)
                                          \/ \E state \in {"stuck", "left"} : PlayerFails(p, state)
             PROVE  MatchInv'
  OBVIOUS
<1>1. UNCHANGED <<matchVars, playerVars, announced>>
  BY DEF RedisDisconnects, PlayerSends, PlayerFails, clientVars
<1> USE DEF matchVars, playerVars
<1> DEFINE WireInv == /\ wire \in [Players -> Seq(Message)] /\ sends \in [Players -> 0..MaxSends]
                      /\ \A p \in Players : \A i \in 1..Len(wire[p]) : wire[p][i].from = p
<1>2. WireInv'
  <2>1. CASE UNCHANGED <<wire, sends>>
    BY <2>1 DEF MatchInv, TypeOK, SenderInv
  <2>2. ASSUME NEW p \in Players, NEW r \in Turns \cup {NoRound}, PlayerSends(p, r)
        PROVE  WireInv'
    <3> DEFINE m == [from |-> p, round |-> r, id |-> sends[p] + 1]
    <3>1. sends[p] \in 0..MaxSends /\ sends[p] < MaxSends
      BY <2>2 DEF PlayerSends, MatchInv, TypeOK
    <3>2. m \in Message /\ m.from = p
      BY <3>1, MatchAssumption DEF Message
    <3>3. wire' = [wire EXCEPT ![p] = Append(@, m)] /\ sends' = [sends EXCEPT ![p] = @ + 1]
      BY <2>2 DEF PlayerSends
    <3>4. wire \in [Players -> Seq(Message)] /\ sends \in [Players -> 0..MaxSends]
      BY DEF MatchInv, TypeOK
    <3> HIDE DEF m
    <3>5. /\ Append(wire[p], m) \in Seq(Message) /\ Len(Append(wire[p], m)) = Len(wire[p]) + 1
          /\ \A i \in 1..Len(wire[p]) : Append(wire[p], m)[i] = wire[p][i]
          /\ Append(wire[p], m)[Len(wire[p]) + 1] = m /\ Len(wire[p]) \in Nat
      BY <3>2, <3>4, AppendProperties, LenProperties
    <3>6. \A i \in 1..Len(wire'[p]) : wire'[p][i].from = p
      <4>1. wire'[p] = Append(wire[p], m)
        BY <3>3, <3>4
      <4>2. \A i \in 1..Len(wire[p]) : wire[p][i].from = p
        BY DEF MatchInv, SenderInv
      <4>3. \A i \in 1..Len(wire[p]) + 1 : i \in 1..Len(wire[p]) \/ i = Len(wire[p]) + 1
        BY <3>5
      <4> QED
        BY <3>2, <3>5, <4>1, <4>2, <4>3
    <3>7. \A q \in Players : q # p => wire'[q] = wire[q]
      BY <3>3, <3>4
    <3>8. wire' \in [Players -> Seq(Message)]
      BY <3>3, <3>4, <3>5
    <3>9. sends' \in [Players -> 0..MaxSends]
      BY <3>1, <3>3, <3>4, MatchAssumption
    <3>10. \A q \in Players : \A i \in 1..Len(wire[q]) : wire[q][i].from = q
      BY DEF MatchInv, SenderInv
    <3> QED
      BY <3>6, <3>7, <3>8, <3>9, <3>10
  <2> QED
    BY <2>1, <2>2 DEF RedisDisconnects, PlayerFails, clientVars
<1>3. peer' \in [Players -> {"up", "stuck", "left"}] /\ logger' \in BOOLEAN
  <2>1. peer \in [Players -> {"up", "stuck", "left"}] /\ logger \in BOOLEAN
    BY DEF MatchInv, TypeOK
  <2>2. CASE RedisDisconnects
    BY <2>1, <2>2 DEF RedisDisconnects, clientVars
  <2>3. ASSUME NEW p \in Players, NEW r \in Turns \cup {NoRound}, PlayerSends(p, r)
        PROVE  UNCHANGED <<peer, logger>>
    BY <2>3 DEF PlayerSends
  <2>4. ASSUME NEW p \in Players, NEW state \in {"stuck", "left"}, PlayerFails(p, state)
        PROVE  peer' = [peer EXCEPT ![p] = state] /\ UNCHANGED logger
    BY <2>4 DEF PlayerFails
  <2> QED
    BY <2>1, <2>2, <2>3, <2>4
<1>4. TypeOK'
  BY <1>1, <1>2, <1>3 DEF MatchInv, TypeOK
<1>5. (LoopInv /\ ToldInv /\ PromiseInv /\ HeardInv)'
  BY <1>1 DEF MatchInv, LoopInv, ToldInv, Told, PromiseInv, HeardInv
<1>6. SenderInv'
  BY <1>1, <1>2 DEF MatchInv, SenderInv
<1>7. (TurnUsesItsAnswers /\ MissedMeansLate)'
  BY <1>1 DEF MatchInv, TurnUsesItsAnswers, MissedMeansLate, WasCollected
<1>8. (AnsweredInv /\ UnansweredStayOpen)'
  BY <1>1, PromisesKept DEF Asked
<1> QED
  BY <1>4, <1>5, <1>6, <1>7, <1>8 DEF MatchInv

LEMMA MatchInvProcessMessage ==
  ASSUME MatchInv, NEW p \in Players, ProcessMessage(p)
  PROVE  MatchInv'
<1> DEFINE m == Head(wire[p])
<1>1. /\ wire' = [wire EXCEPT ![p] = Tail(@)] /\ wire[p] # <<>> /\ pc # "crashed"
      /\ answered' = [answered EXCEPT ![p] = @ \cup (Asked(p) \cap {m.round})]
      /\ UNCHANGED <<matchVars, sends, announced, peer, logger>>
  BY DEF ProcessMessage
<1> USE DEF matchVars
<1>2. /\ m \in Message /\ m.from = p /\ Tail(wire[p]) \in Seq(Message)
      /\ \A i \in 1..Len(Tail(wire[p])) : Tail(wire[p])[i].from = p
  <2>1. wire[p] \in Seq(Message) /\ wire[p] # <<>>
    BY <1>1 DEF MatchInv, TypeOK
  <2>2. /\ Len(wire[p]) \in Nat \ {0} /\ Head(wire[p]) = wire[p][1]
        /\ Head(wire[p]) \in Message /\ Tail(wire[p]) \in Seq(Message)
        /\ Len(Tail(wire[p])) = Len(wire[p]) - 1
        /\ \A i \in 1..Len(Tail(wire[p])) : Tail(wire[p])[i] = wire[p][i + 1]
    BY <2>1, HeadTailProperties, EmptySeq
  <2>3. \A i \in 1..Len(wire[p]) : wire[p][i].from = p
    BY DEF MatchInv, SenderInv
  <2>4. \A i \in 1..Len(Tail(wire[p])) : i + 1 \in 1..Len(wire[p])
    BY <2>2
  <2> QED
    BY <2>2, <2>3, <2>4
<1> HIDE DEF m
<1>3. m # None /\ m.round \in Turns \cup {NoRound}
  BY <1>2, NoneIsNoMessage DEF Message
<1>4. /\ wire' \in [Players -> Seq(Message)]
      /\ \A q \in Players : \A i \in 1..Len(wire'[q]) : wire'[q][i].from = q
  <2>1. wire \in [Players -> Seq(Message)]
    BY DEF MatchInv, TypeOK
  <2>2. wire'[p] = Tail(wire[p]) /\ \A q \in Players : q # p => wire'[q] = wire[q]
    BY <1>1, <2>1
  <2>3. wire' \in [Players -> Seq(Message)]
    BY <1>1, <1>2, <2>1
  <2>4. ASSUME NEW q \in Players, NEW i \in 1..Len(wire'[q]) PROVE wire'[q][i].from = q
    <3>1. CASE q = p
      BY <1>2, <2>2, <3>1
    <3>2. CASE q # p
      BY <2>2, <3>2 DEF MatchInv, SenderInv
    <3> QED
      BY <3>1, <3>2
  <2> QED
    BY <2>3, <2>4
<1>a. /\ answered' \in [Players -> SUBSET Turns]
      /\ \A q \in Players : Asked(q)' = Asked(q)
      /\ answered'[p] = answered[p] \cup (Asked(p) \cap {m.round})
      /\ \A q \in Players : q # p => answered'[q] = answered[q]
  <2>1. answered \in [Players -> SUBSET Turns]
    BY DEF MatchInv, TypeOK
  <2>2. \A q \in Players : Asked(q)' = Asked(q)
    BY <1>1 DEF Asked
  <2>3. Asked(p) \subseteq Turns
    BY DEF Asked
  <2> QED
    BY <1>1, <2>1, <2>2, <2>3
<1>b. AnsweredInv'
  <2>1. \A q \in Players : answered[q] \subseteq Asked(q)
    BY <1>1 DEF MatchInv, AnsweredInv
  <2> QED
    BY <1>a, <2>1 DEF AnsweredInv
<1>5. CASE m.round \in waiting_rounds[p]
  <2>1. /\ waiting_messages' = waiting_messages
        /\ waiting_rounds' = [waiting_rounds EXCEPT ![p] = @ \ {m.round}]
        /\ future' = IF m.round = turn THEN [future EXCEPT ![p] = m] ELSE future
        /\ heard' = IF m.round = turn /\ ~expired THEN heard \cup {p} ELSE heard
    <3>1. m.round # NoRound
      BY <1>5 DEF MatchInv, TypeOK, Turns, NoRound
    <3> QED
      BY <1>5, <3>1 DEF ProcessMessage, Fulfil, SetValue, m
  <2>2. /\ future \in [Players -> Message \cup {None}] /\ heard \subseteq Players
        /\ waiting_rounds \in [Players -> SUBSET Turns]
    BY DEF MatchInv, TypeOK
  <2>3. \A q \in Players : future'[q] = IF q = p /\ m.round = turn THEN m ELSE future[q]
    BY <2>1, <2>2
  <2>4. /\ waiting_rounds'[p] = waiting_rounds[p] \ {m.round}
        /\ \A q \in Players : q # p => waiting_rounds'[q] = waiting_rounds[q]
    BY <2>1, <2>2
  <2>5. /\ future' \in [Players -> Message \cup {None}] /\ heard' \subseteq Players
        /\ waiting_rounds' \in [Players -> SUBSET Turns]
    BY <1>2, <2>1, <2>2
  <2>6. TypeOK'
    BY <1>1, <1>4, <1>a, <2>1, <2>5 DEF MatchInv, TypeOK
  <2>7. SenderInv'
    BY <1>1, <1>2, <1>4, <2>3 DEF MatchInv, SenderInv
  <2>8. PromiseInv'
    <3>1. \A q \in Players : turn \in waiting_rounds'[q] => future'[q] = None
      BY <2>3, <2>4 DEF MatchInv, PromiseInv
    <3>2. ASSUME pc = "ask", NEW q \in next..NumPlayers
          PROVE  turn \notin waiting_rounds'[q] /\ future'[q] = None
      <4>1. q \in Players /\ turn \notin waiting_rounds[q] /\ future[q] = None
        BY <3>2, PlayerFacts DEF MatchInv, TypeOK, PromiseInv, Players
      <4> QED
        BY <1>5, <2>3, <2>4, <4>1
    <3>3. ASSUME pc \in {"broadcast", "sent", "log"}, broadcast = "start", NEW q \in Players
          PROVE  waiting_rounds'[q] = {}
      BY <2>4, <3>3 DEF MatchInv, PromiseInv
    <3> QED
      BY <1>1, <3>1, <3>2, <3>3 DEF PromiseInv
  <2>9. HeardInv'
    BY <1>3, <2>1, <2>2, <2>3 DEF MatchInv, HeardInv
  <2>10. MissedMeansLate'
    BY <1>1, <2>1 DEF MatchInv, MissedMeansLate, WasCollected
  <2>11. UnansweredStayOpen'
    <3>1. /\ \A q \in Players : waiting_rounds[q] = Asked(q) \ answered[q]
          /\ \A q \in Players : \A t \in Asked(q) : t <= announced[q]
      BY <1>1 DEF MatchInv, UnansweredStayOpen
    <3>2. waiting_rounds'[p] = Asked(p) \ answered'[p]
      BY <1>5, <1>a, <2>4, <3>1
    <3>3. \A q \in Players : waiting_rounds'[q] = Asked(q)' \ answered'[q]
      BY <1>a, <2>4, <3>1, <3>2
    <3> QED
      BY <1>1, <1>a, <3>1, <3>3 DEF UnansweredStayOpen
  <2>12. (LoopInv /\ ToldInv /\ TurnUsesItsAnswers)'
    BY <1>1 DEF MatchInv, LoopInv, ToldInv, Told, TurnUsesItsAnswers
  <2> QED
    BY <1>b, <2>6, <2>7, <2>8, <2>9, <2>10, <2>11, <2>12 DEF MatchInv
<1>6. CASE m.round \notin waiting_rounds[p]
  <2>1. /\ future' = future /\ waiting_rounds' = waiting_rounds /\ heard' = heard
        /\ waiting_messages' \in [Players -> SUBSET Turns]
    <3>1. waiting_messages \in [Players -> SUBSET Turns]
      BY DEF MatchInv, TypeOK
    <3>2. \/ /\ UNCHANGED <<future, waiting_rounds, heard>>
             /\ m.round \in Turns
             /\ waiting_messages' = [waiting_messages EXCEPT ![p] = @ \cup {m.round}]
          \/ UNCHANGED <<future, waiting_rounds, waiting_messages, heard>>
      BY <1>3, <1>6 DEF ProcessMessage, m
    <3> QED
      BY <3>1, <3>2
  <2>2. TypeOK'
    BY <1>1, <1>4, <1>a, <2>1 DEF MatchInv, TypeOK
  <2>3. SenderInv'
    BY <1>1, <1>4, <2>1 DEF MatchInv, SenderInv
  <2>4. (LoopInv /\ ToldInv /\ PromiseInv /\ HeardInv)'
    BY <1>1, <2>1 DEF MatchInv, LoopInv, ToldInv, Told, PromiseInv, HeardInv
  <2>5. (TurnUsesItsAnswers /\ MissedMeansLate)'
    BY <1>1, <2>1 DEF MatchInv, TurnUsesItsAnswers, MissedMeansLate, WasCollected
  <2>6. UnansweredStayOpen'
    <3>1. /\ \A q \in Players : waiting_rounds[q] = Asked(q) \ answered[q]
          /\ \A q \in Players : \A t \in Asked(q) : t <= announced[q]
      BY <1>1 DEF MatchInv, UnansweredStayOpen
    <3>2. answered'[p] = answered[p]
      BY <1>6, <1>a, <3>1
    <3>3. \A q \in Players : waiting_rounds'[q] = Asked(q)' \ answered'[q]
      BY <1>a, <2>1, <3>1, <3>2
    <3> QED
      BY <1>1, <1>a, <3>1, <3>3 DEF UnansweredStayOpen
  <2> QED
    BY <1>b, <2>2, <2>3, <2>4, <2>5, <2>6 DEF MatchInv
<1> QED
  BY <1>5, <1>6

\* A step of a loop over players_ leaves the loop after the last one.
LEMMA AdvanceFacts ==
  ASSUME MatchInv, NEW after \in Pc, Advance(after)
  PROVE  /\ pc' \in Pc /\ next' \in Players /\ next \in Players
         /\ next = NumPlayers => next' = 1 /\ pc' = after
         /\ next # NumPlayers => next' = next + 1 /\ pc' = pc
         /\ \A p \in Players : p < next \/ p = next \/ p \in next + 1..NumPlayers
         /\ next = NumPlayers => \A p \in Players : p < next \/ p = next
  BY PlayerFacts DEF MatchInv, TypeOK, Advance, Players

LEMMA MatchInvWrite == MatchInv /\ Write => MatchInv'
<1> SUFFICES ASSUME MatchInv, Write PROVE MatchInv'
  OBVIOUS
<1>1. /\ pc = "broadcast" /\ Advance("sent")
      /\ announced' = IF broadcast = "end" THEN announced
                      ELSE [announced EXCEPT ![next] = current_turn]
      /\ UNCHANGED <<broadcast, turn, current_turn, finished, expired, messages,
                     playerVars, wire, sends, peer, logger>>
  BY DEF Write
<1> USE DEF playerVars
<1>2. /\ pc' \in Pc /\ next' \in Players /\ next \in Players
      /\ next = NumPlayers => next' = 1 /\ pc' = "sent"
      /\ next # NumPlayers => next' = next + 1 /\ pc' = "broadcast"
      /\ \A p \in Players : p < next \/ p = next \/ p \in next + 1..NumPlayers
      /\ next = NumPlayers => \A p \in Players : p < next \/ p = next
  <2>1. "sent" \in Pc
    BY DEF Pc
  <2> QED
    BY <1>1, <2>1, AdvanceFacts
<1>3. broadcast # "end" => current_turn \in Turns /\ turn <= current_turn /\ turn \in Nat
  BY <1>1, PlayerFacts DEF MatchInv, TypeOK, LoopInv, Turns
<1>4. announced \in [Players -> 0..MaxTurns] /\ announced' \in [Players -> 0..MaxTurns]
  <2>1. Turns \subseteq 0..MaxTurns
    BY PlayerFacts DEF Turns
  <2> QED
    BY <1>1, <1>3, <2>1 DEF MatchInv, TypeOK
<1>5. \A p \in Players : announced'[p] = IF broadcast # "end" /\ p = next THEN current_turn ELSE announced[p]
  BY <1>1, <1>4
<1>6. TypeOK'
  BY <1>1, <1>2, <1>4 DEF MatchInv, TypeOK
<1>7. LoopInv'
  BY <1>1, <1>2 DEF MatchInv, LoopInv
<1>8. ToldInv'
  <2>1. CASE next = NumPlayers
    BY <1>1, <1>2, <1>5, <2>1, PlayerFacts DEF MatchInv, ToldInv, Told, Players
  <2>2. CASE next # NumPlayers
    <3>1. ASSUME broadcast # "end", NEW p \in 1..next' - 1 PROVE announced'[p] = current_turn
      <4>1. p \in Players /\ (p \in 1..next - 1 \/ p = next)
        BY <1>2, <2>2, PlayerFacts DEF Players
      <4> QED
        BY <1>1, <1>5, <3>1, <4>1 DEF MatchInv, ToldInv, Told
    <3> QED
      BY <1>1, <1>2, <2>2, <3>1 DEF ToldInv, Told
  <2> QED
    BY <2>1, <2>2
<1>9. (AnsweredInv /\ UnansweredStayOpen)'
  <2>1. \A p \in Players : \A t \in Turns : t \in Asked(p)' <=> t \in Asked(p)
    BY <1>1, <1>2 DEF Asked
  <2>2. ASSUME NEW p \in Players, NEW t \in Asked(p), t <= announced[p]
        PROVE  t <= announced'[p]
    <3>1. t \in Nat /\ turn \in Nat /\ t <= turn
      BY PlayerFacts DEF Asked, Turns, MatchInv, TypeOK
    <3>2. broadcast # "end" => t <= current_turn
      BY <1>3, <3>1, PlayerFacts DEF Turns
    <3> QED
      BY <1>5, <2>2, <3>2
  <2> QED
    BY <1>1, <2>1, <2>2, PromisesKept
<1>10. PromiseInv'
  BY <1>1, <1>2 DEF MatchInv, PromiseInv
<1>11. (SenderInv /\ HeardInv /\ TurnUsesItsAnswers)'
  BY <1>1 DEF MatchInv, SenderInv, HeardInv, TurnUsesItsAnswers
<1>12. MissedMeansLate'
  BY <1>1, <1>2 DEF MissedMeansLate, WasCollected
<1> QED
  BY <1>6, <1>7, <1>8, <1>9, <1>10, <1>11, <1>12 DEF MatchInv

LEMMA MatchInvCrash == MatchInv /\ (WriteThrows \/ ParseThrows \/ LogThrows) => MatchInv'
<1> SUFFICES ASSUME MatchInv, WriteThrows \/ ParseThrows \/ LogThrows PROVE MatchInv'
  OBVIOUS
<1>1. pc' = "crashed" /\ UNCHANGED <<broadcast, turn, current_turn, finished, next, expired, messages,
                                     playerVars, clientVars, logger>>
  BY DEF WriteThrows, ParseThrows, LogThrows
<1>2. TypeOK'
  BY <1>1 DEF MatchInv, TypeOK, Pc, playerVars, clientVars
<1>3. (LoopInv /\ ToldInv /\ SenderInv /\ PromiseInv /\ HeardInv)'
  BY <1>1 DEF MatchInv, LoopInv, ToldInv, Told, SenderInv, PromiseInv, HeardInv, playerVars, clientVars
<1>4. (TurnUsesItsAnswers /\ MissedMeansLate)'
  BY <1>1 DEF MatchInv, TurnUsesItsAnswers, MissedMeansLate, WasCollected, playerVars, clientVars
<1>5. (AnsweredInv /\ UnansweredStayOpen)'
  BY <1>1 DEF AnsweredInv, UnansweredStayOpen
<1> QED
  BY <1>2, <1>3, <1>4, <1>5 DEF MatchInv

\* The head of the loop of StartGame, reached with the round that was announced.
LEMMA MatchInvNextTurn ==
  ASSUME MatchInv, pc \in {"sent", "log"}, broadcast # "end",
         broadcast = "status" /\ pc = "log" => finished \/ turn = MaxTurns,
         pc = "sent" => broadcast = "status",
         NextTurn(current_turn),
         UNCHANGED <<current_turn, finished, next, waiting_rounds, waiting_messages, answered,
                     clientVars, logger>>
  PROVE  MatchInv'
<1> USE DEF clientVars
<1>1. /\ turn' = current_turn /\ messages' = Nobody /\ future' = Nobody /\ heard' = {}
      /\ \A p \in Players : messages'[p] = None /\ future'[p] = None
  BY DEF NextTurn, Nobody
<1>2. /\ turn \in Nat /\ current_turn \in Nat /\ turn <= current_turn
      /\ next = 1 /\ \A p \in Players : p \in next..NumPlayers
  BY PlayerFacts DEF MatchInv, TypeOK, LoopInv, Turns, Players
<1>3. \/ /\ current_turn <= MaxTurns /\ pc' = "ask" /\ expired' = FALSE /\ broadcast' = broadcast
         /\ pc = "sent" \/ broadcast = "start"
      \/ pc' = "broadcast" /\ broadcast' = "end" /\ expired' = expired
  <2>1. (current_turn <= MaxTurns /\ ~finished) \/ (pc' = "broadcast" /\ broadcast' = "end" /\ expired' = expired)
    BY DEF NextTurn
  <2>2. ASSUME current_turn <= MaxTurns, ~finished, pc = "log" PROVE broadcast = "start"
    BY <2>2, PlayerFacts DEF MatchInv, TypeOK, LoopInv, Turns
  <2> QED
    BY <2>1, <2>2 DEF NextTurn
<1>4. TypeOK'
  BY <1>1, <1>3 DEF MatchInv, TypeOK, Pc, Nobody
<1>5. LoopInv'
  BY <1>1, <1>2, <1>3, PlayerFacts DEF MatchInv, TypeOK, LoopInv, Turns
<1>6. ToldInv'
  BY <1>1, <1>3, <1>2 DEF MatchInv, ToldInv, Told
<1>7. SenderInv'
  BY <1>1 DEF MatchInv, SenderInv
<1>8. PromiseInv'
  <2>1. ASSUME pc' = "ask", NEW p \in next..NumPlayers PROVE current_turn \notin waiting_rounds[p]
    <3>1. p \in Players
      BY <1>2, <2>1, PlayerFacts DEF Players
    <3>2. CASE broadcast = "start"
      BY <3>1, <3>2 DEF MatchInv, PromiseInv
    <3>3. CASE broadcast = "status"
      <4>1. turn < current_turn
        BY <1>2, <3>3 DEF MatchInv, LoopInv
      <4>2. waiting_rounds[p] \subseteq Asked(p)
        BY <3>1 DEF MatchInv, UnansweredStayOpen
      <4>3. \A t \in Asked(p) : t <= turn
        BY <1>2, PlayerFacts DEF Asked, Turns
      <4> QED
        BY <1>2, <4>1, <4>2, <4>3
    <3> QED
      BY <3>2, <3>3 DEF MatchInv, TypeOK
  <2>2. \A p \in next..NumPlayers : future'[p] = None
    BY <1>1, <1>2, PlayerFacts DEF Players
  <2> QED
    BY <1>1, <1>3, <2>1, <2>2 DEF PromiseInv
<1>9. (AnsweredInv /\ UnansweredStayOpen)'
  <2>1. \A p \in Players : \A t \in Turns : t \in Asked(p)' <=> t < current_turn
    BY <1>1, <1>2, <1>3, PlayerFacts DEF Asked
  <2>2. \A p \in Players : \A t \in Turns : t \in Asked(p) <=> t < current_turn
    <3>1. CASE broadcast = "start"
      BY <3>1 DEF MatchInv, LoopInv, Asked
    <3>2. CASE broadcast = "status"
      BY <1>2, <3>2, PlayerFacts DEF MatchInv, LoopInv, Asked, Turns
    <3> QED
      BY <3>1, <3>2 DEF MatchInv, TypeOK
  <2> QED
    BY <2>1, <2>2, PromisesKept
<1>10. (HeardInv /\ TurnUsesItsAnswers /\ MissedMeansLate)'
  BY <1>1, <1>3 DEF HeardInv, TurnUsesItsAnswers, MissedMeansLate, WasCollected
<1> QED
  BY <1>4, <1>5, <1>6, <1>7, <1>8, <1>9, <1>10 DEF MatchInv

LEMMA MatchInvBroadcasted == MatchInv /\ Broadcasted => MatchInv'
<1> SUFFICES ASSUME MatchInv, Broadcasted PROVE MatchInv'
  OBVIOUS
<1>1. /\ pc = "sent"
      /\ UNCHANGED <<current_turn, finished, next, waiting_rounds, waiting_messages, answered,
                     clientVars, logger>>
  BY DEF Broadcasted
<1>2. CASE broadcast = "status"
  <2>1. turn + 1 = current_turn
    BY <1>1, <1>2 DEF MatchInv, LoopInv
  <2>2. NextTurn(current_turn)
    BY <1>2, <2>1 DEF Broadcasted
  <2> QED
    BY <1>1, <1>2, <2>2, MatchInvNextTurn
<1>3. CASE broadcast # "status"
  <2>1. pc' = "log" /\ UNCHANGED <<broadcast, turn, expired, messages, future, heard>>
    BY <1>3 DEF Broadcasted
  <2>2. TypeOK'
    BY <1>1, <2>1 DEF MatchInv, TypeOK, Pc, clientVars
  <2>3. (LoopInv /\ ToldInv /\ SenderInv /\ PromiseInv /\ HeardInv)'
    BY <1>1, <1>3, <2>1
    DEF MatchInv, LoopInv, ToldInv, Told, SenderInv, PromiseInv, HeardInv, clientVars
  <2>4. (TurnUsesItsAnswers /\ MissedMeansLate)'
    BY <1>1, <2>1 DEF MatchInv, TurnUsesItsAnswers, MissedMeansLate, WasCollected
  <2>5. (AnsweredInv /\ UnansweredStayOpen)'
    <3>1. \A p \in Players : \A t \in Turns : t \in Asked(p)' <=> t \in Asked(p)
      BY <1>1, <1>3, <2>1 DEF Asked
    <3> QED
      BY <1>1, <2>1, <3>1, PromisesKept DEF clientVars
  <2> QED
    BY <2>2, <2>3, <2>4, <2>5 DEF MatchInv
<1> QED
  BY <1>2, <1>3

LEMMA MatchInvLog == MatchInv /\ Log => MatchInv'
<1> SUFFICES ASSUME MatchInv, Log PROVE MatchInv'
  OBVIOUS
<1>1. /\ pc = "log"
      /\ UNCHANGED <<current_turn, finished, next, waiting_rounds, waiting_messages, answered,
                     clientVars, logger>>
  BY DEF Log
<1> DEFINE Leaves == broadcast = "start" \/ (broadcast = "status" /\ (finished \/ turn = MaxTurns))
<1>2. CASE Leaves
  <2>1. NextTurn(current_turn)
    BY <1>2 DEF Log
  <2> QED
    BY <1>1, <1>2, <2>1, MatchInvNextTurn
<1>3. CASE ~Leaves
  <2>1. /\ pc' = IF broadcast = "end" THEN "over" ELSE "broadcast"
        /\ UNCHANGED <<broadcast, turn, expired, messages, future, heard>>
    BY <1>3 DEF Log
  <2>2. broadcast # "start" /\ (broadcast = "status" => turn # MaxTurns)
    BY <1>3
  <2>3. TypeOK'
    BY <1>1, <2>1 DEF MatchInv, TypeOK, Pc, clientVars
  <2>4. LoopInv'
    BY <1>1, <2>1, <2>2, PlayerFacts DEF MatchInv, LoopInv, Turns
  <2>5. ToldInv'
    <3>1. pc' \notin {"sent", "log", "ask", "collect", "turn"} /\ next' = 1
      BY <1>1, <2>1 DEF MatchInv, LoopInv
    <3>2. 1..next' - 1 = {}
      BY <3>1
    <3> QED
      BY <3>1, <3>2 DEF ToldInv, Told
  <2>6. (SenderInv /\ PromiseInv /\ HeardInv)'
    BY <1>1, <2>1, <2>2 DEF MatchInv, SenderInv, PromiseInv, HeardInv, clientVars
  <2>7. (TurnUsesItsAnswers /\ MissedMeansLate)'
    BY <1>1, <2>1 DEF MatchInv, TurnUsesItsAnswers, MissedMeansLate, WasCollected
  <2>8. (AnsweredInv /\ UnansweredStayOpen)'
    <3>1. \A p \in Players : \A t \in Turns : t \in Asked(p)' <=> t \in Asked(p)
      BY <1>1, <2>1, <2>2 DEF Asked
    <3> QED
      BY <1>1, <2>1, <3>1, PromisesKept DEF clientVars
  <2> QED
    BY <2>3, <2>4, <2>5, <2>6, <2>7, <2>8 DEF MatchInv
<1> QED
  BY <1>2, <1>3

LEMMA MatchInvExpire == MatchInv /\ Expire => MatchInv'
<1> SUFFICES ASSUME MatchInv, Expire PROVE MatchInv'
  OBVIOUS
<1>1. /\ expired' = TRUE
      /\ UNCHANGED <<pc, broadcast, turn, current_turn, finished, next, messages,
                     playerVars, clientVars, logger>>
  BY DEF Expire
<1>2. TypeOK'
  BY <1>1 DEF MatchInv, TypeOK, playerVars, clientVars
<1>3. (LoopInv /\ ToldInv /\ SenderInv /\ PromiseInv /\ HeardInv)'
  BY <1>1 DEF MatchInv, LoopInv, ToldInv, Told, SenderInv, PromiseInv, HeardInv, playerVars, clientVars
<1>4. (TurnUsesItsAnswers /\ MissedMeansLate)'
  BY <1>1 DEF MatchInv, TurnUsesItsAnswers, MissedMeansLate, WasCollected, playerVars, clientVars
<1>5. (AnsweredInv /\ UnansweredStayOpen)'
  BY <1>1, PromisesKept DEF Asked, playerVars, clientVars
<1> QED
  BY <1>2, <1>3, <1>4, <1>5 DEF MatchInv

LEMMA MatchInvGetRoundMessageAsync == MatchInv /\ GetRoundMessageAsync => MatchInv'
<1> SUFFICES ASSUME MatchInv, GetRoundMessageAsync PROVE MatchInv'
  OBVIOUS
<1>1. /\ pc = "ask" /\ Advance("collect")
      /\ waiting_rounds' = [waiting_rounds EXCEPT ![next] = @ \cup {turn}]
      /\ UNCHANGED <<broadcast, turn, current_turn, finished, expired, messages,
                     future, waiting_messages, heard, answered, clientVars, logger>>
  BY DEF GetRoundMessageAsync, Registered, RoundAsked
<1> USE DEF clientVars
<1>2. /\ pc' \in Pc /\ next' \in Players /\ next \in Players
      /\ next = NumPlayers => next' = 1 /\ pc' = "collect"
      /\ next # NumPlayers => next' = next + 1 /\ pc' = "ask"
      /\ \A p \in Players : p < next \/ p = next \/ p \in next + 1..NumPlayers
  <2>1. "collect" \in Pc
    BY DEF Pc
  <2> QED
    BY <1>1, <2>1, AdvanceFacts
<1>3. turn \in Turns /\ current_turn = turn /\ waiting_rounds \in [Players -> SUBSET Turns]
  BY <1>1 DEF MatchInv, TypeOK, LoopInv
<1>4. \A p \in Players : waiting_rounds'[p] = IF p = next THEN waiting_rounds[p] \cup {turn}
                                              ELSE waiting_rounds[p]
  BY <1>1, <1>3
<1>5. TypeOK'
  <2>1. waiting_rounds' \in [Players -> SUBSET Turns]
    BY <1>1, <1>2, <1>3
  <2> QED
    BY <1>1, <1>2, <2>1 DEF MatchInv, TypeOK
<1>6. (LoopInv /\ ToldInv)'
  BY <1>1, <1>2 DEF MatchInv, LoopInv, ToldInv, Told
<1>7. (SenderInv /\ HeardInv /\ TurnUsesItsAnswers)'
  BY <1>1 DEF MatchInv, SenderInv, HeardInv, TurnUsesItsAnswers
<1>8. PromiseInv'
  <2>1. future[next] = None
    BY <1>1, <1>2, PlayerFacts DEF MatchInv, TypeOK, PromiseInv, Players
  <2>2. \A p \in Players : turn \in waiting_rounds'[p] => future[p] = None
    BY <1>4, <2>1 DEF MatchInv, PromiseInv
  <2>3. ASSUME pc' = "ask", NEW p \in next'..NumPlayers
        PROVE  turn \notin waiting_rounds'[p] /\ future[p] = None
    <3>1. p \in Players /\ p # next /\ p \in next..NumPlayers
      BY <1>2, <2>3, PlayerFacts DEF Players
    <3> QED
      BY <1>1, <1>4, <3>1 DEF MatchInv, PromiseInv
  <2>4. pc' \notin {"broadcast", "sent", "log"}
    BY <1>2
  <2> QED
    BY <1>1, <2>2, <2>3, <2>4 DEF PromiseInv
<1>9. MissedMeansLate'
  <2>1. \A p \in Players : ~WasCollected(p)'
    BY <1>2, PlayerFacts DEF WasCollected, Players
  <2> QED
    BY <2>1 DEF MissedMeansLate
<1>10. \A p \in Players : Asked(p)' = IF p = next THEN Asked(p) \cup {turn} ELSE Asked(p)
  <2>1. \A p \in Players : \A t \in Turns :
          t \in Asked(p)' <=> t \in Asked(p) \/ (p = next /\ t = turn)
    BY <1>1, <1>2, PlayerFacts DEF Asked, Players
  <2> QED
    BY <1>3, <2>1 DEF Asked
<1>11. \A p \in Players : /\ answered[p] \subseteq Asked(p)
                         /\ waiting_rounds[p] = Asked(p) \ answered[p]
                         /\ \A t \in Asked(p) : t <= announced[p]
  BY <1>1 DEF MatchInv, AnsweredInv, UnansweredStayOpen
<1>12. AnsweredInv'
  BY <1>1, <1>10, <1>11 DEF AnsweredInv
<1>13. UnansweredStayOpen'
  <2>1. turn \notin Asked(next) /\ announced[next] = turn /\ turn <= turn
    BY <1>1, <1>2, <1>3, PlayerFacts DEF MatchInv, ToldInv, Told, Asked, Players, Turns
  <2>2. \A p \in Players : waiting_rounds'[p] = Asked(p)' \ answered'[p]
    BY <1>1, <1>4, <1>10, <1>11, <2>1
  <2>3. \A p \in Players : \A t \in Asked(p)' : t <= announced'[p]
    BY <1>1, <1>10, <1>11, <2>1
  <2> QED
    BY <2>2, <2>3 DEF UnansweredStayOpen
<1> QED
  BY <1>5, <1>6, <1>7, <1>8, <1>9, <1>12, <1>13 DEF MatchInv

LEMMA MatchInvCollect == MatchInv /\ Collect => MatchInv'
<1> SUFFICES ASSUME MatchInv, Collect PROVE MatchInv'
  OBVIOUS
<1>1. /\ pc = "collect" /\ Advance("turn") /\ (future[next] # None \/ expired)
      /\ messages' = [messages EXCEPT ![next] = future[next]]
      /\ UNCHANGED <<broadcast, turn, current_turn, finished, expired, playerVars, clientVars, logger>>
  BY DEF Collect, WaitReturns, Collected
<1> USE DEF playerVars, clientVars
<1>2. /\ pc' \in Pc /\ next' \in Players /\ next \in Players
      /\ next = NumPlayers => next' = 1 /\ pc' = "turn"
      /\ next # NumPlayers => next' = next + 1 /\ pc' = "collect"
      /\ \A p \in Players : p < next \/ p = next \/ p \in next + 1..NumPlayers
      /\ next = NumPlayers => \A p \in Players : p < next \/ p = next
  <2>1. "turn" \in Pc
    BY DEF Pc
  <2> QED
    BY <1>1, <2>1, AdvanceFacts
<1>3. messages \in [Players -> Message \cup {None}] /\ future \in [Players -> Message \cup {None}]
  BY DEF MatchInv, TypeOK
<1>4. \A p \in Players : messages'[p] = IF p = next THEN future[p] ELSE messages[p]
  BY <1>1, <1>3
<1>5. TypeOK'
  <2>1. messages' \in [Players -> Message \cup {None}]
    BY <1>1, <1>2, <1>3
  <2> QED
    BY <1>1, <1>2, <2>1 DEF MatchInv, TypeOK
<1>6. (LoopInv /\ ToldInv)'
  BY <1>1, <1>2 DEF MatchInv, LoopInv, ToldInv, Told
<1>7. (SenderInv /\ PromiseInv /\ HeardInv)'
  BY <1>1, <1>2 DEF MatchInv, SenderInv, PromiseInv, HeardInv
<1>a. (AnsweredInv /\ UnansweredStayOpen)'
  <2>1. \A p \in Players : \A t \in Turns : t \in Asked(p)' <=> t \in Asked(p)
    BY <1>1, <1>2 DEF Asked
  <2> QED
    BY <1>1, <2>1, PromisesKept
<1>8. TurnUsesItsAnswers'
  BY <1>1, <1>4 DEF MatchInv, SenderInv, TurnUsesItsAnswers
<1>9. MissedMeansLate'
  <2>1. ASSUME NEW p \in Players, WasCollected(p)', messages'[p] = None
        PROVE  expired /\ p \notin heard
    <3>1. CASE p = next
      BY <1>1, <1>4, <2>1, <3>1 DEF MatchInv, HeardInv
    <3>2. CASE p # next
      <4>1. p < next
        <5>1. CASE next = NumPlayers
          BY <1>2, <3>2, <5>1
        <5>2. CASE next # NumPlayers
          BY <1>2, <2>1, <3>2, <5>2, PlayerFacts DEF WasCollected, Players
        <5> QED
          BY <5>1, <5>2
      <4> QED
        BY <1>1, <1>4, <2>1, <3>2, <4>1 DEF MatchInv, MissedMeansLate, WasCollected
    <3> QED
      BY <3>1, <3>2
  <2> QED
    BY <1>1, <2>1 DEF MissedMeansLate, WasCollected
<1> QED
  BY <1>5, <1>6, <1>7, <1>8, <1>9, <1>a DEF MatchInv

LEMMA MatchInvProcessTurn == MatchInv /\ ProcessTurn => MatchInv'
<1> SUFFICES ASSUME MatchInv, ProcessTurn PROVE MatchInv'
  OBVIOUS
<1>1. /\ pc = "turn" /\ finished' \in BOOLEAN /\ current_turn' = current_turn + 1
      /\ broadcast' = "status" /\ pc' = "log"
      /\ UNCHANGED <<turn, next, expired, messages, playerVars, clientVars, logger>>
  BY DEF ProcessTurn
<1> USE DEF playerVars, clientVars
<1>2. turn \in Turns /\ current_turn = turn /\ next = 1
  BY <1>1 DEF MatchInv, LoopInv
<1>3. current_turn' \in 1..MaxTurns + 1
  BY <1>1, <1>2, PlayerFacts DEF Turns
<1>4. TypeOK'
  BY <1>1, <1>3 DEF MatchInv, TypeOK, Pc
<1>5. (LoopInv /\ ToldInv)'
  BY <1>1, <1>2 DEF LoopInv, ToldInv, Told
<1>6. (SenderInv /\ PromiseInv /\ HeardInv)'
  BY <1>1 DEF MatchInv, SenderInv, PromiseInv, HeardInv
<1>7. (TurnUsesItsAnswers /\ MissedMeansLate)'
  BY <1>1 DEF MatchInv, TurnUsesItsAnswers, MissedMeansLate, WasCollected
<1>8. (AnsweredInv /\ UnansweredStayOpen)'
  <2>1. \A p \in Players : \A t \in Turns : t \in Asked(p)' <=> t \in Asked(p)
    BY <1>1 DEF Asked
  <2> QED
    BY <1>1, <2>1, PromisesKept
<1> QED
  BY <1>4, <1>5, <1>6, <1>7, <1>8 DEF MatchInv

-----------------------------------------------------------------------------
(* The theorems.                                                           *)

LEMMA MatchInvNext == MatchInv /\ [Next]_vars => MatchInv'
<1> SUFFICES ASSUME MatchInv, [Next]_vars PROVE MatchInv'
  OBVIOUS
<1>1. CASE UNCHANGED vars
  BY <1>1 DEF MatchInv, TypeOK, LoopInv, ToldInv, Told, SenderInv, PromiseInv, HeardInv,
     TurnUsesItsAnswers, MissedMeansLate, AnsweredInv, UnansweredStayOpen, Asked, WasCollected,
     vars, matchVars, playerVars, clientVars
<1>2. CASE Next
  BY <1>2, MatchInvClients, MatchInvProcessMessage, MatchInvWrite, MatchInvCrash, MatchInvBroadcasted,
     MatchInvLog, MatchInvExpire, MatchInvGetRoundMessageAsync, MatchInvCollect, MatchInvProcessTurn
  DEF Next, MatchStep
<1> QED
  BY <1>1, <1>2

\* The strengthened invariant of the turn loop and of the promises.
THEOREM MatchInvariant == Spec => []MatchInv
<1> QED
  BY MatchInvInit, MatchInvNext, PTL DEF Spec

\* The variables of the loop, the promises and the futures keep their types.
THEOREM MatchTypeCorrect == Spec => []TypeOK
<1>1. MatchInv => TypeOK
  BY DEF MatchInv
<1> QED
  BY <1>1, MatchInvariant, PTL

\* ProcessTurn is given the answers of the right players to the right round.
THEOREM TurnsUseTheirAnswers == Spec => []TurnUsesItsAnswers
<1>1. MatchInv => TurnUsesItsAnswers
  BY DEF MatchInv
<1> QED
  BY <1>1, MatchInvariant, PTL

\* WaitForMessages misses nobody that answered between the registration of its
\* promise and the timeout, however many players are waited for before it.
THEOREM OnlyTheLateMiss == Spec => []MissedMeansLate
<1>1. MatchInv => MissedMeansLate
  BY DEF MatchInv
<1> QED
  BY <1>1, MatchInvariant, PTL

\* The rounds in waiting_rounds_ are those the player was asked for and has not
\* answered since: the promise of a missed turn is not lost in any later one, none
\* outlives its answer, and none is of a round the player was not told of.
THEOREM MissedTurnsStayOpen == Spec => []UnansweredStayOpen
<1>1. MatchInv => UnansweredStayOpen
  BY DEF MatchInv
<1> QED
  BY <1>1, MatchInvariant, PTL

\* The promise of a round gets one value: a second answer finds it forgotten.
THEOREM FirstAnswersCount == Spec => FirstAnswerCounts
<1> DEFINE Counts == \A p \in Players : future[p] # None => future'[p] \in {future[p], None}
<1>1. MatchInv /\ Next => Counts
  <2> SUFFICES ASSUME MatchInv, Next, NEW p \in Players, future[p] # None
               PROVE  future'[p] \in {future[p], None}
    OBVIOUS
  <2>1. future \in [Players -> Message \cup {None}]
    BY DEF MatchInv, TypeOK
  <2>2. CASE \E q \in Players : ProcessMessage(q)
    <3> PICK q \in Players : ProcessMessage(q)
      BY <2>2
    <3> DEFINE m == Head(wire[q])
    <3>1. CASE m.round \in waiting_rounds[q] /\ m.round = turn
      <4>1. q # p
        BY <3>1 DEF MatchInv, PromiseInv
      <4>2. m.round # NoRound
        BY <3>1 DEF MatchInv, TypeOK, Turns, NoRound
      <4>3. future' = [future EXCEPT ![q] = m]
        BY <3>1, <4>2 DEF ProcessMessage, Fulfil, SetValue
      <4> QED
        BY <2>1, <4>1, <4>3
    <3>2. CASE ~(m.round \in waiting_rounds[q] /\ m.round = turn)
      BY <3>2 DEF ProcessMessage, Fulfil, SetValue, playerVars
    <3> QED
      BY <3>1, <3>2
  <2>3. CASE Broadcasted \/ Log
    BY <2>3 DEF Broadcasted, Log, NextTurn, Nobody
  <2>4. CASE UNCHANGED future
    BY <2>4
  <2> QED
    BY <2>2, <2>3, <2>4 DEF Next, MatchStep, Expire, RedisDisconnects, PlayerSends, PlayerFails,
       Write, WriteThrows, GetRoundMessageAsync, Collect, ProcessTurn, ParseThrows, LogThrows, playerVars
<1>2. MatchInv /\ [Next]_vars => [Counts]_vars
  BY <1>1
<1> QED
  BY <1>2, MatchInvariant, PTL DEF Spec, FirstAnswerCounts
=============================================================================
