----------------------------- MODULE Matchmaking -----------------------------
(***************************************************************************)
(* What games/lobby.h:18-19 promises of a lobby, without threads, locks or *)
(* connections: "assigning players sequentialy to awaiting games. Whenever *)
(* there is no matching game, new one is queued."                          *)
(***************************************************************************)
EXTENDS Naturals, FiniteSets

CONSTANTS Players, Groups, Sizes

VARIABLES
  arrived,   \* players the lobby has ever seen
  lobby,     \* players that have no group yet
  asked,     \* per player: the size of the group it has asked for, or 0
  phase,     \* per group: unused, queued, running or over
  size,      \* per group: the number of players it is for (0 while unused)
  members    \* per group: the players in it

mmVars == <<arrived, lobby, asked, phase, size, members>>

Phases == {"unused", "queued", "running", "over"}

MMTypeOK ==
  /\ arrived \subseteq Players
  /\ lobby \subseteq arrived
  /\ asked \in [Players -> Sizes \cup {0}]
  /\ phase \in [Groups -> Phases]
  /\ size \in [Groups -> Sizes \cup {0}]
  /\ members \in [Groups -> SUBSET arrived]

MMInit ==
  /\ arrived = {}
  /\ lobby = {}
  /\ asked = [p \in Players |-> 0]
  /\ phase = [g \in Groups |-> "unused"]
  /\ size = [g \in Groups |-> 0]
  /\ members = [g \in Groups |-> {}]

Arrive(p) ==
  /\ p \notin arrived
  /\ arrived' = arrived \cup {p}
  /\ lobby' = lobby \cup {p}
  /\ UNCHANGED <<asked, phase, size, members>>

Ask(p, n) ==
  /\ p \in lobby
  /\ asked[p] = 0
  /\ asked' = [asked EXCEPT ![p] = n]
  /\ UNCHANGED <<arrived, lobby, phase, size, members>>

\* p leaves the lobby for group g, which is of the size p has asked for and
\* starts at the moment it is complete.
Seat(p, g, n) ==
  /\ p \in lobby
  /\ asked[p] = n
  /\ asked' = [asked EXCEPT ![p] = 0]
  /\ lobby' = lobby \ {p}
  /\ members' = [members EXCEPT ![g] = @ \cup {p}]
  /\ phase' = [phase EXCEPT ![g] = IF Cardinality(members[g]) + 1 = n
                                   THEN "running" ELSE "queued"]
  /\ size' = [size EXCEPT ![g] = n]
  /\ UNCHANGED arrived

\* "Whenever there is no matching game, new one is queued."
QueueNew(p, g, n) ==
  /\ phase[g] = "unused"
  /\ \A h \in Groups : ~(phase[h] = "queued" /\ size[h] = n)
  /\ Seat(p, g, n)

\* "assigning players sequentialy to awaiting games"
JoinQueued(p, g, n) ==
  /\ phase[g] = "queued"
  /\ size[g] = n
  /\ Seat(p, g, n)

Finish(g) ==
  /\ phase[g] = "running"
  /\ phase' = [phase EXCEPT ![g] = "over"]
  /\ members' = [members EXCEPT ![g] = {}]
  /\ UNCHANGED <<arrived, lobby, asked, size>>

MMNext ==
  \/ \E p \in Players : Arrive(p) \/ \E n \in Sizes : Ask(p, n)
  \/ \E p \in Players, g \in Groups, n \in Sizes :
       QueueNew(p, g, n) \/ JoinQueued(p, g, n)
  \/ \E g \in Groups : Finish(g)

MMSpec == MMInit /\ [][MMNext]_mmVars
=============================================================================
