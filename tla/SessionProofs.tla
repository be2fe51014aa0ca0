--------------------------- MODULE SessionProofs ---------------------------
(***************************************************************************)
(* ref_connect is exact for any finite set of connections: whatever          *)
(* closes, reconnects, starts and ends around it, a living agent's counter   *)
(* is the number of its connections plus its battle.                         *)
(*                                                                           *)
(* RefCounted alone is not inductive.  A close may only meet connections     *)
(* whose agent has counted them (Announcement), an agent that has not yet    *)
(* started is known to its own login only (Fresh), each login is where the   *)
(* agent it created says (Logins), and the server manager's two handlers     *)
(* speak of the agent that plays (Battles).                                  *)
(***************************************************************************)
EXTENDS Session, FiniteSetTheorems, TLAPS

\* The agent has counted connection f.
Announced(f) == login[f].pc \in {"forward", "done"}

\* How far a login has come, and what that says of the agent it creates.
Logins ==
  \A f \in Fds :
    /\ link[f] = "unborn" => login[f].pc = "none"
    /\ login[f].pc \in {"none", "getAgent", "offLine", "create"} => status[f] = "none"
    /\ login[f].pc \in {"enter", "start", "reconnect", "forward", "done"} => login[f].agent \in Agents
    /\ login[f].pc = "enter" => status[f] = IF login[f].agent = f THEN "new" ELSE "none"
    /\ login[f].pc = "start" => login[f].agent = f /\ status[f] = "new" /\ agentfd[f] = f
    /\ login[f].pc = "reconnect" => agentfd[f] = login[f].agent
    /\ agentfd[f] # None => /\ agentfd[f] = login[f].agent
                            /\ login[f].pc \in {"start", "reconnect", "forward", "done", "failed"}
    /\ status[f] \in {"running", "exited"} => Announced(f)

\* An agent that has not started is known to the login that creates it only.
Fresh ==
  \A a \in Agents : status[a] \in {"none", "new"} =>
    /\ ref_connect[a] = 0 /\ ~leaving[a]
    /\ room.agent # a
    /\ \A f \in Fds : /\ closer[f].agent # a
                      /\ login[f].agent = a => f = a /\ login[f].pc \in {"enter", "start"}

\* Whoever can close a connection, the agent has counted it before.
Announcement ==
  \A f \in Fds :
    /\ closer[f].pc # "none" => agentfd[f] = None /\ closer[f].agent \in Agents /\ Announced(f)
    /\ link[f] \in {"gate", "lost", "closed"} => Announced(f)
    /\ f \in agentAccount => Announced(f)
    /\ \A a \in Agents : user_fd[a] = f => Announced(f)
    /\ entering[f].pc # "none" => Announced(f)

\* Only a started agent is running, and it has a connection to send to.
Running == \A a \in Agents : status[a] = "running" => user_fd[a] \in Fds

\* The server manager's view of the battle.
Battles ==
  /\ starting = "none" <=> room.pc = "none"
  /\ room.pc = "none" => room.agent = None
  /\ room.pc # "none" => room.agent \in Agents /\ status[room.agent] \in {"running", "exited"}
  /\ roomAgent \in {None, room.agent}
  /\ starting \in {"ref", "done", "failed"} /\ ending # "done" => roomAgent = room.agent
  /\ starting \in {"none", "posted", "cut"} => roomAgent = None
  /\ starting = "failed" => status[room.agent] = "exited"
  /\ ending # "none" => room.pc = "closed"
  /\ ending \notin {"none", "posted"} => starting \in {"done", "failed", "cut"}
  /\ ending \in {"disconnect", "clear", "failed", "cut"} => starting # "cut"

IInv ==
  /\ TypeOK /\ Logins /\ Fresh /\ Announcement /\ Running /\ Battles
  /\ RefCounted

-----------------------------------------------------------------------------
(***************************************************************************)
(* Cardinalities of sets of connections                                      *)
(***************************************************************************)
\* The connections are finitely many, and so is every set of them.
LEMMA SubsetCard ==
  ASSUME NEW S \in SUBSET Fds
  PROVE  /\ IsFiniteSet(S) /\ Cardinality(S) \in Nat /\ Cardinality(Fds) \in Nat
         /\ Cardinality(S) <= Cardinality(Fds)
BY FdsAssumption, FS_Subset, FS_CardinalityType

\* There are finitely many connections.
LEMMA FdsCard == Cardinality(Fds) \in Nat
BY FdsAssumption, FS_CardinalityType

\* One more connection counts one more.
LEMMA AddCard ==
  ASSUME NEW S \in SUBSET Fds, NEW f \in Fds, f \notin S
  PROVE  /\ Cardinality(S \cup {f}) = Cardinality(S) + 1
         /\ Cardinality(S) + 1 <= Cardinality(Fds)
<1>1. Cardinality(S \cup {f}) = Cardinality(S) + 1
  BY SubsetCard, FS_AddElement
<1>2. S \cup {f} \in SUBSET Fds
  OBVIOUS
<1>3. Cardinality(S \cup {f}) <= Cardinality(Fds)
  BY <1>2, SubsetCard
<1> QED
  BY <1>1, <1>3

\* One connection less counts one less.
LEMMA DropCard ==
  ASSUME NEW S \in SUBSET Fds, NEW f \in S
  PROVE  Cardinality(S \ {f}) = Cardinality(S) - 1 /\ Cardinality(S) >= 1
<1>1. Cardinality(S \ {f}) = Cardinality(S) - 1
  BY SubsetCard, FS_RemoveElement
<1>2. S \ {f} \in SUBSET Fds
  OBVIOUS
<1>3. Cardinality(S \ {f}) \in Nat /\ Cardinality(S) \in Nat
  BY <1>2, SubsetCard
<1> QED
  BY <1>1, <1>3

\* A step that moves no reference of an agent that stays keeps the count exact.
LEMMA Unmoved ==
  ASSUME RefCounted,
         \A a \in Agents : status'[a] # "exited" =>
           /\ status[a] # "exited" /\ ref_connect'[a] = ref_connect[a]
           /\ RoomHolds(a)' <=> RoomHolds(a)
           /\ \A f \in Fds : Holds(f, a)' <=> Holds(f, a)
  PROVE  RefCounted'
<1> SUFFICES ASSUME NEW a \in Agents, status'[a] # "exited"
             PROVE  ref_connect'[a] = Cardinality(Holders(a)') + IF RoomHolds(a)' THEN 1 ELSE 0
  BY DEF RefCounted
<1>1. Holders(a)' = Holders(a)
  BY DEF Holders
<1>2. ref_connect[a] = Cardinality(Holders(a)) + IF RoomHolds(a) THEN 1 ELSE 0
  BY DEF RefCounted
<1>3. ref_connect'[a] = ref_connect[a] /\ (RoomHolds(a)' <=> RoomHolds(a))
  OBVIOUS
<1> QED
  BY <1>1, <1>2, <1>3 DEF RoomHolds

\* A step that moves a reference of agent b only.
LEMMA Moved ==
  ASSUME RefCounted, NEW b \in Agents,
         \A a \in Agents \ {b} :
           /\ status'[a] = status[a] /\ ref_connect'[a] = ref_connect[a]
           /\ RoomHolds(a)' <=> RoomHolds(a)
           /\ \A f \in Fds : Holds(f, a)' <=> Holds(f, a),
         ref_connect'[b] = Cardinality(Holders(b)') + IF RoomHolds(b)' THEN 1 ELSE 0
  PROVE  RefCounted'
<1> SUFFICES ASSUME NEW a \in Agents, status'[a] # "exited", a # b
             PROVE  ref_connect'[a] = Cardinality(Holders(a)') + IF RoomHolds(a)' THEN 1 ELSE 0
  BY DEF RefCounted
<1>1. Holders(a)' = Holders(a)
  BY DEF Holders
<1>2. status[a] # "exited" /\ ref_connect'[a] = ref_connect[a] /\ (RoomHolds(a)' <=> RoomHolds(a))
  OBVIOUS
<1>3. ref_connect[a] = Cardinality(Holders(a)) + IF RoomHolds(a) THEN 1 ELSE 0
  BY <1>2 DEF RefCounted
<1> QED
  BY <1>1, <1>2, <1>3 DEF RoomHolds

\* How the counter of one agent stands between nothing and everybody.
LEMMA RefBounds ==
  ASSUME RefCounted, NEW a \in Agents, status[a] # "exited"
  PROVE  /\ Holders(a) \in SUBSET Fds
         /\ Cardinality(Holders(a)) \in Nat /\ Cardinality(Fds) \in Nat
         /\ Cardinality(Holders(a)) <= Cardinality(Fds)
         /\ ref_connect[a] = Cardinality(Holders(a)) + IF RoomHolds(a) THEN 1 ELSE 0
<1>1. Holders(a) \in SUBSET Fds
  BY DEF Holders
<1> QED
  BY <1>1, SubsetCard DEF RefCounted

\* A registered connection that its agent has counted is closed by nobody yet,
\* and its agent has started.
LEMMA Closable ==
  ASSUME IInv, NEW f \in Fds, Announced(f), agentfd[f] # None
  PROVE  /\ agentfd[f] \in Fds /\ closer[f].pc = "none"
         /\ status[agentfd[f]] \in {"running", "exited"}
<1>1. agentfd[f] \in Fds /\ agentfd[f] = login[f].agent
  BY DEF IInv, TypeOK, Logins, Agents
<1>2. closer[f].pc = "none"
  BY DEF IInv, Announcement
<1>3. status[agentfd[f]] \notin {"none", "new"}
  BY <1>1 DEF IInv, Fresh, Announced, Agents
<1> QED
  BY <1>1, <1>2, <1>3 DEF IInv, TypeOK, Agents

-----------------------------------------------------------------------------
\* The initial state.
LEMMA InitIInv == Init => IInv
<1> SUFFICES ASSUME Init PROVE IInv
  OBVIOUS
<1>1. ASSUME NEW a \in Agents
      PROVE  ref_connect[a] = Cardinality(Holders(a)) + IF RoomHolds(a) THEN 1 ELSE 0
  <2>1. Holders(a) = {} /\ ~RoomHolds(a)
    BY FdsAssumption DEF Init, Idle, Holders, Holds, RoomHolds, Agents
  <2>2. ref_connect[a] = 0
    BY DEF Init
  <2> QED
    BY <2>1, <2>2, FS_EmptySet DEF RoomHolds
<1>2. RefCounted
  BY <1>1 DEF RefCounted
<1>3. 0 \in 0 .. Cardinality(Fds) + 1
  BY SubsetCard
<1>4. TypeOK
  BY <1>3 DEF TypeOK, Init, Idle, Agents
<1> QED
  BY <1>2, <1>4, FdsAssumption DEF IInv, Init, Idle, Logins, Fresh, Announcement, Running,
     Battles, Announced, Agents

\* A login begins.
LEMMA StepAuth ==
  ASSUME IInv, NEW f \in Fds, Auth(f)
  PROVE  IInv'
<1> USE DEF IInv, Agents, Alive
<1>a. login[f].pc = "none" /\ status[f] = "none" /\ agentfd[f] = None
  BY DEF Logins, Auth
<1>1. TypeOK'
  BY <1>a, FdsAssumption DEF TypeOK, Auth, watchdog, agents, manager
<1>2. Logins'
  BY <1>a, FdsAssumption DEF TypeOK, Logins, Fresh, Announcement, Battles, Announced, Auth,
     watchdog, agents, manager
<1>3. Fresh'
  BY <1>a, FdsAssumption DEF TypeOK, Fresh, Logins, Announcement, Announced, Battles, Auth,
     watchdog, agents, manager
<1>4. Announcement'
  BY <1>a, FdsAssumption DEF TypeOK, Announcement, Announced, Logins, Fresh, Running, Auth,
     watchdog, agents, manager
<1>5. Running'
  BY <1>a, FdsAssumption DEF TypeOK, Running, Auth, watchdog, agents, manager
<1>6. Battles'
  BY <1>a, FdsAssumption DEF TypeOK, Battles, Fresh, Auth, watchdog, agents, manager
<1>7. RefCounted'
  <2>1. \A b \in Agents : status'[b] # "exited" => \A g \in Fds : Holds(g, b)' <=> Holds(g, b)
    BY <1>a, FdsAssumption DEF Holds, TypeOK, Logins, Fresh, Announcement, Announced, Auth,
       watchdog, agents, manager
  <2>2. \A b \in Agents : RoomHolds(b)' <=> RoomHolds(b)
    BY <1>a DEF RoomHolds, Auth, watchdog, agents, manager
  <2> QED
    BY <1>a, <2>1, <2>2, Unmoved DEF TypeOK, Auth, watchdog, agents, manager
<1> QED
  BY <1>1, <1>2, <1>3, <1>4, <1>5, <1>6, <1>7

\* getAgent knows no room.
LEMMA StepNoRoom ==
  ASSUME IInv, NEW f \in Fds, NoRoom(f)
  PROVE  IInv'
<1> USE DEF IInv, Agents, Alive
<1>1. TypeOK'
  BY FdsAssumption DEF TypeOK, NoRoom, watchdog, agents, manager
<1>2. Logins'
  BY FdsAssumption, SMTT(30) DEF TypeOK, Logins, Fresh, Announcement, Announced, NoRoom,
     watchdog, agents, manager
<1>3. Fresh'
  BY FdsAssumption DEF TypeOK, Fresh, Logins, Announcement, Announced, Battles, NoRoom,
     watchdog, agents, manager
<1>4. Announcement'
  BY FdsAssumption DEF TypeOK, Announcement, Announced, Logins, Fresh, Running, NoRoom,
     watchdog, agents, manager
<1>5. Running'
  BY FdsAssumption DEF TypeOK, Running, NoRoom, watchdog, agents, manager
<1>6. Battles'
  BY FdsAssumption DEF TypeOK, Battles, Fresh, NoRoom, watchdog, agents, manager
<1>7. RefCounted'
  <2>1. \A b \in Agents : status'[b] # "exited" => \A g \in Fds : Holds(g, b)' <=> Holds(g, b)
    BY FdsAssumption DEF Holds, TypeOK, Logins, Fresh, Announcement, Announced, NoRoom,
       watchdog, agents, manager
  <2>2. \A b \in Agents : RoomHolds(b)' <=> RoomHolds(b)
    BY DEF RoomHolds, NoRoom, watchdog, agents, manager
  <2> QED
    BY <2>1, <2>2, Unmoved DEF TypeOK, NoRoom, watchdog, agents, manager
<1> QED
  BY <1>1, <1>2, <1>3, <1>4, <1>5, <1>6, <1>7

\* getAgent asks the room.
LEMMA StepAskRoom ==
  ASSUME IInv, NEW f \in Fds, AskRoom(f)
  PROVE  IInv'
<1> USE DEF IInv, Agents, Alive
<1>1. TypeOK'
  BY FdsAssumption DEF TypeOK, AskRoom, watchdog, agents, manager
<1>2. Logins'
  BY FdsAssumption DEF TypeOK, Logins, Fresh, Announcement, Battles, Announced, AskRoom,
     watchdog, agents, manager
<1>3. Fresh'
  BY FdsAssumption DEF TypeOK, Fresh, Logins, Announcement, Announced, Battles, AskRoom,
     watchdog, agents, manager
<1>4. Announcement'
  BY FdsAssumption DEF TypeOK, Announcement, Announced, Logins, Fresh, Running, AskRoom,
     watchdog, agents, manager
<1>5. Running'
  BY FdsAssumption DEF TypeOK, Running, AskRoom, watchdog, agents, manager
<1>6. Battles'
  BY FdsAssumption DEF TypeOK, Battles, Fresh, AskRoom, watchdog, agents, manager
<1>7. RefCounted'
  <2>1. \A b \in Agents : status'[b] # "exited" => \A g \in Fds : Holds(g, b)' <=> Holds(g, b)
    BY FdsAssumption DEF Holds, TypeOK, Logins, Fresh, Announcement, Announced, AskRoom,
       watchdog, agents, manager
  <2>2. \A b \in Agents : RoomHolds(b)' <=> RoomHolds(b)
    BY DEF RoomHolds, AskRoom, watchdog, agents, manager
  <2> QED
    BY <2>1, <2>2, Unmoved DEF TypeOK, AskRoom, watchdog, agents, manager
<1> QED
  BY <1>1, <1>2, <1>3, <1>4, <1>5, <1>6, <1>7

\* The room answers getAgent.
LEMMA StepRoomAnswers ==
  ASSUME IInv, NEW f \in Fds, RoomAnswers(f)
  PROVE  IInv'
<1> USE DEF IInv, Agents, Alive
<1>a. roomAgent # None => /\ roomAgent \in Fds /\ roomAgent # f
                               /\ status[roomAgent] \in {"running", "exited"}
  BY FdsAssumption DEF Battles, Logins, Announced, TypeOK, RoomAnswers
<1>b. UNCHANGED <<link, agentfd, agentAccount, closer, entering, status, ref_connect, user_fd,
                  beating, leaving, room, starting, ending, roomAgent>>
  BY DEF RoomAnswers, watchdog, agents, manager
<1>c. /\ login[f].pc = "offLine" /\ \A g \in Fds \ {f} : login'[g] = login[g]
      /\ \/ login'[f].pc = "failed" /\ login'[f].agent = login[f].agent
         \/ login'[f].pc = "create" /\ login'[f].agent = None
         \/ roomAgent # None /\ login'[f].pc = "enter" /\ login'[f].agent = roomAgent
  BY DEF RoomAnswers, TypeOK
<1>1. TypeOK'
  BY SMTT(30), <1>a, FdsAssumption DEF TypeOK, RoomAnswers, watchdog, agents, manager
<1>2. Logins'
  BY <1>a, <1>b, <1>c, FdsAssumption DEF Logins, Announced, TypeOK
<1>3. Fresh'
  BY <1>a, <1>b, <1>c, FdsAssumption DEF Fresh, TypeOK
<1>4. Announcement'
  BY <1>a, <1>b, <1>c, FdsAssumption DEF Announcement, Announced, TypeOK
<1>5. Running'
  BY <1>b DEF Running
<1>6. Battles'
  BY <1>b DEF Battles
<1>7. RefCounted'
  <2>1. agentfd[f] = None
    BY <1>c DEF Logins
  <2>2. \A b \in Agents, g \in Fds : Holds(g, b)' <=> Holds(g, b)
    BY <2>1, <1>b, <1>c, FdsAssumption DEF Holds
  <2>3. \A b \in Agents : RoomHolds(b)' <=> RoomHolds(b)
    BY <1>b DEF RoomHolds
  <2> QED
    BY <2>2, <2>3, <1>b, Unmoved
<1> QED
  BY <1>1, <1>2, <1>3, <1>4, <1>5, <1>6, <1>7

\* An agent is created.
LEMMA StepNewAgent ==
  ASSUME IInv, NEW f \in Fds, NewAgent(f)
  PROVE  IInv'
<1> USE DEF IInv, Agents, Alive
<1>a. status[f] = "none" /\ room.agent # f
  BY DEF Logins, Fresh, NewAgent
<1>1. TypeOK'
  BY <1>a, FdsAssumption DEF TypeOK, NewAgent, watchdog, agents, manager
<1>2. Logins'
  BY <1>a, FdsAssumption, SMTT(30) DEF TypeOK, Logins, Fresh, Announcement, Announced,
     NewAgent, watchdog, agents, manager
<1>3. Fresh'
  BY <1>a, FdsAssumption DEF TypeOK, Fresh, Logins, Announcement, Announced, Battles,
     NewAgent, watchdog, agents, manager
<1>4. Announcement'
  BY <1>a, FdsAssumption DEF TypeOK, Announcement, Announced, Logins, Fresh, Running,
     NewAgent, watchdog, agents, manager
<1>5. Running'
  BY <1>a, FdsAssumption DEF TypeOK, Running, NewAgent, watchdog, agents, manager
<1>6. Battles'
  BY <1>a, FdsAssumption DEF TypeOK, Battles, Fresh, NewAgent, watchdog, agents, manager
<1>7. RefCounted'
  <2>1. \A b \in Agents : status'[b] # "exited" => \A g \in Fds : Holds(g, b)' <=> Holds(g, b)
    BY <1>a, FdsAssumption DEF Holds, TypeOK, Logins, Fresh, Announcement, Announced,
       NewAgent, watchdog, agents, manager
  <2>2. \A b \in Agents : RoomHolds(b)' <=> RoomHolds(b)
    BY <1>a DEF RoomHolds, NewAgent, watchdog, agents, manager
  <2> QED
    BY <1>a, <2>1, <2>2, Unmoved DEF TypeOK, NewAgent, watchdog, agents, manager
<1> QED
  BY <1>1, <1>2, <1>3, <1>4, <1>5, <1>6, <1>7

\* A connection is registered.
LEMMA StepAgentEnter ==
  ASSUME IInv, NEW f \in Fds, AgentEnter(f)
  PROVE  IInv'
<1> USE DEF IInv, Agents, Alive
<1>1. TypeOK'
  BY FdsAssumption DEF TypeOK, AgentEnter, watchdog, agents, manager
<1>2. Logins'
  BY FdsAssumption DEF TypeOK, Logins, Fresh, Announcement, Battles, Announced, AgentEnter,
     watchdog, agents, manager
<1>3. Fresh'
  BY FdsAssumption DEF TypeOK, Fresh, Logins, Announcement, Announced, Battles, AgentEnter,
     watchdog, agents, manager
<1>4. Announcement'
  BY FdsAssumption DEF TypeOK, Announcement, Announced, Logins, Fresh, Running, AgentEnter,
     watchdog, agents, manager
<1>5. Running'
  BY FdsAssumption DEF TypeOK, Running, AgentEnter, watchdog, agents, manager
<1>6. Battles'
  BY FdsAssumption DEF TypeOK, Battles, Fresh, AgentEnter, watchdog, agents, manager
<1>7. RefCounted'
  <2>1. \A b \in Agents : status'[b] # "exited" => \A g \in Fds : Holds(g, b)' <=> Holds(g, b)
    BY FdsAssumption DEF Holds, TypeOK, Logins, Fresh, Announcement, Announced, AgentEnter,
       watchdog, agents, manager
  <2>2. \A b \in Agents : RoomHolds(b)' <=> RoomHolds(b)
    BY DEF RoomHolds, AgentEnter, watchdog, agents, manager
  <2> QED
    BY <2>1, <2>2, Unmoved DEF TypeOK, AgentEnter, watchdog, agents, manager
<1> QED
  BY <1>1, <1>2, <1>3, <1>4, <1>5, <1>6, <1>7

\* An agent starts and counts its first connection.
LEMMA StepStart ==
  ASSUME IInv, NEW f \in Fds, Start(f)
  PROVE  IInv'
<1> USE DEF IInv, Agents, Alive
<1>a. login[f].agent = f /\ agentfd[f] = f /\ status[f] = "new" /\ room.agent # f
  BY DEF Logins, Fresh, Start
<1>1. TypeOK'
  <2>1. 1 \in 0 .. Cardinality(Fds) + 1
    BY FdsCard
  <2> QED
    BY <2>1, <1>a DEF TypeOK, Start, watchdog, agents, manager
<1>2. Logins'
  BY <1>a, FdsAssumption DEF TypeOK, Logins, Fresh, Announcement, Battles, Announced, Start,
     watchdog, agents, manager
<1>3. Fresh'
  BY <1>a, FdsAssumption DEF TypeOK, Fresh, Logins, Announcement, Announced, Battles, Start,
     watchdog, agents, manager
<1>4. Announcement'
  BY <1>a, FdsAssumption DEF TypeOK, Announcement, Announced, Logins, Fresh, Running, Start,
     watchdog, agents, manager
<1>5. Running'
  BY <1>a, FdsAssumption DEF TypeOK, Running, Start, watchdog, agents, manager
<1>6. Battles'
  BY <1>a, FdsAssumption DEF TypeOK, Battles, Fresh, Start, watchdog, agents, manager
<1>7. RefCounted'
  <2>1. ASSUME NEW b \in Agents \ {f}
        PROVE  \A g \in Fds : Holds(g, b)' <=> Holds(g, b)
    BY <1>a DEF Holds, TypeOK, Start, watchdog
  <2>2. \A b \in Agents \ {f} : RoomHolds(b)' <=> RoomHolds(b)
    BY DEF RoomHolds, Start, manager
  <2>3. \A b \in Agents \ {f} : ref_connect'[b] = ref_connect[b] /\ status'[b] = status[b]
    BY DEF Start, TypeOK
  <2>4. \A g \in Fds : closer[g].agent # f /\ (agentfd[g] = f => g = f)
    BY <1>a, FdsAssumption DEF Fresh, Logins
  <2>5. \A g \in Fds : Holds(g, f)' <=> g = f
    BY <1>a, <2>4 DEF Holds, TypeOK, Start, watchdog
  <2>6. Cardinality(Holders(f)') = 1
    <3>1. Holders(f)' = {f}
      BY <2>5 DEF Holders
    <3> QED
      BY <3>1, FS_Singleton
  <2>7. ~RoomHolds(f)' /\ ref_connect'[f] = 1
    BY <1>a DEF RoomHolds, Start, TypeOK
  <2>8. ref_connect'[f] = Cardinality(Holders(f)') + IF RoomHolds(f)' THEN 1 ELSE 0
    BY <2>6, <2>7
  <2> QED
    BY <2>1, <2>2, <2>3, <2>8, Moved
<1> QED
  BY <1>1, <1>2, <1>3, <1>4, <1>5, <1>6, <1>7

\* An agent counts a new connection.
LEMMA StepReconnect ==
  ASSUME IInv, NEW f \in Fds, Reconnect(f)
  PROVE  IInv'
<1> USE DEF IInv, Agents, Alive
<1>a. /\ login[f].agent \in Fds /\ agentfd[f] = login[f].agent /\ closer[f].pc = "none"
      /\ status[login[f].agent] = "running" /\ ~Announced(f)
  BY DEF Logins, Fresh, Announcement, Announced, Reconnect, TypeOK
<1>1. TypeOK'
  <2>0. PICK a \in Agents : a = login[f].agent
    BY <1>a
  <2>1. f \notin Holders(a)
    BY <2>0, <1>a DEF Holders, Holds, Announced
  <2>2. /\ ref_connect[a] = Cardinality(Holders(a)) + IF RoomHolds(a) THEN 1 ELSE 0
        /\ Cardinality(Holders(a)) \in Nat /\ Cardinality(Fds) \in Nat /\ Holders(a) \in SUBSET Fds
    BY <2>0, <1>a, RefBounds
  <2>3. Cardinality(Holders(a)) + 1 <= Cardinality(Fds)
    BY <2>1, <2>2, AddCard
  <2>4. ref_connect[a] + 1 \in 0 .. Cardinality(Fds) + 1
    BY <2>2, <2>3 DEF RoomHolds
  <2> QED
    BY <2>4, <2>0, <1>a DEF TypeOK, Reconnect, watchdog, agents, manager
<1>2. Logins'
  BY <1>a, FdsAssumption DEF TypeOK, Logins, Fresh, Announcement, Battles, Announced,
     Reconnect, watchdog, agents, manager
<1>3. Fresh'
  BY <1>a, FdsAssumption DEF TypeOK, Fresh, Logins, Announcement, Announced, Battles,
     Reconnect, watchdog, agents, manager
<1>4. Announcement'
  BY <1>a, FdsAssumption DEF TypeOK, Announcement, Announced, Logins, Fresh, Running,
     Reconnect, watchdog, agents, manager
<1>5. Running'
  BY <1>a, FdsAssumption DEF TypeOK, Running, Reconnect, watchdog, agents, manager
<1>6. Battles'
  BY <1>a, FdsAssumption DEF TypeOK, Battles, Fresh, Reconnect, watchdog, agents, manager
<1>7. RefCounted'
  <2>0. PICK a \in Agents : a = login[f].agent
    BY <1>a
  <2>1. \A b \in Agents \ {a} : \A g \in Fds : Holds(g, b)' <=> Holds(g, b)
    BY <2>0, <1>a, FdsAssumption DEF Holds, TypeOK, Announced, Reconnect, watchdog, agents,
       manager
  <2>2. Holders(a)' = Holders(a) \cup {f} /\ f \notin Holders(a)
    BY <2>0, <1>a DEF Holders, Holds, TypeOK, Announced, Reconnect, watchdog, agents, manager
  <2>3. Cardinality(Holders(a)') = Cardinality(Holders(a)) + 1
    BY <2>2, AddCard DEF Holders
  <2>4. \A b \in Agents : RoomHolds(b)' <=> RoomHolds(b)
    BY <2>0, <1>a DEF RoomHolds, Reconnect, watchdog, agents, manager
  <2>5. ref_connect'[a] = ref_connect[a] + 1
    BY <2>0, <1>a DEF TypeOK, Reconnect
  <2>6. /\ ref_connect[a] = Cardinality(Holders(a)) + IF RoomHolds(a) THEN 1 ELSE 0
        /\ Cardinality(Holders(a)) \in Nat
    BY <2>0, <1>a, RefBounds
  <2>7. ref_connect'[a] = Cardinality(Holders(a)') + IF RoomHolds(a)' THEN 1 ELSE 0
    BY <2>3, <2>4, <2>5, <2>6 DEF RoomHolds
  <2>8. \A b \in Agents \ {a} : ref_connect'[b] = ref_connect[b] /\ status'[b] = status[b]
    BY <2>0, <1>a DEF TypeOK, Reconnect, watchdog, agents, manager
  <2> QED
    BY <2>1, <2>4, <2>7, <2>8, Moved
<1> QED
  BY <1>1, <1>2, <1>3, <1>4, <1>5, <1>6, <1>7

\* The agent to reconnect to is gone.
LEMMA StepReconnectFails ==
  ASSUME IInv, NEW f \in Fds, ReconnectFails(f)
  PROVE  IInv'
<1> USE DEF IInv, Agents, Alive
<1>a. /\ status[f] \notin {"running", "exited"}
      /\ login[f].agent \in Fds /\ agentfd[f] = login[f].agent
  BY DEF Logins, Announced, ReconnectFails
<1>1. TypeOK'
  BY <1>a, FdsAssumption DEF TypeOK, ReconnectFails, watchdog, agents, manager
<1>2. Logins'
  BY <1>a, FdsAssumption DEF TypeOK, Logins, Fresh, Announcement, Battles, Announced,
     ReconnectFails, watchdog, agents, manager
<1>3. Fresh'
  BY <1>a, FdsAssumption DEF TypeOK, Fresh, Logins, Announcement, Announced, Battles,
     ReconnectFails, watchdog, agents, manager
<1>4. Announcement'
  <2>1. login[f].pc = "reconnect" /\ \A g \in Fds \ {f} : login'[g] = login[g]
    BY DEF ReconnectFails, TypeOK
  <2>2. UNCHANGED <<link, agentfd, agentAccount, closer, entering, user_fd>>
    BY DEF ReconnectFails, watchdog, agents
  <2> QED
    BY <2>1, <2>2 DEF Announcement, Announced
<1>5. Running'
  BY <1>a, FdsAssumption DEF TypeOK, Running, ReconnectFails, watchdog, agents, manager
<1>6. Battles'
  BY <1>a, FdsAssumption DEF TypeOK, Battles, Fresh, ReconnectFails, watchdog, agents, manager
<1>7. RefCounted'
  <2>1. \A b \in Agents : status'[b] # "exited" => \A g \in Fds : Holds(g, b)' <=> Holds(g, b)
    BY <1>a, FdsAssumption DEF Holds, TypeOK, Logins, Fresh, Announcement, Announced,
       ReconnectFails, watchdog, agents, manager
  <2>2. \A b \in Agents : RoomHolds(b)' <=> RoomHolds(b)
    BY <1>a DEF RoomHolds, ReconnectFails, watchdog, agents, manager
  <2> QED
    BY <1>a, <2>1, <2>2, Unmoved DEF TypeOK, ReconnectFails, watchdog, agents, manager
<1> QED
  BY <1>1, <1>2, <1>3, <1>4, <1>5, <1>6, <1>7

\* The gate takes the socket.
LEMMA StepForward ==
  ASSUME IInv, NEW f \in Fds, Forward(f)
  PROVE  IInv'
<1> USE DEF IInv, Agents, Alive
<1>1. TypeOK'
  BY FdsAssumption DEF TypeOK, Forward, watchdog, agents, manager
<1>2. Logins'
  BY FdsAssumption DEF TypeOK, Logins, Fresh, Announcement, Battles, Announced, Forward,
     watchdog, agents, manager
<1>3. Fresh'
  BY FdsAssumption DEF TypeOK, Fresh, Logins, Announcement, Announced, Battles, Forward,
     watchdog, agents, manager
<1>4. Announcement'
  BY FdsAssumption DEF TypeOK, Announcement, Announced, Logins, Fresh, Running, Forward,
     watchdog, agents, manager
<1>5. Running'
  BY FdsAssumption DEF TypeOK, Running, Forward, watchdog, agents, manager
<1>6. Battles'
  BY FdsAssumption DEF TypeOK, Battles, Fresh, Forward, watchdog, agents, manager
<1>7. RefCounted'
  <2>1. \A b \in Agents : status'[b] # "exited" => \A g \in Fds : Holds(g, b)' <=> Holds(g, b)
    BY FdsAssumption DEF Holds, TypeOK, Logins, Fresh, Announcement, Announced, Forward,
       watchdog, agents, manager
  <2>2. \A b \in Agents : RoomHolds(b)' <=> RoomHolds(b)
    BY DEF RoomHolds, Forward, watchdog, agents, manager
  <2> QED
    BY <2>1, <2>2, Unmoved DEF TypeOK, Forward, watchdog, agents, manager
<1> QED
  BY <1>1, <1>2, <1>3, <1>4, <1>5, <1>6, <1>7

\* A client goes away.
LEMMA StepClientGone ==
  ASSUME IInv, NEW f \in Fds, ClientGone(f)
  PROVE  IInv'
<1> USE DEF IInv, Agents, Alive
<1>1. TypeOK'
  BY FdsAssumption DEF TypeOK, ClientGone, watchdog, agents, manager
<1>2. Logins'
  BY FdsAssumption DEF TypeOK, Logins, Fresh, Announcement, Battles, Announced, ClientGone,
     watchdog, agents, manager
<1>3. Fresh'
  BY FdsAssumption DEF TypeOK, Fresh, Logins, Announcement, Announced, Battles, ClientGone,
     watchdog, agents, manager
<1>4. Announcement'
  BY FdsAssumption DEF TypeOK, Announcement, Announced, Logins, Fresh, Running, ClientGone,
     watchdog, agents, manager
<1>5. Running'
  BY FdsAssumption DEF TypeOK, Running, ClientGone, watchdog, agents, manager
<1>6. Battles'
  BY FdsAssumption DEF TypeOK, Battles, Fresh, ClientGone, watchdog, agents, manager
<1>7. RefCounted'
  <2>1. \A b \in Agents : status'[b] # "exited" => \A g \in Fds : Holds(g, b)' <=> Holds(g, b)
    BY FdsAssumption DEF Holds, TypeOK, Logins, Fresh, Announcement, Announced, ClientGone,
       watchdog, agents, manager
  <2>2. \A b \in Agents : RoomHolds(b)' <=> RoomHolds(b)
    BY DEF RoomHolds, ClientGone, watchdog, agents, manager
  <2> QED
    BY <2>1, <2>2, Unmoved DEF TypeOK, ClientGone, watchdog, agents, manager
<1> QED
  BY <1>1, <1>2, <1>3, <1>4, <1>5, <1>6, <1>7

\* The gate reports a closed socket.
LEMMA StepSocketClosed ==
  ASSUME IInv, NEW f \in Fds, SocketClosed(f)
  PROVE  IInv'
<1> USE DEF IInv, Agents, Alive
<1>b. f \in Fds /\ Announced(f)
  BY DEF Announcement, SocketClosed
<1>a. /\ f \in Fds /\ Announced(f)
      /\ agentfd[f] # None => /\ agentfd[f] \in Fds /\ closer[f].pc = "none"
                             /\ status[agentfd[f]] \in {"running", "exited"}
  BY <1>b, Closable
<1>1. TypeOK'
  BY <1>a, FdsAssumption DEF TypeOK, SocketClosed, watchdog, agents, manager, CloseAgent
<1>2. Logins'
  BY <1>a, FdsAssumption DEF TypeOK, Logins, Fresh, Announcement, Battles, Announced,
     SocketClosed, watchdog, agents, manager, CloseAgent
<1>3. Fresh'
  BY <1>a, FdsAssumption DEF TypeOK, Fresh, Logins, Announcement, Announced, Battles,
     SocketClosed, watchdog, agents, manager, CloseAgent
<1>4. Announcement'
  BY <1>a, FdsAssumption DEF TypeOK, Announcement, Announced, Logins, Fresh, Running,
     SocketClosed, watchdog, agents, manager, CloseAgent
<1>5. Running'
  BY <1>a, FdsAssumption DEF TypeOK, Running, SocketClosed, watchdog, agents, manager,
     CloseAgent
<1>6. Battles'
  BY <1>a, FdsAssumption DEF TypeOK, Battles, Fresh, SocketClosed, watchdog, agents, manager,
     CloseAgent
<1>7. RefCounted'
  <2>1. \A b \in Agents : status'[b] # "exited" => \A g \in Fds : Holds(g, b)' <=> Holds(g, b)
    BY <1>a, FdsAssumption DEF Holds, TypeOK, Logins, Fresh, Announcement, Announced,
       SocketClosed, watchdog, agents, manager, CloseAgent
  <2>2. \A b \in Agents : RoomHolds(b)' <=> RoomHolds(b)
    BY <1>a DEF RoomHolds, SocketClosed, watchdog, agents, manager, CloseAgent
  <2> QED
    BY <1>a, <2>1, <2>2, Unmoved DEF TypeOK, SocketClosed, watchdog, agents, manager, CloseAgent
<1> QED
  BY <1>1, <1>2, <1>3, <1>4, <1>5, <1>6, <1>7

\* A heart beat times out.
LEMMA StepHeartbeat ==
  ASSUME IInv, NEW a \in Fds, HeartbeatTimeout(a)
  PROVE  IInv'
<1> USE DEF IInv, Agents, Alive
<1>b. user_fd[a] \in Fds /\ Announced(user_fd[a])
  BY DEF Running, Announcement, HeartbeatTimeout
<1>a. /\ user_fd[a] \in Fds /\ Announced(user_fd[a])
      /\ agentfd[user_fd[a]] # None => /\ agentfd[user_fd[a]] \in Fds /\ closer[user_fd[a]].pc = "none"
                             /\ status[agentfd[user_fd[a]]] \in {"running", "exited"}
  BY <1>b, Closable
<1>1. TypeOK'
  BY <1>a, FdsAssumption DEF TypeOK, HeartbeatTimeout, watchdog, agents, manager, CloseAgent
<1>2. Logins'
  BY <1>a, FdsAssumption DEF TypeOK, Logins, Fresh, Announcement, Battles, Announced,
     HeartbeatTimeout, watchdog, agents, manager, CloseAgent
<1>3. Fresh'
  BY <1>a, FdsAssumption DEF TypeOK, Fresh, Logins, Announcement, Announced, Battles,
     HeartbeatTimeout, watchdog, agents, manager, CloseAgent
<1>4. Announcement'
  BY <1>a, FdsAssumption DEF TypeOK, Announcement, Announced, Logins, Fresh, Running,
     HeartbeatTimeout, watchdog, agents, manager, CloseAgent
<1>5. Running'
  BY <1>a, FdsAssumption DEF TypeOK, Running, HeartbeatTimeout, watchdog, agents, manager,
     CloseAgent
<1>6. Battles'
  BY <1>a, FdsAssumption DEF TypeOK, Battles, Fresh, HeartbeatTimeout, watchdog, agents,
     manager, CloseAgent
<1>7. RefCounted'
  <2>1. \A b \in Agents : status'[b] # "exited" => \A g \in Fds : Holds(g, b)' <=> Holds(g, b)
    BY <1>a, FdsAssumption DEF Holds, TypeOK, Logins, Fresh, Announcement, Announced,
       HeartbeatTimeout, watchdog, agents, manager, CloseAgent
  <2>2. \A b \in Agents : RoomHolds(b)' <=> RoomHolds(b)
    BY <1>a DEF RoomHolds, HeartbeatTimeout, watchdog, agents, manager, CloseAgent
  <2> QED
    BY <1>a, <2>1, <2>2, Unmoved DEF TypeOK, HeartbeatTimeout, watchdog, agents, manager,
       CloseAgent
<1> QED
  BY <1>1, <1>2, <1>3, <1>4, <1>5, <1>6, <1>7

\* A socket is kicked.
LEMMA StepKick ==
  ASSUME IInv, NEW f \in Fds, Kick(f)
  PROVE  IInv'
<1> USE DEF IInv, Agents, Alive
<1>1. TypeOK'
  BY FdsAssumption DEF TypeOK, Kick, watchdog, agents, manager
<1>2. Logins'
  BY FdsAssumption DEF TypeOK, Logins, Fresh, Announcement, Battles, Announced, Kick,
     watchdog, agents, manager
<1>3. Fresh'
  BY FdsAssumption DEF TypeOK, Fresh, Logins, Announcement, Announced, Battles, Kick,
     watchdog, agents, manager
<1>4. Announcement'
  BY FdsAssumption DEF TypeOK, Announcement, Announced, Logins, Fresh, Running, Kick,
     watchdog, agents, manager
<1>5. Running'
  BY FdsAssumption DEF TypeOK, Running, Kick, watchdog, agents, manager
<1>6. Battles'
  BY FdsAssumption DEF TypeOK, Battles, Fresh, Kick, watchdog, agents, manager
<1>7. RefCounted'
  <2>1. \A b \in Agents : status'[b] # "exited" => \A g \in Fds : Holds(g, b)' <=> Holds(g, b)
    BY FdsAssumption DEF Holds, TypeOK, Logins, Fresh, Announcement, Announced, Kick,
       watchdog, agents, manager
  <2>2. \A b \in Agents : RoomHolds(b)' <=> RoomHolds(b)
    BY DEF RoomHolds, Kick, watchdog, agents, manager
  <2> QED
    BY <2>1, <2>2, Unmoved DEF TypeOK, Kick, watchdog, agents, manager
<1> QED
  BY <1>1, <1>2, <1>3, <1>4, <1>5, <1>6, <1>7

\* A reference is given back.
LEMMA StepDeref ==
  ASSUME IInv, NEW f \in Fds, Deref(f)
  PROVE  IInv'
<1> USE DEF IInv, Agents, Alive
<1>b. closer[f].agent \in Fds /\ agentfd[f] = None /\ Announced(f)
  BY FdsAssumption DEF Announcement, TypeOK, Deref
<1>a. /\ closer[f].agent \in Fds /\ status[closer[f].agent] = "running"
      /\ agentfd[f] = None /\ Announced(f)
  BY <1>b DEF Fresh, TypeOK, Deref
<1>1. TypeOK'
  <2>0. PICK a \in Agents : a = closer[f].agent
    BY <1>a
  <2>1. f \in Holders(a)
    BY <2>0, <1>a DEF Holders, Holds, Deref
  <2>2. /\ ref_connect[a] = Cardinality(Holders(a)) + IF RoomHolds(a) THEN 1 ELSE 0
        /\ Cardinality(Holders(a)) \in Nat /\ Cardinality(Fds) \in Nat /\ Holders(a) \in SUBSET Fds
        /\ Cardinality(Holders(a)) <= Cardinality(Fds)
    BY <2>0, <1>a, RefBounds
  <2>3. Cardinality(Holders(a)) >= 1
    BY <2>1, <2>2, DropCard
  <2>4. ref_connect[a] - 1 \in 0 .. Cardinality(Fds) + 1
    BY <2>2, <2>3 DEF RoomHolds
  <2> QED
    BY <2>4, <2>0, <1>a DEF TypeOK, Deref, watchdog, agents, manager
<1>2. Logins'
  BY <1>a, FdsAssumption DEF TypeOK, Logins, Fresh, Announcement, Battles, Announced, Deref,
     watchdog, agents, manager
<1>3. Fresh'
  BY <1>a, FdsAssumption DEF TypeOK, Fresh, Logins, Announcement, Announced, Battles, Deref,
     watchdog, agents, manager
<1>4. Announcement'
  BY <1>a, FdsAssumption DEF TypeOK, Announcement, Announced, Logins, Fresh, Running, Deref,
     watchdog, agents, manager
<1>5. Running'
  BY <1>a, FdsAssumption DEF TypeOK, Running, Deref, watchdog, agents, manager
<1>6. Battles'
  BY <1>a, FdsAssumption DEF TypeOK, Battles, Fresh, Deref, watchdog, agents, manager
<1>7. RefCounted'
  <2>0. PICK a \in Agents : a = closer[f].agent
    BY <1>a
  <2>1. \A b \in Agents \ {a} : \A g \in Fds : Holds(g, b)' <=> Holds(g, b)
    BY <2>0, <1>a, FdsAssumption DEF Holds, TypeOK, Announced, Deref, watchdog, agents, manager
  <2>2. Holders(a)' = Holders(a) \ {f} /\ f \in Holders(a)
    BY <2>0, <1>a, FdsAssumption DEF Holders, Holds, TypeOK, Announced, Deref, watchdog,
       agents, manager
  <2>3. Cardinality(Holders(a)') = Cardinality(Holders(a)) - 1
    BY <2>2, DropCard DEF Holders
  <2>4. \A b \in Agents : RoomHolds(b)' <=> RoomHolds(b)
    BY <2>0, <1>a DEF RoomHolds, Deref, watchdog, agents, manager
  <2>5. ref_connect'[a] = ref_connect[a] - 1
    BY <2>0, <1>a DEF TypeOK, Deref
  <2>6. /\ ref_connect[a] = Cardinality(Holders(a)) + IF RoomHolds(a) THEN 1 ELSE 0
        /\ Cardinality(Holders(a)) \in Nat
    BY <2>0, <1>a, RefBounds
  <2>7. ref_connect'[a] = Cardinality(Holders(a)') + IF RoomHolds(a)' THEN 1 ELSE 0
    BY <2>3, <2>4, <2>5, <2>6 DEF RoomHolds
  <2>8. \A b \in Agents \ {a} : ref_connect'[b] = ref_connect[b] /\ status'[b] = status[b]
    BY <2>0, <1>a DEF TypeOK, Deref, watchdog, agents, manager
  <2> QED
    BY <2>1, <2>4, <2>7, <2>8, Moved
<1> QED
  BY <1>1, <1>2, <1>3, <1>4, <1>5, <1>6, <1>7

\* A reference cannot be given back.
LEMMA StepDerefFails ==
  ASSUME IInv, NEW f \in Fds, DerefFails(f)
  PROVE  IInv'
<1> USE DEF IInv, Agents, Alive
<1>a. closer[f].agent \in Fds => status[closer[f].agent] = "exited"
  BY DEF Fresh, TypeOK, DerefFails
<1>1. TypeOK'
  BY <1>a, FdsAssumption DEF TypeOK, DerefFails, watchdog, agents, manager
<1>2. Logins'
  BY <1>a, FdsAssumption DEF TypeOK, Logins, Fresh, Announcement, Battles, Announced,
     DerefFails, watchdog, agents, manager
<1>3. Fresh'
  BY <1>a, FdsAssumption DEF TypeOK, Fresh, Logins, Announcement, Announced, Battles,
     DerefFails, watchdog, agents, manager
<1>4. Announcement'
  BY <1>a, FdsAssumption DEF TypeOK, Announcement, Announced, Logins, Fresh, Running,
     DerefFails, watchdog, agents, manager
<1>5. Running'
  BY <1>a, FdsAssumption DEF TypeOK, Running, DerefFails, watchdog, agents, manager
<1>6. Battles'
  BY <1>a, FdsAssumption DEF TypeOK, Battles, Fresh, DerefFails, watchdog, agents, manager
<1>7. RefCounted'
  <2>1. \A b \in Agents : status'[b] # "exited" => \A g \in Fds : Holds(g, b)' <=> Holds(g, b)
    BY <1>a, FdsAssumption DEF Holds, TypeOK, Logins, Fresh, Announcement, Announced,
       DerefFails, watchdog, agents, manager
  <2>2. \A b \in Agents : RoomHolds(b)' <=> RoomHolds(b)
    BY <1>a DEF RoomHolds, DerefFails, watchdog, agents, manager
  <2> QED
    BY <1>a, <2>1, <2>2, Unmoved DEF TypeOK, DerefFails, watchdog, agents, manager
<1> QED
  BY <1>1, <1>2, <1>3, <1>4, <1>5, <1>6, <1>7

\* An agent is told to leave.
LEMMA StepSendDisconnect ==
  ASSUME IInv, NEW f \in Fds, SendDisconnect(f)
  PROVE  IInv'
<1> USE DEF IInv, Agents, Alive
<1>1. TypeOK'
  BY ZenonT(90), FdsAssumption DEF TypeOK, SendDisconnect, watchdog, agents, manager
<1>2. Logins'
  BY FdsAssumption DEF TypeOK, Logins, Fresh, Announcement, Battles, Announced,
     SendDisconnect, watchdog, agents, manager
<1>3. Fresh'
  BY FdsAssumption DEF TypeOK, Fresh, Logins, Announcement, Announced, Battles,
     SendDisconnect, watchdog, agents, manager
<1>4. Announcement'
  BY FdsAssumption DEF TypeOK, Announcement, Announced, Logins, Fresh, Running,
     SendDisconnect, watchdog, agents, manager
<1>5. Running'
  BY FdsAssumption DEF TypeOK, Running, SendDisconnect, watchdog, agents, manager
<1>6. Battles'
  BY FdsAssumption DEF TypeOK, Battles, Fresh, SendDisconnect, watchdog, agents, manager
<1>7. RefCounted'
  <2>1. \A b \in Agents : status'[b] # "exited" => \A g \in Fds : Holds(g, b)' <=> Holds(g, b)
    BY FdsAssumption DEF Holds, TypeOK, Logins, Fresh, Announcement, Announced,
       SendDisconnect, watchdog, agents, manager
  <2>2. \A b \in Agents : RoomHolds(b)' <=> RoomHolds(b)
    BY DEF RoomHolds, SendDisconnect, watchdog, agents, manager
  <2> QED
    BY <2>1, <2>2, Unmoved DEF TypeOK, SendDisconnect, watchdog, agents, manager
<1> QED
  BY <1>1, <1>2, <1>3, <1>4, <1>5, <1>6, <1>7

\* An agent exits.
LEMMA StepDisconnect ==
  ASSUME IInv, NEW a \in Fds, Disconnect(a)
  PROVE  IInv'
<1> USE DEF IInv, Agents, Alive
<1>a. status[a] = "running" /\ Announced(a)
  BY DEF Fresh, Logins, TypeOK, Disconnect
<1>1. TypeOK'
  BY <1>a, FdsAssumption DEF TypeOK, Disconnect, watchdog, agents, manager
<1>2. Logins'
  BY <1>a, FdsAssumption DEF TypeOK, Logins, Fresh, Announcement, Battles, Announced,
     Disconnect, watchdog, agents, manager
<1>3. Fresh'
  BY <1>a, FdsAssumption DEF TypeOK, Fresh, Logins, Announcement, Announced, Battles,
     Disconnect, watchdog, agents, manager
<1>4. Announcement'
  BY <1>a, FdsAssumption DEF TypeOK, Announcement, Announced, Logins, Fresh, Running,
     Disconnect, watchdog, agents, manager
<1>5. Running'
  BY <1>a, FdsAssumption DEF TypeOK, Running, Disconnect, watchdog, agents, manager
<1>6. Battles'
  BY <1>a, FdsAssumption DEF TypeOK, Battles, Fresh, Disconnect, watchdog, agents, manager
<1>7. RefCounted'
  <2>1. \A b \in Agents : status'[b] # "exited" => \A g \in Fds : Holds(g, b)' <=> Holds(g, b)
    BY <1>a, FdsAssumption DEF Holds, TypeOK, Logins, Fresh, Announcement, Announced,
       Disconnect, watchdog, agents, manager
  <2>2. \A b \in Agents : RoomHolds(b)' <=> RoomHolds(b)
    BY <1>a DEF RoomHolds, Disconnect, watchdog, agents, manager
  <2> QED
    BY <1>a, <2>1, <2>2, Unmoved DEF TypeOK, Disconnect, watchdog, agents, manager
<1> QED
  BY <1>1, <1>2, <1>3, <1>4, <1>5, <1>6, <1>7

\* A client enters the game.
LEMMA StepEnterGame ==
  ASSUME IInv, NEW f \in Fds, EnterGame(f)
  PROVE  IInv'
<1> USE DEF IInv, Agents, Alive
<1>a. agentAccount \in SUBSET Fds /\ entering \in [Fds -> [pc : {"none", "loop", "done"}, todo : SUBSET Fds, at : Fds \cup {None}]]
  BY DEF TypeOK
<1>1. TypeOK'
  <2>1. entering[f] \in [pc : {"none", "loop", "done"}, todo : SUBSET Fds, at : Fds \cup {None}]
    BY DEF TypeOK
  <2>2. entering' \in [Fds -> [pc : {"none", "loop", "done"}, todo : SUBSET Fds, at : Fds \cup {None}]]
    BY <2>1, <1>a DEF TypeOK, EnterGame
  <2> QED
    BY <2>2, <1>a, FdsAssumption DEF TypeOK, EnterGame, watchdog, agents, manager
<1>2. Logins'
  BY <1>a, FdsAssumption DEF TypeOK, Logins, Fresh, Announcement, Battles, Announced,
     EnterGame, watchdog, agents, manager
<1>3. Fresh'
  BY <1>a, FdsAssumption DEF TypeOK, Fresh, Logins, Announcement, Announced, Battles,
     EnterGame, watchdog, agents, manager
<1>4. Announcement'
  BY <1>a, FdsAssumption DEF TypeOK, Announcement, Announced, Logins, Fresh, Running,
     EnterGame, watchdog, agents, manager
<1>5. Running'
  BY <1>a, FdsAssumption DEF TypeOK, Running, EnterGame, watchdog, agents, manager
<1>6. Battles'
  BY <1>a, FdsAssumption DEF TypeOK, Battles, Fresh, EnterGame, watchdog, agents, manager
<1>7. RefCounted'
  <2>1. \A b \in Agents : status'[b] # "exited" => \A g \in Fds : Holds(g, b)' <=> Holds(g, b)
    BY <1>a, FdsAssumption DEF Holds, TypeOK, Logins, Fresh, Announcement, Announced,
       EnterGame, watchdog, agents, manager
  <2>2. \A b \in Agents : RoomHolds(b)' <=> RoomHolds(b)
    BY <1>a DEF RoomHolds, EnterGame, watchdog, agents, manager
  <2> QED
    BY <1>a, <2>1, <2>2, Unmoved DEF TypeOK, EnterGame, watchdog, agents, manager
<1> QED
  BY <1>1, <1>2, <1>3, <1>4, <1>5, <1>6, <1>7

\* userEnter closes another connection.
LEMMA StepCloseOther ==
  ASSUME IInv, NEW f \in Fds, NEW k \in Fds, CloseOther(f, k)
  PROVE  IInv'
<1> USE DEF IInv, Agents, Alive
<1>b. k \in Fds /\ Announced(k)
  BY DEF Announcement, CloseOther
<1>a. /\ k \in Fds /\ Announced(k)
      /\ agentfd[k] # None => /\ agentfd[k] \in Fds /\ closer[k].pc = "none"
                             /\ status[agentfd[k]] \in {"running", "exited"}
  BY <1>b, Closable
<1>1. TypeOK'
  <2>1. entering[f] \in [pc : {"none", "loop", "done"}, todo : SUBSET Fds, at : Fds \cup {None}]
    BY DEF TypeOK
  <2>2. entering' \in [Fds -> [pc : {"none", "loop", "done"}, todo : SUBSET Fds, at : Fds \cup {None}]]
    BY ZenonT(30), <2>1, <1>a DEF TypeOK, CloseOther
  <2> QED
    BY <2>2, <1>a, FdsAssumption DEF TypeOK, CloseOther, CloseAgent, watchdog, agents, manager
<1>2. Logins'
  BY <1>a, FdsAssumption DEF TypeOK, Logins, Fresh, Announcement, Battles, Announced,
     CloseOther, watchdog, agents, manager, CloseAgent
<1>3. Fresh'
  BY <1>a, FdsAssumption DEF TypeOK, Fresh, Logins, Announcement, Announced, Battles,
     CloseOther, watchdog, agents, manager, CloseAgent
<1>4. Announcement'
  BY <1>a, FdsAssumption DEF TypeOK, Announcement, Announced, Logins, Fresh, Running,
     CloseOther, watchdog, agents, manager, CloseAgent
<1>5. Running'
  BY <1>a, FdsAssumption DEF TypeOK, Running, CloseOther, watchdog, agents, manager, CloseAgent
<1>6. Battles'
  BY <1>a, FdsAssumption DEF TypeOK, Battles, Fresh, CloseOther, watchdog, agents, manager,
     CloseAgent
<1>7. RefCounted'
  <2>1. \A b \in Agents : status'[b] # "exited" => \A g \in Fds : Holds(g, b)' <=> Holds(g, b)
    BY <1>a, FdsAssumption DEF Holds, TypeOK, Logins, Fresh, Announcement, Announced,
       CloseOther, watchdog, agents, manager, CloseAgent
  <2>2. \A b \in Agents : RoomHolds(b)' <=> RoomHolds(b)
    BY <1>a DEF RoomHolds, CloseOther, watchdog, agents, manager, CloseAgent
  <2> QED
    BY <1>a, <2>1, <2>2, Unmoved DEF TypeOK, CloseOther, watchdog, agents, manager, CloseAgent
<1> QED
  BY <1>1, <1>2, <1>3, <1>4, <1>5, <1>6, <1>7

\* userEnter goes on.
LEMMA StepOtherClosed ==
  ASSUME IInv, NEW f \in Fds, OtherClosed(f)
  PROVE  IInv'
<1> USE DEF IInv, Agents, Alive
<1>a. agentAccount \in SUBSET Fds /\ entering \in [Fds -> [pc : {"none", "loop", "done"}, todo : SUBSET Fds, at : Fds \cup {None}]]
  BY DEF TypeOK
<1>1. TypeOK'
  <2>1. entering[f] \in [pc : {"none", "loop", "done"}, todo : SUBSET Fds, at : Fds \cup {None}]
    BY DEF TypeOK
  <2>2. entering' \in [Fds -> [pc : {"none", "loop", "done"}, todo : SUBSET Fds, at : Fds \cup {None}]]
    BY <2>1, <1>a DEF TypeOK, OtherClosed
  <2> QED
    BY <2>2, <1>a, FdsAssumption DEF TypeOK, OtherClosed, watchdog, agents, manager
<1>2. Logins'
  BY <1>a, FdsAssumption DEF TypeOK, Logins, Fresh, Announcement, Battles, Announced,
     OtherClosed, watchdog, agents, manager
<1>3. Fresh'
  BY <1>a, FdsAssumption DEF TypeOK, Fresh, Logins, Announcement, Announced, Battles,
     OtherClosed, watchdog, agents, manager
<1>4. Announcement'
  BY <1>a, FdsAssumption DEF TypeOK, Announcement, Announced, Logins, Fresh, Running,
     OtherClosed, watchdog, agents, manager
<1>5. Running'
  BY <1>a, FdsAssumption DEF TypeOK, Running, OtherClosed, watchdog, agents, manager
<1>6. Battles'
  BY <1>a, FdsAssumption DEF TypeOK, Battles, Fresh, OtherClosed, watchdog, agents, manager
<1>7. RefCounted'
  <2>1. \A b \in Agents : status'[b] # "exited" => \A g \in Fds : Holds(g, b)' <=> Holds(g, b)
    BY <1>a, FdsAssumption DEF Holds, TypeOK, Logins, Fresh, Announcement, Announced,
       OtherClosed, watchdog, agents, manager
  <2>2. \A b \in Agents : RoomHolds(b)' <=> RoomHolds(b)
    BY <1>a DEF RoomHolds, OtherClosed, watchdog, agents, manager
  <2> QED
    BY <1>a, <2>1, <2>2, Unmoved DEF TypeOK, OtherClosed, watchdog, agents, manager
<1> QED
  BY <1>1, <1>2, <1>3, <1>4, <1>5, <1>6, <1>7

\* userEnter registers user.fd.
LEMMA StepRegister ==
  ASSUME IInv, NEW f \in Fds, Register(f)
  PROVE  IInv'
<1> USE DEF IInv, Agents, Alive
<1>a. login[f].agent \in Fds /\ Announced(login[f].agent)
  BY SMTT(30) DEF Announcement, Announced, Logins, Fresh, TypeOK, Register
<1>1. TypeOK'
  <2>1. entering[f] \in [pc : {"none", "loop", "done"}, todo : SUBSET Fds, at : Fds \cup {None}]
    BY DEF TypeOK
  <2>2. entering' \in [Fds -> [pc : {"none", "loop", "done"}, todo : SUBSET Fds, at : Fds \cup {None}]]
    BY <2>1, <1>a DEF TypeOK, Register
  <2> QED
    BY SMTT(30), <2>2, <1>a, FdsAssumption DEF TypeOK, Register, watchdog, agents, manager
<1>2. Logins'
  BY <1>a, FdsAssumption DEF TypeOK, Logins, Fresh, Announcement, Battles, Announced,
     Register, watchdog, agents, manager
<1>3. Fresh'
  BY <1>a, FdsAssumption DEF TypeOK, Fresh, Logins, Announcement, Announced, Battles,
     Register, watchdog, agents, manager
<1>4. Announcement'
  BY <1>a, FdsAssumption DEF TypeOK, Announcement, Announced, Logins, Fresh, Running,
     Register, watchdog, agents, manager
<1>5. Running'
  BY <1>a, FdsAssumption DEF TypeOK, Running, Register, watchdog, agents, manager
<1>6. Battles'
  BY <1>a, FdsAssumption DEF TypeOK, Battles, Fresh, Register, watchdog, agents, manager
<1>7. RefCounted'
  <2>1. \A b \in Agents : status'[b] # "exited" => \A g \in Fds : Holds(g, b)' <=> Holds(g, b)
    BY <1>a, FdsAssumption DEF Holds, TypeOK, Logins, Fresh, Announcement, Announced,
       Register, watchdog, agents, manager
  <2>2. \A b \in Agents : RoomHolds(b)' <=> RoomHolds(b)
    BY <1>a DEF RoomHolds, Register, watchdog, agents, manager
  <2> QED
    BY <1>a, <2>1, <2>2, Unmoved DEF TypeOK, Register, watchdog, agents, manager
<1> QED
  BY <1>1, <1>2, <1>3, <1>4, <1>5, <1>6, <1>7

\* A battle begins.
LEMMA StepRoomStarts ==
  ASSUME IInv, NEW a \in Fds, RoomStarts(a)
  PROVE  IInv'
<1> USE DEF IInv, Agents, Alive
<1>a. starting = "none" /\ ending = "none"
  BY DEF Battles, RoomStarts, TypeOK
<1>1. TypeOK'
  BY <1>a, FdsAssumption DEF TypeOK, RoomStarts, watchdog, agents, manager
<1>2. Logins'
  BY <1>a, FdsAssumption DEF TypeOK, Logins, Fresh, Announcement, Battles, Announced,
     RoomStarts, watchdog, agents, manager
<1>3. Fresh'
  BY <1>a, FdsAssumption DEF TypeOK, Fresh, Logins, Announcement, Announced, Battles,
     RoomStarts, watchdog, agents, manager
<1>4. Announcement'
  BY <1>a, FdsAssumption DEF TypeOK, Announcement, Announced, Logins, Fresh, Running,
     RoomStarts, watchdog, agents, manager
<1>5. Running'
  BY <1>a, FdsAssumption DEF TypeOK, Running, RoomStarts, watchdog, agents, manager
<1>6. Battles'
  BY <1>a, FdsAssumption DEF TypeOK, Battles, Fresh, RoomStarts, watchdog, agents, manager
<1>7. RefCounted'
  <2>1. \A b \in Agents : status'[b] # "exited" => \A g \in Fds : Holds(g, b)' <=> Holds(g, b)
    BY <1>a, FdsAssumption DEF Holds, TypeOK, Logins, Fresh, Announcement, Announced,
       RoomStarts, watchdog, agents, manager
  <2>2. \A b \in Agents : RoomHolds(b)' <=> RoomHolds(b)
    BY <1>a DEF RoomHolds, Battles, TypeOK, RoomStarts, watchdog, agents, manager
  <2> QED
    BY <1>a, <2>1, <2>2, Unmoved DEF TypeOK, RoomStarts, watchdog, agents, manager
<1> QED
  BY <1>1, <1>2, <1>3, <1>4, <1>5, <1>6, <1>7

\* roomstart notes the battle.
LEMMA StepRoomStart ==
  ASSUME IInv, RoomStart
  PROVE  IInv'
<1> USE DEF IInv, Agents, Alive
<1>1. TypeOK'
  BY FdsAssumption DEF TypeOK, RoomStart, watchdog, agents, manager
<1>2. Logins'
  BY FdsAssumption DEF TypeOK, Logins, Fresh, Announcement, Battles, Announced, RoomStart,
     watchdog, agents, manager
<1>3. Fresh'
  BY FdsAssumption DEF TypeOK, Fresh, Logins, Announcement, Announced, Battles, RoomStart,
     watchdog, agents, manager
<1>4. Announcement'
  BY FdsAssumption DEF TypeOK, Announcement, Announced, Logins, Fresh, Running, RoomStart,
     watchdog, agents, manager
<1>5. Running'
  BY FdsAssumption DEF TypeOK, Running, RoomStart, watchdog, agents, manager
<1>6. Battles'
  BY FdsAssumption DEF TypeOK, Battles, Fresh, RoomStart, watchdog, agents, manager
<1>7. RefCounted'
  <2>1. \A b \in Agents : status'[b] # "exited" => \A g \in Fds : Holds(g, b)' <=> Holds(g, b)
    BY FdsAssumption DEF Holds, TypeOK, Logins, Fresh, Announcement, Announced, RoomStart,
       watchdog, agents, manager
  <2>2. \A b \in Agents : RoomHolds(b)' <=> RoomHolds(b)
    BY DEF RoomHolds, Battles, TypeOK, RoomStart, watchdog, agents, manager
  <2> QED
    BY <2>1, <2>2, Unmoved DEF TypeOK, RoomStart, watchdog, agents, manager
<1> QED
  BY <1>1, <1>2, <1>3, <1>4, <1>5, <1>6, <1>7

\* The server manager's loops stop before this account, or roomend does not
\* know it: no reference moves.
LEMMA StepRoomCut ==
  ASSUME IInv, RoomStartCut \/ RoomEndCut \/ RoomUnknown
  PROVE  IInv'
<1> USE DEF IInv, Agents, Alive
<1>1. TypeOK'
  BY FdsAssumption DEF TypeOK, RoomStartCut, RoomEndCut, RoomUnknown, watchdog, agents, manager
<1>2. Logins'
  BY FdsAssumption DEF TypeOK, Logins, Fresh, Announcement, Battles, Announced, RoomStartCut,
     RoomEndCut, RoomUnknown, watchdog, agents, manager
<1>3. Fresh'
  BY FdsAssumption DEF TypeOK, Fresh, Logins, Announcement, Announced, Battles, RoomStartCut,
     RoomEndCut, RoomUnknown, watchdog, agents, manager
<1>4. Announcement'
  BY FdsAssumption DEF TypeOK, Announcement, Announced, Logins, Fresh, Running, RoomStartCut,
     RoomEndCut, RoomUnknown, watchdog, agents, manager
<1>5. Running'
  BY FdsAssumption DEF TypeOK, Running, RoomStartCut, RoomEndCut, RoomUnknown, watchdog, agents, manager
<1>6. Battles'
  BY FdsAssumption DEF TypeOK, Battles, Fresh, RoomStartCut, RoomEndCut, RoomUnknown, watchdog, agents, manager
<1>7. RefCounted'
  <2>1. \A b \in Agents : status'[b] # "exited" => \A g \in Fds : Holds(g, b)' <=> Holds(g, b)
    BY FdsAssumption DEF Holds, TypeOK, Logins, Fresh, Announcement, Announced, RoomStartCut,
       RoomEndCut, RoomUnknown, watchdog, agents, manager
  <2>2. \A b \in Agents : RoomHolds(b)' <=> RoomHolds(b)
    BY DEF RoomHolds, Battles, TypeOK, RoomStartCut, RoomEndCut, RoomUnknown, watchdog, agents, manager
  <2> QED
    BY <2>1, <2>2, Unmoved DEF TypeOK, RoomStartCut, RoomEndCut, RoomUnknown, watchdog, agents, manager
<1> QED
  BY <1>1, <1>2, <1>3, <1>4, <1>5, <1>6, <1>7

\* The agent counts its battle.
LEMMA StepRoomRef ==
  ASSUME IInv, RoomRef
  PROVE  IInv'
<1> USE DEF IInv, Agents, Alive
<1>a. /\ room.agent \in Fds /\ status[room.agent] \in {"running", "exited"}
      /\ ending \in {"none", "posted"}
  BY DEF Battles, RoomRef, TypeOK
<1>1. TypeOK'
  <2>0. PICK a \in Agents : a = room.agent
    BY <1>a
  <2>1. CASE status[a] = "running"
    <3>1. ~RoomHolds(a)
      BY <2>1, <2>0, <1>a DEF RoomHolds, RoomRef
    <3>2. /\ ref_connect[a] = Cardinality(Holders(a)) + IF RoomHolds(a) THEN 1 ELSE 0
          /\ Cardinality(Holders(a)) \in Nat /\ Cardinality(Fds) \in Nat
          /\ Cardinality(Holders(a)) <= Cardinality(Fds)
      BY <2>1, <2>0, <1>a, RefBounds
    <3>3. ref_connect[a] + 1 \in 0 .. Cardinality(Fds) + 1
      BY <3>1, <3>2 DEF RoomHolds
    <3> QED
      BY <2>1, <3>3, <2>0, <1>a DEF TypeOK, RoomRef, watchdog, agents, manager
  <2>2. CASE status[a] # "running"
    BY <2>2, <2>0, <1>a DEF TypeOK, RoomRef, watchdog, agents, manager
  <2> QED
    BY <2>1, <2>2
<1>2. Logins'
  BY <1>a, FdsAssumption DEF TypeOK, Logins, Fresh, Announcement, Battles, Announced, RoomRef,
     watchdog, agents, manager
<1>3. Fresh'
  BY <1>a, FdsAssumption DEF TypeOK, Fresh, Logins, Announcement, Announced, Battles, RoomRef,
     watchdog, agents, manager
<1>4. Announcement'
  BY <1>a, FdsAssumption DEF TypeOK, Announcement, Announced, Logins, Fresh, Running, RoomRef,
     watchdog, agents, manager
<1>5. Running'
  BY <1>a, FdsAssumption DEF TypeOK, Running, RoomRef, watchdog, agents, manager
<1>6. Battles'
  BY <1>a, FdsAssumption DEF TypeOK, Battles, Fresh, RoomRef, watchdog, agents, manager
<1>7. RefCounted'
  <2>0. PICK a \in Agents : a = room.agent
    BY <1>a
  <2>1. CASE status[a] = "running"
    <3>1. \A b \in Agents, g \in Fds : Holds(g, b)' <=> Holds(g, b)
      BY DEF Holds, RoomRef, watchdog, agents, manager
    <3>8. Holders(a)' = Holders(a)
      BY <3>1 DEF Holders
    <3>2. \A b \in Agents \ {a} : RoomHolds(b)' <=> RoomHolds(b)
      BY <2>0, <1>a DEF RoomHolds, RoomRef, watchdog, agents, manager
    <3>3. ~RoomHolds(a) /\ RoomHolds(a)'
      BY <2>1, <2>0, <1>a DEF RoomHolds, RoomRef, watchdog, agents, manager
    <3>4. ref_connect'[a] = ref_connect[a] + 1
      BY <2>1, <2>0, <1>a DEF TypeOK, RoomRef
    <3>5. /\ ref_connect[a] = Cardinality(Holders(a)) + IF RoomHolds(a) THEN 1 ELSE 0
          /\ Cardinality(Holders(a)) \in Nat
      BY <2>1, <2>0, <1>a, RefBounds
    <3>6. ref_connect'[a] = Cardinality(Holders(a)') + IF RoomHolds(a)' THEN 1 ELSE 0
      BY <3>8, <3>3, <3>4, <3>5 DEF RoomHolds
    <3>7. \A b \in Agents \ {a} : ref_connect'[b] = ref_connect[b] /\ status'[b] = status[b]
      BY <2>1, <2>0, <1>a DEF TypeOK, RoomRef, watchdog, agents, manager
    <3> QED
      BY <3>1, <3>2, <3>6, <3>7, Moved
  <2>2. CASE status[a] # "running"
    <3>1. status[a] = "exited"
      BY <2>2, <2>0, <1>a DEF Battles, TypeOK, RoomRef
    <3>2. \A b \in Agents : status'[b] # "exited" =>
            /\ b # a /\ status[b] # "exited" /\ ref_connect'[b] = ref_connect[b]
            /\ \A g \in Fds : Holds(g, b)' <=> Holds(g, b)
      BY <3>1, <2>0, <1>a DEF Holds, TypeOK, RoomRef, watchdog, agents, manager
    <3>3. \A b \in Agents \ {a} : RoomHolds(b)' <=> RoomHolds(b)
      BY <2>0, <1>a DEF RoomHolds, RoomRef, watchdog, agents, manager
    <3> QED
      BY <3>2, <3>3, Unmoved
  <2> QED
    BY <2>1, <2>2
<1> QED
  BY <1>1, <1>2, <1>3, <1>4, <1>5, <1>6, <1>7

\* A battle ends.
LEMMA StepRoomEnds ==
  ASSUME IInv, RoomEnds
  PROVE  IInv'
<1> USE DEF IInv, Agents, Alive
<1>a. ending = "none"
  BY DEF Battles, RoomEnds, TypeOK
<1>1. TypeOK'
  BY <1>a, FdsAssumption DEF TypeOK, RoomEnds, watchdog, agents, manager
<1>2. Logins'
  BY <1>a, FdsAssumption DEF TypeOK, Logins, Fresh, Announcement, Battles, Announced,
     RoomEnds, watchdog, agents, manager
<1>3. Fresh'
  BY <1>a, FdsAssumption DEF TypeOK, Fresh, Logins, Announcement, Announced, Battles,
     RoomEnds, watchdog, agents, manager
<1>4. Announcement'
  BY <1>a, FdsAssumption DEF TypeOK, Announcement, Announced, Logins, Fresh, Running,
     RoomEnds, watchdog, agents, manager
<1>5. Running'
  BY <1>a, FdsAssumption DEF TypeOK, Running, RoomEnds, watchdog, agents, manager
<1>6. Battles'
  BY <1>a, FdsAssumption DEF TypeOK, Battles, Fresh, RoomEnds, watchdog, agents, manager
<1>7. RefCounted'
  <2>1. \A b \in Agents : status'[b] # "exited" => \A g \in Fds : Holds(g, b)' <=> Holds(g, b)
    BY <1>a, FdsAssumption DEF Holds, TypeOK, Logins, Fresh, Announcement, Announced,
       RoomEnds, watchdog, agents, manager
  <2>2. \A b \in Agents : RoomHolds(b)' <=> RoomHolds(b)
    BY <1>a DEF RoomHolds, Battles, TypeOK, RoomEnds, watchdog, agents, manager
  <2> QED
    BY <1>a, <2>1, <2>2, Unmoved DEF TypeOK, RoomEnds, watchdog, agents, manager
<1> QED
  BY <1>1, <1>2, <1>3, <1>4, <1>5, <1>6, <1>7

\* The battle's reference is given back.
LEMMA StepRoomDeref ==
  ASSUME IInv, RoomDeref
  PROVE  IInv'
<1> USE DEF IInv, Agents, Alive
<1>a. /\ room.agent \in Fds /\ roomAgent = room.agent
      /\ status[room.agent] \in {"running", "exited"}
      /\ status[room.agent] = "running" => starting = "done"
  BY DEF Battles, RoomDeref, TypeOK
<1>1. TypeOK'
  <2>0. PICK a \in Agents : a = room.agent
    BY <1>a
  <2>1. CASE status[a] = "running"
    <3>1. RoomHolds(a)
      BY <2>1, <2>0, <1>a DEF RoomHolds, RoomDeref
    <3>2. /\ ref_connect[a] = Cardinality(Holders(a)) + IF RoomHolds(a) THEN 1 ELSE 0
          /\ Cardinality(Holders(a)) \in Nat /\ Cardinality(Fds) \in Nat
          /\ Cardinality(Holders(a)) <= Cardinality(Fds)
      BY <2>1, <2>0, <1>a, RefBounds
    <3>3. ref_connect[a] - 1 \in 0 .. Cardinality(Fds) + 1
      BY <3>1, <3>2 DEF RoomHolds
    <3> QED
      BY <2>1, <3>3, <2>0, <1>a DEF TypeOK, RoomDeref, watchdog, agents, manager
  <2>2. CASE status[a] # "running"
    BY <2>2, <2>0, <1>a DEF TypeOK, RoomDeref, watchdog, agents, manager
  <2> QED
    BY <2>1, <2>2
<1>2. Logins'
  BY <1>a, FdsAssumption DEF TypeOK, Logins, Fresh, Announcement, Battles, Announced,
     RoomDeref, watchdog, agents, manager
<1>3. Fresh'
  BY <1>a, FdsAssumption DEF TypeOK, Fresh, Logins, Announcement, Announced, Battles,
     RoomDeref, watchdog, agents, manager
<1>4. Announcement'
  BY <1>a, FdsAssumption DEF TypeOK, Announcement, Announced, Logins, Fresh, Running,
     RoomDeref, watchdog, agents, manager
<1>5. Running'
  BY <1>a, FdsAssumption DEF TypeOK, Running, RoomDeref, watchdog, agents, manager
<1>6. Battles'
  BY <1>a, FdsAssumption DEF TypeOK, Battles, Fresh, RoomDeref, watchdog, agents, manager
<1>7. RefCounted'
  <2>0. PICK a \in Agents : a = room.agent
    BY <1>a
  <2>1. CASE status[a] = "running"
    <3>1. \A b \in Agents, g \in Fds : Holds(g, b)' <=> Holds(g, b)
      BY DEF Holds, RoomDeref, watchdog, agents, manager
    <3>8. Holders(a)' = Holders(a)
      BY <3>1 DEF Holders
    <3>2. \A b \in Agents \ {a} : RoomHolds(b)' <=> RoomHolds(b)
      BY <2>0, <1>a DEF RoomHolds, RoomDeref, watchdog, agents, manager
    <3>3. RoomHolds(a) /\ ~RoomHolds(a)'
      BY <2>1, <2>0, <1>a DEF RoomHolds, RoomDeref, watchdog, agents, manager
    <3>4. ref_connect'[a] = ref_connect[a] - 1
      BY <2>1, <2>0, <1>a DEF TypeOK, RoomDeref
    <3>5. /\ ref_connect[a] = Cardinality(Holders(a)) + IF RoomHolds(a) THEN 1 ELSE 0
          /\ Cardinality(Holders(a)) \in Nat
      BY <2>1, <2>0, <1>a, RefBounds
    <3>6. ref_connect'[a] = Cardinality(Holders(a)') + IF RoomHolds(a)' THEN 1 ELSE 0
      BY <3>8, <3>3, <3>4, <3>5 DEF RoomHolds
    <3>7. \A b \in Agents \ {a} : ref_connect'[b] = ref_connect[b] /\ status'[b] = status[b]
      BY <2>1, <2>0, <1>a DEF TypeOK, RoomDeref, watchdog, agents, manager
    <3> QED
      BY <3>1, <3>2, <3>6, <3>7, Moved
  <2>2. CASE status[a] # "running"
    <3>1. status[a] = "exited"
      BY <2>2, <2>0, <1>a DEF Battles, TypeOK, RoomDeref
    <3>2. \A b \in Agents : status'[b] # "exited" =>
            /\ b # a /\ status[b] # "exited" /\ ref_connect'[b] = ref_connect[b]
            /\ \A g \in Fds : Holds(g, b)' <=> Holds(g, b)
      BY <3>1, <2>0, <1>a DEF Holds, TypeOK, RoomDeref, watchdog, agents, manager
    <3>3. \A b \in Agents \ {a} : RoomHolds(b)' <=> RoomHolds(b)
      BY <2>0, <1>a DEF RoomHolds, RoomDeref, watchdog, agents, manager
    <3> QED
      BY <3>2, <3>3, Unmoved
  <2> QED
    BY <2>1, <2>2
<1> QED
  BY <1>1, <1>2, <1>3, <1>4, <1>5, <1>6, <1>7

\* roomend forgets the battle.
LEMMA StepRoomForget ==
  ASSUME IInv, RoomForget
  PROVE  IInv'
<1> USE DEF IInv, Agents, Alive
<1>a. /\ roomAgent \in Fds /\ roomAgent = room.agent
      /\ status[roomAgent] \in {"running", "exited"}
  BY DEF Battles, RoomForget, TypeOK
<1>1. TypeOK'
  BY <1>a, FdsAssumption DEF TypeOK, RoomForget, watchdog, agents, manager
<1>2. Logins'
  BY <1>a, FdsAssumption DEF TypeOK, Logins, Fresh, Announcement, Battles, Announced,
     RoomForget, watchdog, agents, manager
<1>3. Fresh'
  BY <1>a, FdsAssumption DEF TypeOK, Fresh, Logins, Announcement, Announced, Battles,
     RoomForget, watchdog, agents, manager
<1>4. Announcement'
  BY <1>a, FdsAssumption DEF TypeOK, Announcement, Announced, Logins, Fresh, Running,
     RoomForget, watchdog, agents, manager
<1>5. Running'
  BY <1>a, FdsAssumption DEF TypeOK, Running, RoomForget, watchdog, agents, manager
<1>6. Battles'
  BY <1>a, FdsAssumption DEF TypeOK, Battles, Fresh, RoomForget, watchdog, agents, manager
<1>7. RefCounted'
  <2>1. \A b \in Agents : status'[b] # "exited" => \A g \in Fds : Holds(g, b)' <=> Holds(g, b)
    BY <1>a, FdsAssumption DEF Holds, TypeOK, Logins, Fresh, Announcement, Announced,
       RoomForget, watchdog, agents, manager
  <2>2. \A b \in Agents : RoomHolds(b)' <=> RoomHolds(b)
    BY <1>a DEF RoomHolds, Battles, TypeOK, RoomForget, watchdog, agents, manager
  <2> QED
    BY <1>a, <2>1, <2>2, Unmoved DEF TypeOK, RoomForget, watchdog, agents, manager
<1> QED
  BY <1>1, <1>2, <1>3, <1>4, <1>5, <1>6, <1>7

-----------------------------------------------------------------------------
\* Every step keeps the inductive invariant.
LEMMA NextIInv == IInv /\ [Next]_vars => IInv'
<1> SUFFICES ASSUME IInv, [Next]_vars PROVE IInv'
  OBVIOUS
<1>1. ASSUME NEW f \in Fds, Serve(f) PROVE IInv'
  BY <1>1, StepNoRoom, StepAskRoom, StepRoomAnswers, StepNewAgent, StepAgentEnter, StepStart,
     StepReconnect, StepReconnectFails, StepForward, StepSocketClosed, StepKick, StepDeref,
     StepDerefFails, StepSendDisconnect, StepDisconnect, StepOtherClosed, StepRegister,
     StepCloseOther DEF Serve, Agents
<1>2. CASE Battle
  BY <1>2, StepRoomStart, StepRoomRef, StepRoomEnds, StepRoomDeref, StepRoomForget, StepRoomCut
  DEF Battle
<1>3. CASE Players
  BY <1>3, StepAuth, StepClientGone, StepEnterGame, StepHeartbeat, StepRoomStarts DEF Players
<1>4. CASE UNCHANGED vars
  BY <1>4 DEF vars, IInv, TypeOK, Logins, Fresh, Announcement, Announced, Running, Battles,
              RefCounted, Holders, Holds, RoomHolds
<1> QED
  BY <1>1, <1>2, <1>3, <1>4 DEF Next

\* The inductive invariant holds in every reachable state.
LEMMA Inductive == Spec => []IInv
<1> QED
  BY InitIInv, NextIInv, PTL DEF Spec

\* The session's state is well typed; in particular no counter falls below
\* zero or rises above the connections and the battle (addConnectRef).
THEOREM TypeCorrect == Spec => []TypeOK
<1>1. IInv => TypeOK
  BY DEF IInv
<1> QED
  BY <1>1, Inductive, PTL

\* For any number of connections, ref_connect of an agent that has not exited
\* is exactly the number of connections and battles that hold it: close_agent's
\* three callers, reconnect, roomstart and roomend lose and double nothing.
THEOREM CounterIsExact == Spec => []RefCounted
<1>1. IInv => RefCounted
  BY DEF IInv
<1> QED
  BY <1>1, Inductive, PTL
=============================================================================
