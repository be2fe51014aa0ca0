------------------------------ MODULE Session ------------------------------
(***************************************************************************)
(* The life of one account's agents: the login slave that authenticates a  *)
(* connection, the watchdog that ties connections to agents, the counter    *)
(* ref_connect with which an agent outlives its connections while a room    *)
(* needs it, and the server manager that remembers the account's room.      *)
(*                                                                          *)
(* Every service is a skynet actor: a handler runs until it calls another   *)
(* service, and other messages are handled before the answer comes.  One    *)
(* action is one handler run between two such calls.                        *)
(*                                                                          *)
(* An agent is named by the connection whose login created it; that is also *)
(* the value its field user.fd keeps for ever (agent.lua:227).  The other   *)
(* players of the battle are seen where the server manager's loops over all *)
(* of them stop at one whose agent has exited.                              *)
(***************************************************************************)
EXTENDS Integers, FiniteSets

CONSTANTS
  Fds,     \* the connections that ever log in to the account
  None     \* nil

ASSUME FdsAssumption == IsFiniteSet(Fds) /\ None \notin Fds

VARIABLES
  link,         \* the socket: unborn, slave (owned by the login slave), gate
                \* (forwarded), lost (gone, the gate not yet told), closed
  login,        \* the coroutine of CMD.auth for a connection
  agentfd,      \* watchdog: connection -> agent
  agentAccount, \* watchdog: the connections registered under the account
  closer,       \* the coroutine of close_agent for a connection
  entering,     \* the coroutine of userEnter for a connection's enterGame
  status,       \* agent services
  ref_connect,  \* agent: references held on it
  user_fd,      \* agent: the connection it sends to
  beating,      \* agent: the heart-beat check is scheduled
  leaving,      \* agent: a "disconnect" is in its mailbox
  room,         \* the account's battle: phase, and the agent that plays it
  starting,     \* server manager: progress of roomstart
  ending,       \* server manager: progress of roomend
  roomAgent     \* server manager: roomAgent[account]; None also stands for
                \* roomAccount[account] = nil, they are set together

vars == <<link, login, agentfd, agentAccount, closer, entering, status,
          ref_connect, user_fd, beating, leaving, room, starting, ending,
          roomAgent>>

watchdog == <<agentfd, agentAccount, closer, entering>>
agents   == <<status, ref_connect, user_fd, beating, leaving>>
manager  == <<starting, ending, roomAgent>>

Agents == Fds

Idle == [pc |-> "none", agent |-> None]

Init ==
  /\ link = [f \in Fds |-> "unborn"]
  /\ login = [f \in Fds |-> Idle]
  /\ agentfd = [f \in Fds |-> None]
  /\ agentAccount = {}
  /\ closer = [f \in Fds |-> Idle]
  /\ entering = [f \in Fds |-> [pc |-> "none", todo |-> {}, at |-> None]]
  /\ status = [a \in Agents |-> "none"]
  /\ ref_connect = [a \in Agents |-> 0]
  /\ user_fd = [a \in Agents |-> None]
  /\ beating = [a \in Agents |-> FALSE]
  /\ leaving = [a \in Agents |-> FALSE]
  /\ room = [pc |-> "none", agent |-> None]
  /\ starting = "none"
  /\ ending = "none"
  /\ roomAgent = None

Alive(a) == status[a] \in {"new", "running"}

(***************************************************************************)
(* Login.  auth hands the socket to the login slave: until the agent        *)
(* forwards it, the gate hears nothing of the connection.                   *)
(***************************************************************************)
\* SOCKET.open and auth up to sm.req.getAgent, the password accepted.
Auth(f) ==
  /\ link[f] = "unborn"
  /\ link' = [link EXCEPT ![f] = "slave"]
  /\ login' = [login EXCEPT ![f].pc = "getAgent"]
  /\ UNCHANGED <<watchdog, agents, room, manager>>

\* getAgent, no room known: the login slave creates an agent.
NoRoom(f) ==
  /\ login[f].pc = "getAgent" /\ roomAgent = None
  /\ login' = [login EXCEPT ![f].pc = "create"]
  /\ UNCHANGED <<link, watchdog, agents, room, manager>>

\* getAgent, a room known: it is asked how long the player was off line.
AskRoom(f) ==
  /\ login[f].pc = "getAgent" /\ roomAgent # None
  /\ login' = [login EXCEPT ![f].pc = "offLine"]
  /\ UNCHANGED <<link, watchdog, agents, room, manager>>

\* The answer: under 90 seconds the agent that is in roomAgent by now is
\* taken back; a room that is gone makes the call, and the login, fail.
RoomAnswers(f) ==
  /\ login[f].pc = "offLine"
  /\ \/ /\ room.pc = "open"
        /\ \E under \in BOOLEAN :
             login' = [login EXCEPT ![f] =
                         IF under /\ roomAgent # None
                           THEN [pc |-> "enter", agent |-> roomAgent]
                           ELSE [pc |-> "create", agent |-> None]]
     \/ /\ room.pc # "open"
        /\ login' = [login EXCEPT ![f].pc = "failed"]
  /\ UNCHANGED <<link, watchdog, agents, room, manager>>

\* skynet.newservice "agent".
NewAgent(f) ==
  /\ login[f].pc = "create"
  /\ login' = [login EXCEPT ![f] = [pc |-> "enter", agent |-> f]]
  /\ status' = [status EXCEPT ![f] = "new"]
  /\ UNCHANGED <<link, watchdog, ref_connect, user_fd, beating, leaving, room,
                 manager>>

\* CMD.agentEnter registers the connection, then calls the agent.
AgentEnter(f) ==
  /\ login[f].pc = "enter"
  /\ agentfd' = [agentfd EXCEPT ![f] = login[f].agent]
  /\ login' = [login EXCEPT ![f].pc =
                 IF login[f].agent = f THEN "start" ELSE "reconnect"]
  /\ UNCHANGED <<link, agentAccount, closer, entering, agents, room, manager>>

\* CMD.Start up to the call of the gate's forward.
Start(f) ==
  /\ login[f].pc = "start"
  /\ status' = [status EXCEPT ![f] = "running"]
  /\ ref_connect' = [ref_connect EXCEPT ![f] = 1]
  /\ user_fd' = [user_fd EXCEPT ![f] = f]
  /\ beating' = [beating EXCEPT ![f] = TRUE]
  /\ login' = [login EXCEPT ![f].pc = "forward"]
  /\ UNCHANGED <<link, watchdog, leaving, room, manager>>

\* CMD.reconnect up to the call of forward: user_fd moves to the new
\* connection, user.fd does not.
Reconnect(f) ==
  LET a == login[f].agent IN
  /\ login[f].pc = "reconnect" /\ Alive(a)
  /\ ref_connect' = [ref_connect EXCEPT ![a] = @ + 1]
  /\ user_fd' = [user_fd EXCEPT ![a] = f]
  /\ login' = [login EXCEPT ![f].pc = "forward"]
  /\ UNCHANGED <<link, watchdog, status, beating, leaving, room, manager>>

\* The agent getAgent named is gone: the call fails, agentEnter with it.
ReconnectFails(f) ==
  /\ login[f].pc = "reconnect" /\ ~Alive(login[f].agent)
  /\ login' = [login EXCEPT ![f].pc = "failed"]
  /\ UNCHANGED <<link, watchdog, agents, room, manager>>

\* The gate takes the socket; one that died in the login slave's hands is
\* reported as an error at once.
Forward(f) ==
  /\ login[f].pc = "forward"
  /\ login' = [login EXCEPT ![f].pc = "done"]
  /\ link' = [link EXCEPT ![f] = CASE @ = "slave" -> "gate"
                                    [] @ = "slaveDead" -> "lost"
                                    [] OTHER -> @]
  /\ UNCHANGED <<watchdog, agents, room, manager>>

(***************************************************************************)
(* The end of a connection                                                  *)
(***************************************************************************)
\* The client goes away.
ClientGone(f) ==
  /\ link[f] \in {"slave", "gate"}
  /\ link' = [link EXCEPT ![f] = IF @ = "slave" THEN "slaveDead" ELSE "lost"]
  /\ UNCHANGED <<login, watchdog, agents, room, manager>>

\* A fault: close_agent forgets the connection under the account only.
CloseAgentStillKnown(f) ==
  /\ agentAccount' = agentAccount \ {f}
  /\ closer' = IF agentfd[f] = None
                 THEN closer
                 ELSE [closer EXCEPT ![f] = [pc |-> "kick", agent |-> agentfd[f]]]
  /\ UNCHANGED agentfd

\* close_agent up to the kick: both tables forget the connection first, so
\* that of all who close it one goes on to give the reference back.
CloseAgent(f) ==
  /\ agentfd' = [agentfd EXCEPT ![f] = None]
  /\ agentAccount' = agentAccount \ {f}
  /\ closer' = IF agentfd[f] = None
                 THEN closer
                 ELSE [closer EXCEPT ![f] = [pc |-> "kick", agent |-> agentfd[f]]]

\* SOCKET.close and SOCKET.error, sent by the gate.
SocketClosed(f) ==
  /\ link[f] = "lost"
  /\ link' = [link EXCEPT ![f] = "closed"]
  /\ CloseAgent(f)
  /\ UNCHANGED <<login, entering, agents, room, manager>>

\* heartbeat_check finds 120 silent seconds: kick_self calls CMD.close with
\* user_fd, and the check is not scheduled again.
HeartbeatTimeout(a) ==
  /\ status[a] = "running" /\ beating[a]
  /\ beating' = [beating EXCEPT ![a] = FALSE]
  /\ CloseAgent(user_fd[a])
  /\ UNCHANGED <<link, login, entering, status, ref_connect, user_fd, leaving,
                 room, manager>>

\* The gate's kick.
Kick(f) ==
  /\ closer[f].pc = "kick"
  /\ closer' = [closer EXCEPT ![f].pc = "deref"]
  /\ link' = [link EXCEPT ![f] = IF @ = "closed" THEN @ ELSE "lost"]
  /\ UNCHANGED <<login, agentfd, agentAccount, entering, agents, room, manager>>

\* addConnectRef(-1) is answered; the answer decides about "disconnect" only
\* when the watchdog resumes.
Deref(f) ==
  LET a == closer[f].agent IN
  /\ closer[f].pc = "deref" /\ Alive(a)
  /\ ref_connect' = [ref_connect EXCEPT ![a] = @ - 1]
  /\ closer' = [closer EXCEPT ![f].pc =
                  IF ref_connect[a] - 1 <= 0 THEN "disconnect" ELSE "done"]
  /\ UNCHANGED <<link, login, agentfd, agentAccount, entering, status, user_fd,
                 beating, leaving, room, manager>>

\* addConnectRef(-1) fails, the agent is gone; so does what called close_agent.
DerefFails(f) ==
  /\ closer[f].pc = "deref" /\ ~Alive(closer[f].agent)
  /\ closer' = [closer EXCEPT ![f].pc = "failed"]
  /\ UNCHANGED <<link, login, agentfd, agentAccount, entering, agents, room,
                 manager>>

\* skynet.send(a, "disconnect").
SendDisconnect(f) ==
  /\ closer[f].pc = "disconnect"
  /\ leaving' = [leaving EXCEPT ![closer[f].agent] = TRUE]
  /\ closer' = [closer EXCEPT ![f].pc = "done"]
  /\ UNCHANGED <<link, login, agentfd, agentAccount, entering, status,
                 ref_connect, user_fd, beating, room, manager>>

\* CMD.disconnect: whatever the counter says by now, the agent exits.
Disconnect(a) ==
  /\ leaving[a] /\ Alive(a)
  /\ status' = [status EXCEPT ![a] = "exited"]
  /\ beating' = [beating EXCEPT ![a] = FALSE]
  /\ user_fd' = [user_fd EXCEPT ![a] = None]
  /\ UNCHANGED <<link, login, watchdog, ref_connect, leaving, room, manager>>

(***************************************************************************)
(* enterGame -> userEnter: the account's other connections are closed one   *)
(* by one, then user.fd is registered.                                      *)
(***************************************************************************)
\* onEnterGame calls userEnter; one enterGame for each connection.
EnterGame(f) ==
  /\ link[f] = "gate" /\ login[f].pc = "done" /\ status[login[f].agent] = "running"
  /\ entering[f].pc = "none"
  /\ entering' = [entering EXCEPT ![f].pc = "loop", ![f].todo = agentAccount]
  /\ UNCHANGED <<link, login, agentfd, agentAccount, closer, agents, room, manager>>

\* The next connection of the loop.  Those registered since it began may be
\* met or missed: pairs promises nothing about them.
CloseOther(f, k) ==
  /\ entering[f].pc = "loop" /\ entering[f].at = None
  /\ k \in agentAccount
  /\ CloseAgent(k)
  /\ entering' = [entering EXCEPT ![f].todo = @ \ {k},
                                  ![f].at = IF agentfd[k] = None THEN None ELSE k]
  /\ UNCHANGED <<link, login, agents, room, manager>>

\* close_agent returned, or failed and userEnter with it.
OtherClosed(f) ==
  LET k == entering[f].at IN
  /\ entering[f].pc = "loop" /\ k # None
  /\ closer[k].pc \in {"done", "failed"}
  /\ entering' = [entering EXCEPT ![f].at = None,
                    ![f].pc = IF closer[k].pc = "failed" THEN "done" ELSE "loop"]
  /\ UNCHANGED <<link, login, agentfd, agentAccount, closer, agents, room, manager>>

\* agentAccount[fd] = accountId, fd being the agent's user.fd: the connection
\* that created the agent, also when another one asks.
Register(f) ==
  /\ entering[f].pc = "loop" /\ entering[f].at = None
  /\ entering[f].todo \cap agentAccount = {}
  /\ agentAccount' = agentAccount \cup {login[f].agent}
  /\ entering' = [entering EXCEPT ![f].pc = "done"]
  /\ UNCHANGED <<link, login, agentfd, closer, agents, room, manager>>

(***************************************************************************)
(* The battle, and the reference the server manager holds for it            *)
(***************************************************************************)
\* CMD.start of the room posts roomstart.  Matching needs the account's data,
\* which enterGame loads (getmatchinfo).
RoomStarts(a) ==
  /\ room.pc = "none" /\ status[a] = "running"
  /\ \E f \in Fds : login[f].agent = a /\ entering[f].pc # "none"
  /\ room' = [pc |-> "open", agent |-> a]
  /\ starting' = "posted"
  /\ UNCHANGED <<link, login, watchdog, agents, ending, roomAgent>>

\* roomstart notes the room and calls addConnectRef(1).
RoomStart ==
  /\ starting = "posted"
  /\ roomAgent' = room.agent
  /\ starting' = "ref"
  /\ UNCHANGED <<link, login, watchdog, agents, room, ending>>

\* roomstart's loop meets another player before this account, whose agent has
\* exited: the call fails, and nothing is noted of those behind.
RoomStartCut ==
  /\ starting = "posted"
  /\ starting' = "cut"
  /\ UNCHANGED <<link, login, watchdog, agents, room, ending, roomAgent>>

\* The agent counts the room, or it is gone and the call fails.
RoomRef ==
  /\ starting = "ref"
  /\ \/ /\ Alive(room.agent)
        /\ ref_connect' = [ref_connect EXCEPT ![room.agent] = @ + 1]
        /\ starting' = "done"
     \/ /\ ~Alive(room.agent)
        /\ starting' = "failed"
        /\ UNCHANGED ref_connect
  /\ UNCHANGED <<link, login, watchdog, status, user_fd, beating, leaving, room,
                 ending, roomAgent>>

\* closeRoom posts roomend and the room exits.
RoomEnds ==
  /\ room.pc = "open"
  /\ room' = [room EXCEPT !.pc = "closed"]
  /\ ending' = "posted"
  /\ UNCHANGED <<link, login, watchdog, agents, starting, roomAgent>>

\* A fault: roomend gives the reference back and leaves the exit to others.
RoomDerefOnly ==
  /\ ending = "posted" /\ starting \in {"done", "failed"}
  /\ Alive(roomAgent)
  /\ ref_connect' = [ref_connect EXCEPT ![roomAgent] = @ - 1]
  /\ ending' = "clear"
  /\ UNCHANGED <<link, login, watchdog, status, user_fd, beating, leaving, room,
                 starting, roomAgent>>

\* roomend's loop ends before it comes to this account: the call to another
\* player's agent, which has exited, fails (or the account is missed, because a
\* battle noted meanwhile has moved the table's entries).
RoomEndCut ==
  /\ ending = "posted" /\ starting \in {"done", "failed"}
  /\ ending' = "cut"
  /\ UNCHANGED <<link, login, watchdog, agents, room, starting, roomAgent>>

\* roomend finds nothing noted under the account.
RoomUnknown ==
  /\ ending = "posted" /\ starting = "cut"
  /\ ending' = "done"
  /\ UNCHANGED <<link, login, watchdog, agents, room, starting, roomAgent>>

\* roomend calls addConnectRef(-1), after roomstart's call: one mailbox.
RoomDeref ==
  /\ ending = "posted" /\ starting \in {"done", "failed"}
  /\ \/ /\ Alive(roomAgent)
        /\ ref_connect' = [ref_connect EXCEPT ![roomAgent] = @ - 1]
        /\ ending' = IF ref_connect[roomAgent] - 1 <= 0 THEN "disconnect" ELSE "clear"
     \/ /\ ~Alive(roomAgent)
        /\ ending' = "failed"
        /\ UNCHANGED ref_connect
  /\ UNCHANGED <<link, login, watchdog, status, user_fd, beating, leaving, room,
                 starting, roomAgent>>

\* The rest of roomend: "disconnect" if the answer was zero, then the account
\* is free of the room.
RoomForget ==
  /\ ending \in {"disconnect", "clear"}
  /\ leaving' = IF ending = "disconnect"
                  THEN [leaving EXCEPT ![roomAgent] = TRUE] ELSE leaving
  /\ roomAgent' = None
  /\ ending' = "done"
  /\ UNCHANGED <<link, login, watchdog, status, ref_connect, user_fd, beating,
                 room, starting>>

-----------------------------------------------------------------------------
\* What the services do with the messages they have.
Serve(f) ==
  \/ NoRoom(f) \/ AskRoom(f) \/ RoomAnswers(f) \/ NewAgent(f) \/ AgentEnter(f)
  \/ Start(f) \/ Reconnect(f) \/ ReconnectFails(f) \/ Forward(f)
  \/ SocketClosed(f) \/ Kick(f) \/ Deref(f) \/ DerefFails(f)
  \/ SendDisconnect(f) \/ Disconnect(f) \/ OtherClosed(f) \/ Register(f)
  \/ \E k \in Fds : CloseOther(f, k)

Battle ==
  \/ RoomStart \/ RoomStartCut \/ RoomRef
  \/ RoomEnds \/ RoomEndCut \/ RoomUnknown \/ RoomDeref \/ RoomForget

\* What players do.
Players ==
  \E f \in Fds : \/ Auth(f) \/ ClientGone(f) \/ EnterGame(f)
                 \/ HeartbeatTimeout(f) \/ RoomStarts(f)

Next == (\E f \in Fds : Serve(f)) \/ Battle \/ Players

Spec == Init /\ [][Next]_vars

(***************************************************************************)
(* Every message a service has is handled at last, and every battle ends    *)
(* (the room module's RoomCloses).  Players owe nothing.                    *)
(***************************************************************************)
Fairness == (\A f \in Fds : WF_vars(Serve(f))) /\ WF_vars(Battle)

FairSpec == Spec /\ Fairness

-----------------------------------------------------------------------------
(***************************************************************************)
(* Properties                                                               *)
(***************************************************************************)
\* Every variable has its type; no agent is ever owed more references than
\* its connections and its room, and none is given back twice (close_agent,
\* addConnectRef).
TypeOK ==
  /\ link \in [Fds -> {"unborn", "slave", "slaveDead", "gate", "lost", "closed"}]
  /\ login \in [Fds -> [pc : {"none", "getAgent", "offLine", "create", "enter",
                              "start", "reconnect", "forward", "done", "failed"},
                        agent : Agents \cup {None}]]
  /\ agentfd \in [Fds -> Agents \cup {None}]
  /\ agentAccount \subseteq Fds
  /\ closer \in [Fds -> [pc : {"none", "kick", "deref", "disconnect", "done", "failed"},
                         agent : Agents \cup {None}]]
  /\ entering \in [Fds -> [pc : {"none", "loop", "done"}, todo : SUBSET Fds,
                           at : Fds \cup {None}]]
  /\ status \in [Agents -> {"none", "new", "running", "exited"}]
  /\ ref_connect \in [Agents -> 0 .. Cardinality(Fds) + 1]
  /\ user_fd \in [Agents -> Fds \cup {None}]
  /\ beating \in [Agents -> BOOLEAN]
  /\ leaving \in [Agents -> BOOLEAN]
  /\ room \in [pc : {"none", "open", "closed"}, agent : Agents \cup {None}]
  /\ starting \in {"none", "posted", "ref", "done", "failed", "cut"}
  /\ ending \in {"none", "posted", "disconnect", "clear", "done", "failed", "cut"}
  /\ roomAgent \in Agents \cup {None}

\* Connection f holds a reference that agent a counts: it is registered by
\* agentEnter and announced to the agent, or being closed and not yet given back.
Holds(f, a) ==
  \/ agentfd[f] = a /\ login[f].pc \in {"forward", "done"}
  \/ closer[f].agent = a /\ closer[f].pc \in {"kick", "deref"}

Holders(a) == {f \in Fds : Holds(f, a)}

\* The room's reference was taken by roomstart and not given back by roomend.
RoomHolds(a) == room.agent = a /\ starting = "done" /\ ending \in {"none", "posted", "cut"}

\* ref_connect of an agent that has not exited is the number of its connections, plus one
\* for its room, at every moment: however closing by the client, by the heart
\* beat and by another login overlap, each reference is returned once.
RefCounted ==
  \A a \in Agents :
    status[a] # "exited" =>
      ref_connect[a] = Cardinality(Holders(a)) + IF RoomHolds(a) THEN 1 ELSE 0

\* Somebody still has a use for the agent: a battle, a linked client or a
\* login that is under way.
Wanted(a) ==
  \/ room.pc = "open" /\ room.agent = a
  \/ \E f \in Fds : /\ login[f].agent = a
                    /\ link[f] = "gate" \/ login[f].pc \notin {"done", "failed"}

\* roomend ended at another player whose agent has exited, before it came to
\* this account: nobody will return the room's reference to a.
Abandoned(a) == room.agent = a /\ starting = "done" /\ ending = "cut"

\* Once its clients are gone and its battle is over an agent exits, whichever of
\* watchdog and server manager returned the last reference.  It is left behind in
\* one case only: the server manager's loop over the room's accounts stopped
\* before it, at an exited agent (close_agent, roomstart, roomend).
AgentsExit == \A a \in Agents : []<>(~Alive(a) \/ Wanted(a) \/ Abandoned(a))

\* "The agent is still in the battle service, the agent is kept" (the message
\* of close_agent): while a battle runs whose reference the agent has counted,
\* the agent does not exit.
InBattleStays ==
  [][\A a \in Agents :
       room.pc = "open" /\ RoomHolds(a) /\ Alive(a) => status'[a] # "exited"]_vars
=============================================================================
