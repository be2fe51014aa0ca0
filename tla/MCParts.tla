------------------------------- MODULE MCParts -------------------------------
(***************************************************************************)
(* The parts that have a lock, a thread or a service to themselves: the      *)
(* table of handles, the timing wheel, the ring of a message queue, the      *)
(* socket thread, the gate, the search for a path, the tables of an agent,   *)
(* the affects on a player and the clients that follow an entity.  They      *)
(* share no state, so each behaviour is one of one part; the others stay as   *)
(* they began.                                                              *)
(***************************************************************************)
EXTENDS HandleStorage, Timer, MessageQueue, Gate, PathFinding, Economy,
        SocketServer, Affects, EventStamp

VARIABLE part           \* the part that runs

parts == {"handles", "timer", "queue", "gate", "path", "agent", "sockets", "affects",
          "stamps"}

TwoPlans == {<<<<3, 0, 1>>, <<2, 1>>>>, <<<<1, 1, 1>>, <<2>>, <<>>>>}

World(w, h, b, s, g, z, d) ==
  [width |-> w, height |-> h, blocked |-> b, start |-> s, goal |-> g, bsize |-> z, depth |-> d]

(* Every labyrinth of nine cells, with too few nodes or enough; and a wide   *)
(* body among a single obstacle.                                            *)
Labyrinths ==
  {World(3, 3, b, <<0, 0>>, g, 0, d) :
     b \in SUBSET ((0 .. 2) \X (0 .. 2)), g \in (0 .. 2) \X (0 .. 2), d \in {4, 9}}
WideBodies ==
  {World(5, 4, b, <<1, 1>>, g, 1, 20) :
     b \in {{c} : c \in (0 .. 4) \X (0 .. 3)} \cup {{}}, g \in (0 .. 4) \X (0 .. 3)}
MCWorlds == Labyrinths \cup WideBodies
OneWorld == World(5, 4, {}, <<1, 1>>, <<3, 2>>, 1, 20)

(* Two requests run in one agent, one in another of the same account.  What   *)
(* each may ask for, in six mixtures; loading needs a coroutine too.         *)
MCHost == <<"elder", "elder", "younger">>
BoxAndExplore == <<{"box"}, {"explore"}, {}>>
MCMenus ==
  {BoxAndExplore,
   <<{"explore"}, {"explore"}, {}>>,
   <<{"upgrade", "mail"}, {"upgrade", "mail"}, {}>>,
   <<{"upgrade"}, {}, {"mail"}>>,
   <<{"mail"}, {}, {"mail"}>>,
   <<{"award"}, {"battle"}, {}>>}

(* Five mixtures of requests to the socket thread.                          *)
Load(o, l, b, s, k, h, d, p) ==
  [r \in {"O", "L", "B", "S", "K", "H", "D", "P"} |->
     CASE r = "O" -> o [] r = "L" -> l [] r = "B" -> b [] r = "S" -> s
       [] r = "K" -> k [] r = "H" -> h [] r = "D" -> d [] r = "P" -> p]

Sending   == Load(1, 0, 0, 0, 1, 0, 2, 1)
Reusing   == Load(2, 1, 0, 1, 1, 0, 0, 0)
Late      == Load(2, 1, 0, 0, 0, 0, 1, 0)
Accepting == Load(0, 1, 0, 2, 1, 0, 1, 0)
Binding   == Load(0, 0, 1, 0, 1, 1, 1, 0)
Loads == {Sending, Reusing, Late, Accepting, Binding}

(* A poison that also slows, and a blow that stuns.                         *)
MCSkills == [venom |-> <<"dot", "ctrl">>, stun |-> <<"hit", "ctrl">>]

(* What does not run begins in one way only.                                *)
Alone(p, first) == part = p \/ first

PartsInit ==
  /\ part \in parts
  /\ HandleInit
  /\ TimerInit /\ Alone("timer", time = 0)
  /\ MqInit /\ Alone("queue", ring = [i \in 0 .. QueueSize - 1 |-> 0])
  /\ GateInit /\ Alone("gate", plan = <<<<3, 0, 1>>, <<2, 1>>>>)
  /\ AffInit /\ StampInit
  /\ SocketInit /\ Alone("sockets", quota = Sending)
  /\ EconInit /\ Alone("agent", menu = BoxAndExplore)
  /\ world \in IF part = "path" THEN Worlds ELSE {OneWorld}
  /\ PathInit

PartsNext ==
  \/ part = "handles" /\ HandleNext
     /\ UNCHANGED <<part, timerVars, mqVars, gateVars, pathVars,
                    econVars, sockVars, affVars, stampVars>>
  \/ part = "timer" /\ TimerNext
     /\ UNCHANGED <<part, handleVars, mqVars, gateVars, pathVars,
                    econVars, sockVars, affVars, stampVars>>
  \/ part = "queue" /\ MqNext
     /\ UNCHANGED <<part, handleVars, timerVars, gateVars, pathVars,
                    econVars, sockVars, affVars, stampVars>>
  \/ part = "gate" /\ GateNext
     /\ UNCHANGED <<part, handleVars, timerVars, mqVars, pathVars,
                    econVars, sockVars, affVars, stampVars>>
  \/ part = "path" /\ PathNext
     /\ UNCHANGED <<part, handleVars, timerVars, mqVars, gateVars,
                    econVars, sockVars, affVars, stampVars>>
  \/ part = "agent" /\ EconNext
     /\ UNCHANGED <<part, handleVars, timerVars, mqVars, gateVars,
                    pathVars, sockVars, affVars, stampVars>>
  \/ part = "sockets" /\ SocketNext
     /\ UNCHANGED <<part, handleVars, timerVars, mqVars, gateVars,
                    pathVars, econVars, affVars, stampVars>>
  \/ part = "affects" /\ AffNext
     /\ UNCHANGED <<part, handleVars, timerVars, mqVars, gateVars,
                    pathVars, econVars, sockVars, stampVars>>
  \/ part = "stamps" /\ StampNext
     /\ UNCHANGED <<part, handleVars, timerVars, mqVars, gateVars,
                    pathVars, econVars, sockVars, affVars>>

PartsSpec ==
  PartsInit /\ [][PartsNext]_<<part, handleVars, timerVars, mqVars, gateVars, pathVars,
                               econVars, sockVars, affVars, stampVars>>
=============================================================================
