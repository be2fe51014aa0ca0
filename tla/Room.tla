-------------------------------- MODULE Room --------------------------------
(***************************************************************************)
(* A battle room: loading barrier, update loop and settlement              *)
(* (game/service/room.lua, game/lualib/entity/BattleOverManager.lua).      *)
(*                                                                         *)
(* Players load their resources and report it with loadingRes; the battle  *)
(* begins when the last one has, or six seconds after the room started.    *)
(* Beginning it arms updateMapEvent, which arms itself again (a chain of   *)
(* timers).  The chain that finds the battle over settles it: results are  *)
(* calculated, given to the agents, sent, recorded, and the room closes.   *)
(* Every call to an agent is a yield; the players' requests, the six       *)
(* second timer and the other chains go on meanwhile.                      *)
(*                                                                         *)
(* Combat is left to chance: what the entities do in EntityManager.update  *)
(* is seen here only through the kills and the home buildings.             *)
(***************************************************************************)
EXTENDS Integers, FiniteSets, Sequences

CONSTANTS
  N,          \* number of players; 1 .. N is their order in entityList
  Red,        \* the players of the red camp
  Percents,   \* the percentages players report
  Requests,   \* bound: loadingRes requests being served at a time
  Kills,      \* MapDat.n32Kills
  BattleTime, \* MapDat.n32Time, in updates
  MayFall,    \* the home buildings that may fall, of "red" and "blue"
  MayDrop,    \* players whose client may lose its connection
  MayExit     \* players whose agent may exit during the battle

ASSUME RoomAssumption ==
  /\ N \in Nat \ {0} /\ Kills \in Nat \ {0} /\ BattleTime \in Nat
  /\ Red \subseteq 1 .. N /\ MayDrop \subseteq 1 .. N /\ MayExit \subseteq 1 .. N
  /\ MayFall \subseteq {"red", "blue"}
  /\ Percents \subseteq 0 .. 100 /\ "timer" \notin Requests

Players == 1 .. N
Starters == Requests \cup {"timer"}  \* the coroutines that may begin the battle

VARIABLES
  progress,     \* a player's LoadProgress
  co,           \* loadingRes requests and the six-second timer
  last_update_time,  \* "nil" or "set"
  groups,       \* how often SpawnNpcManager:init has run
  chain,        \* the updateMapEvent chain begun by a coroutine
  RedKillNum, BlueKillNum, RestTime, OverRes,
  fallen,       \* the home buildings that are dead
  offLine,      \* OffLineTime: 0, 1 or 2 for at most 15, at most 90, more
  online,       \* the agent's isOnLine
  runaway,      \* redRunAway and blueRunAway
  gains,        \* BattleGains
  given,        \* the gains an agent was given, in order
  recorded,     \* fightrecords added
  left,         \* agents told to leave the map
  gone,         \* agents that have exited
  closed        \* the room service has exited

loadVars == <<progress, co, last_update_time, groups>>
battleVars == <<RedKillNum, BlueKillNum, fallen, RestTime, OverRes>>
playerVars == <<offLine, online, gone>>
resultVars == <<runaway, gains, given, recorded, left, closed>>
vars == <<loadVars, chain, battleVars, playerVars, resultVars>>

IdleCo == [at |-> "idle", i |-> 0, num |-> 0]
NoGains == [win |-> 2, exp |-> "none", gold |-> FALSE, items |-> FALSE]

-----------------------------------------------------------------------------
Init ==
  /\ progress = [p \in Players |-> 0]
  /\ co = [c \in Starters |-> [IdleCo EXCEPT !.at = IF c = "timer" THEN "enter" ELSE "idle"]]
  /\ last_update_time = "nil" /\ groups = 0
  /\ chain = [c \in Starters |-> [at |-> "off", i |-> 0]]
  /\ RedKillNum = 0 /\ BlueKillNum = 0 /\ fallen = {}
  /\ RestTime = BattleTime /\ OverRes = 0
  /\ offLine = [p \in Players |-> 0] /\ online = [p \in Players |-> TRUE]
  /\ runaway = {} /\ gains = [p \in Players |-> NoGains]
  /\ given = [p \in Players |-> <<>>] /\ recorded = 0 /\ left = {}
  /\ gone = {} /\ closed = FALSE

(* CMD.start has told every agent to enter the map, and arms the timer.    *)
WaitForClients ==
  /\ ~closed /\ co["timer"].at = "enter" /\ gone = {}
  /\ co' = [co EXCEPT !["timer"].at = "wait"]
  /\ UNCHANGED <<progress, last_update_time, groups, chain, battleVars, playerVars, resultVars>>

(* The counting loop, from player i on, stops next at the loaded player j, *)
(* or has reached its end.                                                 *)
NextLoaded(i, j, prog) ==
  /\ j <= N => prog[j] = 100
  /\ \A k \in i .. j - 1 : prog[k] # 100

(* Mutation of CountFrom: the two home buildings are counted as one.       *)
CountFromOne(c, i, num, prog) ==
  \E j \in i .. N + 1 :
    /\ NextLoaded(i, j, prog)
    /\ co' = [co EXCEPT ![c] =
         IF j <= N THEN [at |-> "count", i |-> j, num |-> num + 1]
         ELSE IF num = N + 1 /\ last_update_time = "nil" THEN [IdleCo EXCEPT !.at = "begin"]
         ELSE IdleCo]

(* loadingRes goes on counting from player i: it stops at a call, or it    *)
(* ends, and enters waitForLoadingCompleted if it counted everyone.        *)
CountFrom(c, i, num, prog) ==
  \E j \in i .. N + 1 :
    /\ NextLoaded(i, j, prog)
    /\ co' = [co EXCEPT ![c] =
         IF j <= N THEN [at |-> "count", i |-> j, num |-> num + 1]
         ELSE IF num = N /\ last_update_time = "nil" THEN [IdleCo EXCEPT !.at = "begin"]
         ELSE IdleCo]

(* CMD.loadingRes.  A player whose loading is complete is reconnecting:    *)
(* it is sent the state of the battle, and nothing changes.                *)
LoadingRes(p, c, percent) ==
  /\ ~closed /\ co[c].at = "idle" /\ progress[p] < 100
  /\ progress' = [progress EXCEPT ![p] = percent]
  /\ CountFrom(c, 1, 0, progress')
  /\ UNCHANGED <<last_update_time, groups, chain, battleVars, playerVars, resultVars>>

(* The agent has answered setReceveRoomInfo.                               *)
Counted(c) ==
  /\ ~closed /\ co[c].at = "count" /\ co[c].i \notin gone
  /\ CountFrom(c, co[c].i + 1, co[c].num, progress)
  /\ UNCHANGED <<progress, last_update_time, groups, chain, battleVars, playerVars, resultVars>>

(* Six seconds are over: waitForLoadingCompleted.                          *)
LoadingTimeout ==
  /\ ~closed /\ co["timer"].at = "wait"
  /\ co' = [co EXCEPT !["timer"].at = IF last_update_time = "nil" THEN "begin" ELSE "idle"]
  /\ UNCHANGED <<progress, last_update_time, groups, chain, battleVars, playerVars, resultVars>>

(* The rest of waitForLoadingCompleted, after fightBegin was sent.         *)
Begin(c) ==
  /\ ~closed /\ co[c].at = "begin" /\ gone = {}
  /\ co' = [co EXCEPT ![c] = IdleCo]
  /\ progress' = [p \in Players |-> 100]
  /\ last_update_time' = "set" /\ groups' = groups + 1
  /\ chain' = [chain EXCEPT ![c].at = "armed"]
  /\ UNCHANGED <<battleVars, playerVars, resultVars>>

-----------------------------------------------------------------------------
(* EntityManager.update: a kill is counted, or a home building falls.      *)
Combat ==
  /\ ~closed /\ \E c \in Starters : chain[c].at = "armed"
  /\ \/ RedKillNum < Kills /\ RedKillNum' = RedKillNum + 1 /\ UNCHANGED <<BlueKillNum, fallen>>
     \/ BlueKillNum < Kills /\ BlueKillNum' = BlueKillNum + 1 /\ UNCHANGED <<RedKillNum, fallen>>
     \/ \E h \in MayFall : fallen' = fallen \cup {h} /\ UNCHANGED <<RedKillNum, BlueKillNum>>
  /\ UNCHANGED <<loadVars, chain, RestTime, OverRes, playerVars, resultVars>>

(* 1: blue wins, 2: red wins, 3: a draw, 0: go on.                         *)
Outcome(rest) ==
  IF "red" \in fallen THEN 1 ELSE IF "blue" \in fallen THEN 2
  ELSE IF RedKillNum >= Kills THEN 2 ELSE IF BlueKillNum >= Kills THEN 1
  ELSE IF rest > 0 THEN 0
  ELSE IF RedKillNum > BlueKillNum THEN 2
  ELSE IF RedKillNum < BlueKillNum THEN 1 ELSE 3

(* Mutation of BattleUpdate: no test whether the battle is already over.   *)
BattleUpdateAgain(c) ==
  /\ ~closed /\ chain[c].at = "armed"
  /\ RestTime' = RestTime - 1
  /\ OverRes' = Outcome(RestTime')
  /\ chain' = [chain EXCEPT ![c] = IF OverRes' = 0 THEN @ ELSE [at |-> "calc", i |-> 1]]
  /\ UNCHANGED <<loadVars, RedKillNum, BlueKillNum, fallen,
                 playerVars, resultVars>>

(* Mutation of BattleUpdate: the clock is not advanced.                    *)
BattleUpdateUntimed(c) ==
  /\ ~closed /\ chain[c].at = "armed" /\ OverRes = 0
  /\ OverRes' = Outcome(RestTime)
  /\ chain' = [chain EXCEPT ![c] = IF OverRes' = 0 THEN @ ELSE [at |-> "calc", i |-> 1]]
  /\ UNCHANGED <<loadVars, RedKillNum, BlueKillNum, fallen,
                 RestTime, playerVars, resultVars>>

(* updateMapEvent of chain c, from BattleOverManager:update on.            *)
BattleUpdate(c) ==
  /\ ~closed /\ chain[c].at = "armed" /\ OverRes = 0
  /\ RestTime' = RestTime - 1
  /\ OverRes' = Outcome(RestTime')
  /\ chain' = [chain EXCEPT ![c] = IF OverRes' = 0 THEN @ ELSE [at |-> "calc", i |-> 1]]
  /\ UNCHANGED <<loadVars, RedKillNum, BlueKillNum, fallen,
                 playerVars, resultVars>>

(* REQUEST.endbattle: a home building falls, or time is up.               *)
EndBattle ==
  /\ ~closed
  /\ \/ \E h \in MayFall : fallen' = fallen \cup {h} /\ UNCHANGED RestTime
     \/ RestTime' = 0 /\ UNCHANGED fallen
  /\ UNCHANGED <<loadVars, chain, RedKillNum, BlueKillNum, OverRes, playerVars, resultVars>>

(* The agent's heartbeat_check while it is in the map: overdue (three more *)
(* seconds may or may not pass a limit), or back.                          *)
Overdue(p) ==
  /\ ~closed /\ p \in MayDrop \ (gone \cup left)
  /\ \E t \in {offLine[p], offLine[p] + 1} \cap 0 .. 2 : offLine' = [offLine EXCEPT ![p] = t]
  /\ online' = [online EXCEPT ![p] = FALSE]
  /\ UNCHANGED <<loadVars, chain, battleVars, gone, resultVars>>

BackOnline(p) ==
  /\ ~closed /\ p \notin gone /\ ~online[p]
  /\ online' = [online EXCEPT ![p] = TRUE]
  /\ UNCHANGED <<loadVars, chain, battleVars, offLine, gone, resultVars>>

-----------------------------------------------------------------------------
(* The agents that the next step of a settling chain calls.                *)
Called(c) ==
  LET i == chain[c].i
  IN  CASE chain[c].at = "calc" -> IF i <= N THEN {p \in {i} : offLine[p] = 1}
                                   ELSE Players \ runaway
        [] chain[c].at = "give" -> IF i <= N THEN {i} ELSE Players
        [] chain[c].at = "leave" -> IF i <= N THEN {i} ELSE {}
        [] OTHER -> {}

At(c, stage) == ~closed /\ chain[c].at = stage /\ Called(c) \cap gone = {}
GoTo(c, stage, i) == chain' = [chain EXCEPT ![c] = [at |-> stage, i |-> i]]

(* CMD.isOnLine returns user.isOnline; the field is called isOnLine, so    *)
(* the answer is nil.                                                      *)
IsOnLine(p) == FALSE

(* calcRes sorts out player i.                                             *)
CalcRes(c) ==
  /\ At(c, "calc") /\ chain[c].i <= N
  /\ LET p == chain[c].i
     IN  runaway' = IF offLine[p] = 2 \/ (offLine[p] = 1 /\ ~IsOnLine(p))
                      THEN runaway \cup {p} ELSE runaway
  /\ GoTo(c, "calc", chain[c].i + 1)
  /\ UNCHANGED <<loadVars, battleVars, playerVars, gains, given, recorded, left, closed>>

Winners == CASE OverRes = 1 -> Players \ Red [] OverRes = 2 -> Red [] OTHER -> {}
Losers == IF OverRes = 3 THEN {} ELSE Players \ Winners

(* Mutation of GainsOf: whoever ran away from the winners wins with them.  *)
GainsOfCamp(p, paid, prized) ==
  [win |-> IF p \in Winners THEN 0
           ELSE IF p \in runaway THEN 3 ELSE IF p \in Losers THEN 1 ELSE 2,
   exp |-> IF p \in Losers THEN "fail"
           ELSE IF p \in Winners THEN "win" ELSE "none",
   gold |-> p \in paid, items |-> p \in prized]

(* The gains of p, if the players of paid and prized are below their daily *)
(* limits of gold and of prizes.                                           *)
GainsOf(p, paid, prized) ==
  [win |-> IF p \in runaway THEN 3
           ELSE IF p \in Winners THEN 0 ELSE IF p \in Losers THEN 1 ELSE 2,
   exp |-> IF p \in Losers THEN "fail"
           ELSE IF p \in Winners \ runaway THEN "win" ELSE "none",
   gold |-> p \in paid, items |-> p \in prized]

(* The rest of calcRes: getActivityValue is asked of the others.           *)
CalcGains(c, paid, prized) ==
  /\ At(c, "calc") /\ chain[c].i > N
  /\ gains' = [p \in Players |-> GainsOf(p, paid, prized)]
  /\ GoTo(c, "give", 1)
  /\ UNCHANGED <<loadVars, battleVars, playerVars, runaway, given, recorded, left, closed>>

(* Mutation of GiveResult: nothing is given to who ran away.               *)
GiveResultToOthers(c) ==
  /\ At(c, "give") /\ chain[c].i \in Players
  /\ given' = [p \in Players |-> IF p = chain[c].i /\ p \notin runaway
                                   THEN Append(given[p], gains[p]) ELSE given[p]]
  /\ GoTo(c, "give", chain[c].i + 1)
  /\ UNCHANGED <<loadVars, battleVars, playerVars, runaway, gains, recorded, left, closed>>

(* giveResult: giveBattleGains is called for player i.                     *)
GiveResult(c) ==
  /\ At(c, "give") /\ chain[c].i \in Players
  /\ given' = [given EXCEPT ![chain[c].i] = Append(@, gains[chain[c].i])]
  /\ GoTo(c, "give", chain[c].i + 1)
  /\ UNCHANGED <<loadVars, battleVars, playerVars, runaway, gains, recorded, left, closed>>

(* sendResult and recordResult.                                            *)
RecordResult(c) ==
  /\ At(c, "give") /\ chain[c].i > N
  /\ recorded' = recorded + 1
  /\ GoTo(c, "leave", 1)
  /\ UNCHANGED <<loadVars, battleVars, playerVars, runaway, gains, given, left, closed>>

(* closeRoom: leaveMap is called for player i; then the service exits.     *)
LeaveMap(c) ==
  /\ At(c, "leave") /\ chain[c].i \in Players
  /\ left' = left \cup {chain[c].i}
  /\ GoTo(c, "leave", chain[c].i + 1)
  /\ UNCHANGED <<loadVars, battleVars, playerVars, runaway, gains, given, recorded, closed>>

CloseRoom(c) ==
  /\ At(c, "leave") /\ chain[c].i > N
  /\ closed' = TRUE
  /\ GoTo(c, "off", 0)
  /\ UNCHANGED <<loadVars, battleVars, playerVars, runaway, gains, given, recorded, left>>

-----------------------------------------------------------------------------
(* An agent whose client went away exits unless servermanager's roomstart  *)
(* has already taken a reference to it: that is a message of its own, and  *)
(* it stops at the first agent that is gone.  A call to such an agent      *)
(* raises an error and ends the calling coroutine.                         *)
AgentExits(p) ==
  /\ ~closed /\ p \in MayExit \ gone
  /\ gone' = gone \cup {p}
  /\ UNCHANGED <<loadVars, chain, battleVars, offLine, online, resultVars>>

LoadingFails(c) ==
  /\ ~closed
  /\ \/ co[c].at = "count" /\ co[c].i \in gone
     \/ co[c].at \in {"enter", "begin"} /\ gone # {}
  /\ co' = [co EXCEPT ![c] = IdleCo]
  /\ UNCHANGED <<progress, last_update_time, groups, chain, battleVars, playerVars, resultVars>>

ChainFails(c) ==
  /\ ~closed
  /\ Called(c) \cap gone # {} \/ (chain[c].at = "armed" /\ gone # {})
  /\ GoTo(c, "failed", 0)
  /\ UNCHANGED <<loadVars, battleVars, playerVars, resultVars>>

(* What an update does before and after BattleOverManager:update (entities,*)
(* monster groups, drops) may raise an error of its own, with every agent  *)
(* there: updateMapEvent is armed again on its last line only.             *)
UpdateRaises(c) ==
  /\ ~closed /\ chain[c].at = "armed"
  /\ GoTo(c, "failed", 0)
  /\ UNCHANGED <<loadVars, battleVars, playerVars, resultVars>>

Over == closed /\ UNCHANGED vars

-----------------------------------------------------------------------------
ClientNext ==
  \/ \E p \in Players, c \in Requests, percent \in Percents : LoadingRes(p, c, percent)
  \/ \E p \in Players : Overdue(p) \/ BackOnline(p) \/ AgentExits(p)

LoadNext(c) == Counted(c) \/ Begin(c) \/ LoadingFails(c)

SettleNext(c) ==
  \/ CalcRes(c) \/ GiveResult(c) \/ RecordResult(c) \/ LeaveMap(c) \/ CloseRoom(c)
  \/ ChainFails(c)
  \/ \E paid \in SUBSET (Players \ runaway), prized \in SUBSET (Winners \ runaway) :
       CalcGains(c, paid, prized)

Next ==
  \/ WaitForClients \/ LoadingTimeout \/ Combat \/ EndBattle
  \/ \E c \in Starters : LoadNext(c) \/ BattleUpdate(c) \/ SettleNext(c) \/ UpdateRaises(c)
  \/ ClientNext
  \/ Over

Spec == Init /\ [][Next]_vars

(* Timers fire and calls are answered.  Players need not load, and combat  *)
(* need not decide anything.                                               *)
Fairness ==
  /\ WF_vars(WaitForClients) /\ WF_vars(LoadingTimeout)
  /\ \A c \in Starters :
       WF_vars(LoadNext(c)) /\ WF_vars(BattleUpdate(c)) /\ WF_vars(SettleNext(c))

FairSpec == Spec /\ Fairness

-----------------------------------------------------------------------------
CoSet == [at : {"idle", "enter", "wait", "count", "begin"}, i : 0 .. N, num : 0 .. N]
ChainSet == [at : {"off", "armed", "calc", "give", "leave", "failed"}, i : 0 .. N + 1]
GainsSet == [win : 0 .. 3, exp : {"none", "win", "fail"}, gold : BOOLEAN, items : BOOLEAN]

(* The room's variables keep their types: counting loops stay within the   *)
(* players, the clock stops at the update that finds it run out.           *)
TypeOK ==
  /\ progress \in [Players -> 0 .. 100]
  /\ co \in [Starters -> CoSet] /\ chain \in [Starters -> ChainSet]
  /\ last_update_time \in {"nil", "set"} /\ groups \in Nat
  /\ RedKillNum \in 0 .. Kills /\ BlueKillNum \in 0 .. Kills
  /\ fallen \subseteq {"red", "blue"}
  /\ RestTime \in -1 .. BattleTime /\ OverRes \in 0 .. 3
  /\ offLine \in [Players -> 0 .. 2] /\ online \in [Players -> BOOLEAN]
  /\ runaway \subseteq Players /\ gains \in [Players -> GainsSet]
  /\ given \in [Players -> Seq(GainsSet)] /\ recorded \in Nat
  /\ left \subseteq Players /\ gone \subseteq Players /\ closed \in BOOLEAN

(* However many update chains run and however they interleave with the     *)
(* calls of a settlement, no player is given gains twice and the fight is  *)
(* recorded once; when the room closes, everyone has been given his gains  *)
(* and has left the map (BattleOverManager.update).                        *)
SettledOnce ==
  /\ recorded <= 1 /\ \A p \in Players : Len(given[p]) <= 1
  /\ closed => recorded = 1 /\ left = Players /\ \A p \in Players : Len(given[p]) = 1

Sound(p, g) ==
  /\ g.win = 0 \/ g.exp = "win" \/ g.items => p \in Winners \ runaway
  /\ g.win = 3 => g.exp # "win" /\ ~g.gold /\ ~g.items
  /\ p \in Losers => g.exp = "fail" /\ g.win \in {1, 3}

(* What was given agrees with the outcome as it is now: only the winning   *)
(* camp has winners, prizes and winners' experience; who ran away gets     *)
(* neither gold nor prizes; who stayed with the losers has lost (calcRes). *)
ResultsSound == \A p \in Players : \A k \in DOMAIN given[p] : Sound(p, given[p][k])

(* Chain c has still to come to player p with his gains.                   *)
Pays(c, p) == chain[c].at = "calc" \/ (chain[c].at = "give" /\ chain[c].i <= p)

(* Once the battle is decided nobody is passed over: who has not been paid *)
(* has a settlement on its way to him, unless the settlement died of a     *)
(* call to an exited agent (nobody tries again: OverRes is set): before    *)
(* anybody was paid, or at an agent that is not behind him in the list of  *)
(* entities, so that it never costs those ahead of it (calcRes,            *)
(* giveResult).                                                            *)
NoneSkipped ==
  \A p \in Players :
    OverRes # 0 /\ given[p] = <<>> =>
      \/ \E c \in Starters : Pays(c, p)
      \/ gone # {} /\ \A q \in Players : given[q] = <<>>
      \/ \E q \in gone : q <= p

(* The last player to load starts the battle, however the counting loops   *)
(* of several requests interleave (loadingRes): while all agents are there *)
(* it is never left to the six-second timer.                               *)
LastLoaderStarts ==
  gone = {} /\ (\A p \in Players : progress[p] = 100)
    => last_update_time = "set" \/ \E c \in Starters : co[c].at \in {"count", "begin"}

(* Every update loop that was begun has ended with an error.               *)
Stopped ==
  /\ \E c \in Starters : chain[c].at = "failed"
  /\ \A c \in Starters : chain[c].at \in {"off", "failed"}

(* The battle is settled and the room closes, even if nobody loads or is   *)
(* killed, whether the six seconds or the last loader began it and however *)
(* many update chains run; unless an agent has exited, or an update raised *)
(* an error in every chain (updateMapEvent, BattleOverManager.update).     *)
RoomCloses == <>[](closed \/ gone # {} \/ Stopped)

(* "every 0.03s update entity": one chain of updates, one set of monsters. *)
OneUpdateLoop ==
  groups <= 1 /\ Cardinality({c \in Starters : chain[c].at \notin {"off", "failed"}}) <= 1
=============================================================================
