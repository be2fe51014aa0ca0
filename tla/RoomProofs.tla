----------------------------- MODULE RoomProofs -----------------------------
(***************************************************************************)
(* The safety of a battle room, for any number of players, requests and    *)
(* update chains.                                                          *)
(*                                                                         *)
(* Types need two facts about the loops: a counting loop has counted no    *)
(* more players than it has passed, and the clock has not run out before   *)
(* the outcome is decided.  A single settlement needs that OverRes is set  *)
(* in the step that starts it and before its first call: at most one chain *)
(* settles, and what it has done so far is told by where it is.            *)
(***************************************************************************)
EXTENDS Room, TLAPS

CountSound ==
  \A c \in Starters :
    co[c].at = "count" => co[c].i \in 1 .. N /\ co[c].num \in 1 .. N /\ co[c].num <= co[c].i

ClockRuns == OverRes = 0 => RestTime >= 0

(* A chain is settling from the decision to the room's end.                *)
Settling(c) == chain[c].at \in {"calc", "give", "leave"}

StageSound == \A c \in Starters : Settling(c) => chain[c].i \in 1 .. N + 1

TypeInv == TypeOK /\ CountSound /\ ClockRuns /\ StageSound

OneSettler ==
  /\ \A c, d \in Starters : Settling(c) /\ Settling(d) => c = d
  /\ \A c \in Starters : Settling(c) => OverRes # 0 /\ ~closed

(* What has been done when nothing is decided, and in each stage.          *)
NothingDone == recorded = 0 /\ ~closed /\ \A p \in Players : given[p] = <<>>

Progress ==
  /\ OverRes = 0 => NothingDone
  /\ \A c \in Starters :
       /\ chain[c].at = "calc" => NothingDone
       /\ chain[c].at = "give" =>
            /\ recorded = 0
            /\ \A p \in Players : Sound(p, gains[p])
            /\ \A p \in Players : Len(given[p]) = IF p < chain[c].i THEN 1 ELSE 0
       /\ chain[c].at = "leave" =>
            /\ recorded = 1 /\ 1 .. (chain[c].i - 1) \subseteq left
            /\ \A p \in Players : Len(given[p]) = 1

SettleInv == OneSettler /\ Progress /\ SettledOnce /\ ResultsSound

(* When all are loaded and nothing has begun, some loop has counted        *)
(* everyone it has passed, or has finished counting.                       *)
LoaderInv ==
  /\ gone = {} /\ (\A p \in Players : progress[p] = 100) /\ last_update_time = "nil"
       => \E c \in Starters :
            co[c].at = "begin" \/ (co[c].at = "count" /\ co[c].num = co[c].i)

-----------------------------------------------------------------------------
(* A counting loop that has passed i - 1 players and counted no more than  *)
(* that many keeps its type wherever it stops next.                        *)
LEMMA CountTyped ==
  ASSUME co \in [Starters -> CoSet], CountSound,
         NEW c \in Starters, NEW i \in 1 .. N + 1, NEW num \in 0 .. N, num <= i - 1,
         NEW prog, CountFrom(c, i, num, prog)
  PROVE  co' \in [Starters -> CoSet] /\ CountSound'
  <1>1. PICK j \in i .. N + 1 :
          co' = [co EXCEPT ![c] =
            IF j <= N THEN [at |-> "count", i |-> j, num |-> num + 1]
            ELSE IF num = N /\ last_update_time = "nil" THEN [IdleCo EXCEPT !.at = "begin"]
            ELSE IdleCo]
    BY DEF CountFrom
  <1>2. j <= N => num + 1 \in 1 .. N /\ num + 1 <= j /\ j \in 1 .. N
    BY RoomAssumption
  <1>3. [IdleCo EXCEPT !.at = "begin"] = [at |-> "begin", i |-> 0, num |-> 0]
    BY DEF IdleCo
  <1>4. \A d \in Starters : co'[d] = IF d = c THEN co'[c] ELSE co[d]
    BY <1>1
  <1>5. CASE j <= N
    <2>1. co'[c] = [at |-> "count", i |-> j, num |-> num + 1]
      BY <1>1, <1>5
    <2>2. co'[c] \in CoSet
      BY <2>1, <1>2, <1>5, RoomAssumption DEF CoSet
    <2>3. co' \in [Starters -> CoSet]
      BY <1>1, <2>1, <2>2, <1>5
    <2> QED
      BY <2>1, <2>3, <1>2, <1>4, <1>5 DEF CountSound
  <1>6. CASE ~(j <= N)
    <2>1. co'[c] \in {[at |-> "begin", i |-> 0, num |-> 0], IdleCo}
      BY <1>1, <1>3, <1>6
    <2>2. co'[c] \in CoSet /\ co'[c].at # "count"
      BY <2>1, RoomAssumption DEF CoSet, IdleCo
    <2>3. co' \in [Starters -> CoSet]
      BY <1>1, <2>2, <1>6
    <2> QED
      BY <2>2, <2>3, <1>4 DEF CountSound
  <1> QED
    BY <1>5, <1>6

(* A coroutine that becomes idle, begins or waits keeps its type.          *)
LEMMA StopTyped ==
  ASSUME co \in [Starters -> CoSet], CountSound, NEW c \in Starters, NEW r \in CoSet,
         r.at # "count", co' = [co EXCEPT ![c] = r]
  PROVE  co' \in [Starters -> CoSet] /\ CountSound'
  BY DEF CountSound

LEMMA MoveTyped ==
  ASSUME co \in [Starters -> CoSet], CountSound, NEW c \in Starters,
         NEW w \in {"idle", "wait", "begin"}, co' = [co EXCEPT ![c].at = w]
  PROVE  co' \in [Starters -> CoSet] /\ CountSound'
  <1>1. co' = [co EXCEPT ![c] = [co[c] EXCEPT !.at = w]]
    OBVIOUS
  <1>2. [co[c] EXCEPT !.at = w] \in CoSet /\ [co[c] EXCEPT !.at = w].at # "count"
    BY DEF CoSet
  <1> QED
    BY <1>1, <1>2, StopTyped

LEMMA IdleTyped == IdleCo \in CoSet /\ IdleCo.at # "count"
  BY RoomAssumption DEF IdleCo, CoSet

LEMMA GoToTyped ==
  ASSUME chain \in [Starters -> ChainSet], StageSound, NEW c \in Starters,
         NEW stage \in {"armed", "calc", "give", "leave"}, NEW i \in 1 .. N + 1,
         GoTo(c, stage, i)
  PROVE  chain' \in [Starters -> ChainSet] /\ StageSound'
  BY RoomAssumption DEF ChainSet, StageSound, Settling, GoTo

LEMMA OffTyped ==
  ASSUME chain \in [Starters -> ChainSet], StageSound, NEW c \in Starters,
         NEW stage \in {"off", "failed"}, GoTo(c, stage, 0)
  PROVE  chain' \in [Starters -> ChainSet] /\ StageSound'
  <1>1. [at |-> stage, i |-> 0] \in ChainSet
    BY RoomAssumption DEF ChainSet
  <1> QED
    BY <1>1 DEF StageSound, Settling, GoTo

(* The steps of the loading phase preserve the types.                      *)
LEMMA LoadTypes ==
  ASSUME TypeInv, NEW c \in Starters,
         WaitForClients \/ LoadingTimeout \/ LoadNext(c)
         \/ \E p \in Players, d \in Requests, percent \in Percents : LoadingRes(p, d, percent)
  PROVE  TypeInv'
  <1> USE RoomAssumption
  <1> USE DEF TypeInv
  <1>t. /\ co \in [Starters -> CoSet] /\ CountSound /\ "timer" \in Starters
        /\ Requests \subseteq Starters
    BY DEF TypeOK, Starters
  <1>1. CASE WaitForClients
    <2>1. co' \in [Starters -> CoSet] /\ CountSound'
      BY <1>1, <1>t, MoveTyped DEF WaitForClients
    <2> QED
      BY <1>1, <2>1 DEF WaitForClients, TypeOK, ClockRuns, StageSound, Settling, battleVars, playerVars, resultVars
  <1>2. CASE LoadingTimeout
    <2>1. co' \in [Starters -> CoSet] /\ CountSound'
      <3>1. PICK w \in {"idle", "begin"} : co' = [co EXCEPT !["timer"].at = w]
        BY <1>2 DEF LoadingTimeout
      <3> QED
        BY <3>1, <1>t, MoveTyped
    <2> QED
      BY <1>2, <2>1 DEF LoadingTimeout, TypeOK, ClockRuns, StageSound, Settling, battleVars, playerVars, resultVars
  <1>3. CASE Counted(c)
    <2>1. co[c].i + 1 \in 1 .. N + 1 /\ co[c].num \in 0 .. N /\ co[c].num <= (co[c].i + 1) - 1
      BY <1>3, <1>t DEF Counted, CountSound
    <2>2. co' \in [Starters -> CoSet] /\ CountSound'
      BY <1>3, <2>1, <1>t, CountTyped DEF Counted
    <2> QED
      BY <1>3, <2>2 DEF Counted, TypeOK, ClockRuns, StageSound, Settling, battleVars, playerVars, resultVars
  <1>4. CASE Begin(c)
    <2>1. co' \in [Starters -> CoSet] /\ CountSound'
      BY <1>4, <1>t, IdleTyped, StopTyped DEF Begin
    <2>2. chain' \in [Starters -> ChainSet] /\ StageSound'
      BY <1>4 DEF Begin, TypeOK, ChainSet, StageSound, Settling
    <2> QED
      BY <1>4, <2>1, <2>2 DEF Begin, TypeOK, ClockRuns, StageSound, Settling, battleVars, playerVars, resultVars
  <1>5. CASE LoadingFails(c)
    <2>1. co' \in [Starters -> CoSet] /\ CountSound'
      BY <1>5, <1>t, IdleTyped, StopTyped DEF LoadingFails
    <2> QED
      BY <1>5, <2>1 DEF LoadingFails, TypeOK, ClockRuns, StageSound, Settling, battleVars, playerVars, resultVars
  <1>6. ASSUME NEW p \in Players, NEW d \in Requests, NEW percent \in Percents,
               LoadingRes(p, d, percent)
        PROVE  TypeInv'
    <2>1. co' \in [Starters -> CoSet] /\ CountSound'
      BY <1>6, <1>t, CountTyped DEF LoadingRes
    <2>2. progress' \in [Players -> 0 .. 100]
      BY <1>6 DEF LoadingRes, TypeOK
    <2> QED
      BY <1>6, <2>1, <2>2 DEF LoadingRes, TypeOK, ClockRuns, StageSound, Settling, battleVars, playerVars, resultVars
  <1> QED
    BY <1>1, <1>2, <1>3, <1>4, <1>5, <1>6 DEF LoadNext

(* So do those of the battle, the players and the agents.                  *)
LEMMA BattleTypes ==
  ASSUME TypeInv, NEW c \in Starters, NEW p \in Players,
         Combat \/ EndBattle \/ BattleUpdate(c) \/ Overdue(p) \/ BackOnline(p) \/ AgentExits(p)
  PROVE  TypeInv'
  <1> USE RoomAssumption
  <1> USE DEF TypeInv
  <1>t. /\ RestTime \in -1 .. BattleTime /\ OverRes \in 0 .. 3 /\ fallen \subseteq {"red", "blue"}
        /\ chain \in [Starters -> ChainSet] /\ StageSound
        /\ OverRes = 0 => RestTime >= 0
    BY DEF TypeOK, ClockRuns
  <1>1. CASE Combat
    <2>1. RedKillNum \in 0 .. Kills /\ BlueKillNum \in 0 .. Kills
      BY DEF TypeOK
    <2>2. RedKillNum' \in 0 .. Kills /\ BlueKillNum' \in 0 .. Kills
      <3>1. /\ RedKillNum' = RedKillNum \/ (RedKillNum < Kills /\ RedKillNum' = RedKillNum + 1)
            /\ BlueKillNum' = BlueKillNum \/ (BlueKillNum < Kills /\ BlueKillNum' = BlueKillNum + 1)
        BY <1>1 DEF Combat
      <3> QED
        BY <3>1, <2>1
    <2>3. fallen' \subseteq {"red", "blue"}
      <3>1. fallen' = fallen \/ \E h \in MayFall : fallen' = fallen \cup {h}
        BY <1>1, Zenon DEF Combat
      <3> QED
        BY <3>1, <1>t
    <2> QED
      BY <1>1, <2>2, <2>3 DEF Combat, TypeOK, CountSound, ClockRuns, StageSound, Settling, loadVars, playerVars, resultVars
  <1>2. CASE EndBattle
    <2>1. fallen' \subseteq {"red", "blue"} /\ RestTime' \in {RestTime, 0}
      BY <1>2, <1>t DEF EndBattle
    <2>2. RestTime' \in -1 .. BattleTime /\ (OverRes = 0 => RestTime' >= 0)
      BY <2>1, <1>t
    <2> QED
      BY <1>2, <2>1, <2>2 DEF EndBattle, TypeOK, CountSound, ClockRuns, StageSound, Settling, loadVars, playerVars, resultVars
  <1>3. CASE BattleUpdate(c)
    <2>1. RestTime' \in -1 .. BattleTime
      BY <1>3, <1>t DEF BattleUpdate
    <2>2. OverRes' \in 0 .. 3 /\ (OverRes' = 0 => RestTime' > 0)
      <3>1. OverRes' = Outcome(RestTime')
        BY <1>3 DEF BattleUpdate
      <3> QED
        BY <3>1, <2>1 DEF Outcome
    <2>3. chain' \in [Starters -> ChainSet] /\ StageSound'
      <3>1. CASE OverRes' = 0
        <4>1. chain' = chain
          BY <1>3, <3>1, <1>t DEF BattleUpdate
        <4> QED
          BY <4>1, <1>t DEF StageSound, Settling
      <3>2. CASE OverRes' # 0
        <4>1. GoTo(c, "calc", 1)
          BY <1>3, <3>2 DEF BattleUpdate, GoTo
        <4>2. 1 \in 1 .. N + 1
          OBVIOUS
        <4> QED
          BY <4>1, <4>2, <1>t, GoToTyped
      <3> QED
        BY <3>1, <3>2
    <2> QED
      BY <1>3, <2>1, <2>2, <2>3
      DEF BattleUpdate, TypeOK, CountSound, ClockRuns, StageSound, Settling, loadVars, playerVars, resultVars
  <1>4. CASE Overdue(p)
    <2>1. offLine' \in [Players -> 0 .. 2]
      BY <1>4 DEF Overdue, TypeOK
    <2>2. online' \in [Players -> BOOLEAN]
      BY <1>4 DEF Overdue, TypeOK
    <2> QED
      BY <1>4, <2>1, <2>2
      DEF Overdue, TypeOK, CountSound, ClockRuns, StageSound, Settling, loadVars, battleVars, resultVars
  <1>5. CASE BackOnline(p)
    <2>1. online' \in [Players -> BOOLEAN]
      BY <1>5 DEF BackOnline, TypeOK
    <2> QED
      BY <1>5, <2>1
      DEF BackOnline, TypeOK, CountSound, ClockRuns, StageSound, Settling, loadVars, battleVars, resultVars
  <1>6. CASE AgentExits(p)
    <2>1. gone' \subseteq Players
      BY <1>6 DEF AgentExits, TypeOK
    <2> QED
      BY <1>6, <2>1
      DEF AgentExits, TypeOK, CountSound, ClockRuns, StageSound, Settling, loadVars, battleVars, resultVars
  <1> QED
    BY <1>1, <1>2, <1>3, <1>4, <1>5, <1>6

LEMMA GainsTyped ==
  \A p, paid, prized : GainsOf(p, paid, prized) \in GainsSet
  BY DEF GainsOf, GainsSet

(* And those of a settlement.                                              *)
LEMMA SettleTypes ==
  ASSUME TypeInv, NEW c \in Starters, SettleNext(c) \/ UpdateRaises(c)
  PROVE  TypeInv'
  <1> USE RoomAssumption
  <1> USE DEF TypeInv
  <1>t. chain \in [Starters -> ChainSet] /\ chain[c].i \in 0 .. N + 1
    BY DEF TypeOK, ChainSet
  <1>v. 1 \in 1 .. N + 1 /\ StageSound /\ (Settling(c) => chain[c].i \in 1 .. N + 1)
    BY DEF StageSound
  <1>u. ASSUME chain' \in [Starters -> ChainSet], StageSound',
               UNCHANGED <<loadVars, battleVars, playerVars>>,
               runaway' \subseteq Players, gains' \in [Players -> GainsSet],
               given' \in [Players -> Seq(GainsSet)], recorded' \in Nat,
               left' \subseteq Players, closed' \in BOOLEAN
        PROVE  TypeInv'
    BY <1>u DEF TypeOK, CountSound, ClockRuns, StageSound, Settling, loadVars, battleVars, playerVars
  <1>1. CASE CalcRes(c)
    <2>1. chain[c].i + 1 \in 1 .. N + 1
      BY <1>1, <1>t DEF CalcRes
    <2>2. chain' \in [Starters -> ChainSet] /\ StageSound'
      BY <1>1, <1>t, <2>1, <1>v, GoToTyped DEF CalcRes
    <2>3. chain[c].i \in Players /\ runaway \subseteq Players
      BY <1>1, <1>v DEF CalcRes, At, Settling, Players, TypeOK
    <2>4. runaway' \subseteq Players
      BY <1>1, <2>3 DEF CalcRes
    <2> QED
      BY <1>1, <1>u, <2>2, <2>4 DEF CalcRes, TypeOK
  <1>2. ASSUME NEW paid \in SUBSET (Players \ runaway), NEW prized \in SUBSET (Winners \ runaway),
               CalcGains(c, paid, prized)
        PROVE  TypeInv'
    <2>1. chain' \in [Starters -> ChainSet] /\ StageSound'
      BY <1>2, <1>t, <1>v, GoToTyped DEF CalcGains
    <2>2. gains' \in [Players -> GainsSet]
      BY <1>2, GainsTyped DEF CalcGains
    <2> QED
      BY <1>2, <1>u, <2>1, <2>2 DEF CalcGains, TypeOK
  <1>3. CASE GiveResult(c)
    <2>1. chain[c].i + 1 \in 1 .. N + 1
      BY <1>3, <1>t DEF GiveResult, Players
    <2>2. chain' \in [Starters -> ChainSet] /\ StageSound'
      BY <1>3, <1>t, <2>1, <1>v, GoToTyped DEF GiveResult
    <2>3. Append(given[chain[c].i], gains[chain[c].i]) \in Seq(GainsSet)
      BY <1>3 DEF GiveResult, TypeOK
    <2>4. given' \in [Players -> Seq(GainsSet)]
      BY <1>3, <2>3 DEF GiveResult, TypeOK
    <2> QED
      BY <1>3, <1>u, <2>2, <2>4 DEF GiveResult, TypeOK
  <1>4. CASE RecordResult(c)
    <2>1. chain' \in [Starters -> ChainSet] /\ StageSound'
      BY <1>4, <1>t, <1>v, GoToTyped DEF RecordResult
    <2>2. recorded' \in Nat
      BY <1>4 DEF RecordResult, TypeOK
    <2> QED
      BY <1>4, <1>u, <2>1, <2>2 DEF RecordResult, TypeOK
  <1>5. CASE LeaveMap(c)
    <2>1. chain[c].i + 1 \in 1 .. N + 1
      BY <1>5, <1>t DEF LeaveMap, Players
    <2>2. chain' \in [Starters -> ChainSet] /\ StageSound'
      BY <1>5, <1>t, <2>1, <1>v, GoToTyped DEF LeaveMap
    <2> QED
      BY <1>5, <1>u, <2>2 DEF LeaveMap, TypeOK
  <1>6. CASE CloseRoom(c)
    <2>1. chain' \in [Starters -> ChainSet] /\ StageSound'
      BY <1>6, <1>t, <1>v, OffTyped DEF CloseRoom
    <2> QED
      BY <1>6, <1>u, <2>1 DEF CloseRoom, TypeOK
  <1>7. CASE ChainFails(c)
    <2>1. chain' \in [Starters -> ChainSet] /\ StageSound'
      BY <1>7, <1>t, <1>v, OffTyped DEF ChainFails
    <2> QED
      BY <1>7, <1>u, <2>1 DEF ChainFails, TypeOK, resultVars
  <1>8. CASE UpdateRaises(c)
    <2>1. chain' \in [Starters -> ChainSet] /\ StageSound'
      BY <1>8, <1>t, <1>v, OffTyped DEF UpdateRaises
    <2> QED
      BY <1>8, <1>u, <2>1 DEF UpdateRaises, TypeOK, resultVars
  <1> QED
    BY <1>1, <1>2, <1>3, <1>4, <1>5, <1>6, <1>7, <1>8 DEF SettleNext

-----------------------------------------------------------------------------
LEMMA TypeInit == Init => TypeInv
  <1> SUFFICES ASSUME Init PROVE TypeInv
    OBVIOUS
  <1> USE RoomAssumption
  <1>1. co \in [Starters -> CoSet] /\ CountSound
    <2>1. ASSUME NEW c \in Starters
          PROVE  co[c] \in CoSet /\ co[c].at # "count"
      <3>1. PICK w \in {"enter", "idle"} : co[c] = [IdleCo EXCEPT !.at = w]
        BY DEF Init
      <3>2. [IdleCo EXCEPT !.at = w] = [at |-> w, i |-> 0, num |-> 0]
        BY DEF IdleCo
      <3>3. [at |-> w, i |-> 0, num |-> 0] \in CoSet /\ w # "count"
        BY DEF CoSet
      <3> QED
        BY <3>1, <3>2, <3>3
    <2> QED
      BY <2>1 DEF Init, CountSound
  <1>2. chain \in [Starters -> ChainSet] /\ StageSound
    BY DEF Init, ChainSet, StageSound, Settling
  <1>3. NoGains \in GainsSet
    BY DEF NoGains, GainsSet
  <1>4. gains \in [Players -> GainsSet] /\ given \in [Players -> Seq(GainsSet)]
    BY <1>3 DEF Init
  <1>5. online \in [Players -> BOOLEAN]
    BY DEF Init
  <1>6. progress \in [Players -> 0 .. 100] /\ offLine \in [Players -> 0 .. 2]
    BY DEF Init
  <1>7. /\ last_update_time \in {"nil", "set"} /\ groups \in Nat
        /\ RedKillNum \in 0 .. Kills /\ BlueKillNum \in 0 .. Kills /\ fallen = {}
        /\ RestTime \in -1 .. BattleTime /\ OverRes \in 0 .. 3 /\ ClockRuns
        /\ runaway = {} /\ recorded \in Nat /\ left = {} /\ gone = {}
    BY DEF Init, ClockRuns
  <1>8. closed \in BOOLEAN
    BY DEF Init
  <1> QED
    BY <1>1, <1>2, <1>4, <1>5, <1>6, <1>7, <1>8 DEF TypeInv, TypeOK

LEMMA TypeStep == TypeInv /\ [Next]_vars => TypeInv'
  <1> SUFFICES ASSUME TypeInv, [Next]_vars PROVE TypeInv'
    OBVIOUS
  <1>s. "timer" \in Starters /\ 1 \in Players
    BY RoomAssumption DEF Starters, Players
  <1>1. CASE WaitForClients \/ LoadingTimeout
    BY <1>1, <1>s, LoadTypes
  <1>2. CASE Combat \/ EndBattle
    BY <1>2, <1>s, BattleTypes
  <1>3. ASSUME NEW c \in Starters, LoadNext(c) PROVE TypeInv'
    BY <1>3, LoadTypes
  <1>4. ASSUME NEW c \in Starters, BattleUpdate(c) PROVE TypeInv'
    BY <1>4, <1>s, BattleTypes
  <1>5. ASSUME NEW c \in Starters, SettleNext(c) \/ UpdateRaises(c) PROVE TypeInv'
    BY <1>5, SettleTypes
  <1>6. CASE ClientNext
    <2>1. CASE \E p \in Players, c \in Requests, percent \in Percents : LoadingRes(p, c, percent)
      BY <2>1, <1>s, LoadTypes
    <2>2. ASSUME NEW p \in Players, Overdue(p) \/ BackOnline(p) \/ AgentExits(p) PROVE TypeInv'
      BY <2>2, <1>s, BattleTypes
    <2> QED
      BY <1>6, <2>1, <2>2 DEF ClientNext
  <1>7. CASE UNCHANGED vars
    BY <1>7 DEF vars, TypeInv, TypeOK, CountSound, ClockRuns, StageSound, Settling,
                loadVars, battleVars, playerVars, resultVars
  <1> QED
    BY <1>1, <1>2, <1>3, <1>4, <1>5, <1>6, <1>7 DEF Next, Over

(* The room's state is well typed: counting loops stay within the players  *)
(* and the clock is not advanced past the update that finds it run out     *)
(* (room.lua, BattleOverManager.lua).                                      *)
THEOREM TypeCorrect == Spec => []TypeOK
  <1>1. Spec => []TypeInv
    BY TypeInit, TypeStep, PTL DEF Spec
  <1>2. TypeInv => TypeOK
    BY DEF TypeInv
  <1> QED
    BY <1>1, <1>2, PTL

-----------------------------------------------------------------------------
(* Winners, losers and what is sound depend on the outcome and on who ran  *)
(* away only.                                                              *)
LEMMA SoundFrame ==
  ASSUME UNCHANGED <<OverRes, runaway>>
  PROVE  \A p, g : Sound(p, g)' = Sound(p, g)
  BY DEF Sound, Winners, Losers

(* A step that settles nothing: results stay, and a chain that settles     *)
(* after it has not moved.                                                 *)
LEMMA SettleFrame ==
  ASSUME TypeInv, SettleInv, UNCHANGED <<OverRes, resultVars>>,
         \A d \in Starters : Settling(d)' => chain'[d] = chain[d]
  PROVE  SettleInv'
  <1> USE DEF resultVars
  <1>1. \A d \in Starters : Settling(d)' => Settling(d) /\ chain'[d] = chain[d]
    BY DEF Settling
  <1>2. \A p, g : Sound(p, g)' = Sound(p, g)
    BY SoundFrame
  <1>3. OneSettler'
    BY <1>1 DEF SettleInv, OneSettler
  <1>4. Progress'
    BY <1>1, <1>2 DEF SettleInv, Progress, NothingDone, Settling
  <1>5. SettledOnce' /\ ResultsSound'
    BY <1>2 DEF SettleInv, SettledOnce, ResultsSound
  <1> QED
    BY <1>3, <1>4, <1>5 DEF SettleInv

(* The update that decides the battle finds nobody settling.               *)
LEMMA DecideSettles ==
  ASSUME TypeInv, SettleInv, NEW c \in Starters, BattleUpdate(c), OverRes' # 0
  PROVE  SettleInv'
  <1>1. /\ OverRes = 0 /\ NothingDone
        /\ \A d \in Starters : ~Settling(d)
    BY DEF BattleUpdate, SettleInv, Progress, OneSettler
  <1>2. /\ chain' = [chain EXCEPT ![c] = [at |-> "calc", i |-> 1]]
        /\ UNCHANGED resultVars
    BY DEF BattleUpdate
  <1>3. /\ chain'[c].at = "calc"
        /\ \A d \in Starters : d # c => chain'[d] = chain[d]
    BY <1>2 DEF TypeInv, TypeOK
  <1>4. NothingDone'
    BY <1>1, <1>2 DEF NothingDone, resultVars
  <1>5. \A d \in Starters : Settling(d)' => d = c
    BY <1>1, <1>3 DEF Settling
  <1>6. OneSettler'
    BY <1>4, <1>5 DEF OneSettler, NothingDone
  <1>7. Progress'
    BY <1>3, <1>4, <1>5 DEF Progress, Settling
  <1>8. SettledOnce' /\ ResultsSound'
    BY <1>4 DEF SettledOnce, ResultsSound, NothingDone
  <1> QED
    BY <1>6, <1>7, <1>8 DEF SettleInv

(* What the moving chain and the others do in a step of a settlement.      *)
LEMMA SettlerMoves ==
  ASSUME TypeInv, SettleInv, NEW c \in Starters, Settling(c), NEW stage, NEW i, GoTo(c, stage, i)
  PROVE  /\ OverRes # 0 /\ ~closed
         /\ chain'[c] = [at |-> stage, i |-> i]
         /\ \A d \in Starters : Settling(d)' => d = c
  <1>1. OverRes # 0 /\ ~closed /\ \A d \in Starters : Settling(d) => d = c
    BY DEF SettleInv, OneSettler
  <1>2. chain'[c] = [at |-> stage, i |-> i] /\ \A d \in Starters : d # c => chain'[d] = chain[d]
    BY DEF GoTo, TypeInv, TypeOK
  <1> QED
    BY <1>1, <1>2 DEF Settling

LEMMA CalcResSettles ==
  ASSUME TypeInv, SettleInv, NEW c \in Starters, CalcRes(c)
  PROVE  SettleInv'
  <1>1. chain[c].at = "calc" /\ NothingDone /\ GoTo(c, "calc", chain[c].i + 1)
        /\ UNCHANGED <<OverRes, given, recorded, left, closed>>
    BY DEF CalcRes, At, SettleInv, Progress, battleVars
  <1>2. /\ OverRes # 0 /\ ~closed /\ chain'[c] = [at |-> "calc", i |-> chain[c].i + 1]
        /\ \A d \in Starters : Settling(d)' => d = c
    BY <1>1, SettlerMoves DEF Settling
  <1>3. NothingDone'
    BY <1>1 DEF NothingDone
  <1>4. OneSettler' /\ Progress'
    BY <1>1, <1>2, <1>3 DEF OneSettler, Progress, Settling, NothingDone
  <1>5. SettledOnce' /\ ResultsSound'
    BY <1>3 DEF SettledOnce, ResultsSound, NothingDone
  <1> QED
    BY <1>4, <1>5 DEF SettleInv

(* calcRes computes sound gains.                                           *)
LEMMA GainsSound ==
  ASSUME OverRes \in 1 .. 3, NEW p \in Players, NEW paid \in SUBSET (Players \ runaway),
         NEW prized \in SUBSET (Winners \ runaway)
  PROVE  Sound(p, GainsOf(p, paid, prized))
  <1>1. p \in Losers => p \notin Winners
    BY DEF Losers
  <1> DEFINE g == GainsOf(p, paid, prized)
  <1>2. g.win = IF p \in runaway THEN 3
                ELSE IF p \in Winners THEN 0 ELSE IF p \in Losers THEN 1 ELSE 2
    BY DEF GainsOf
  <1>3. g.exp = IF p \in Losers THEN "fail"
                ELSE IF p \in Winners \ runaway THEN "win" ELSE "none"
    BY DEF GainsOf
  <1>4. (g.gold <=> p \in paid) /\ (g.items <=> p \in prized)
    BY Zenon DEF GainsOf
  <1> HIDE DEF g
  <1>5. g.win = 0 => p \in Winners \ runaway
    BY <1>2
  <1>6. g.exp = "win" => p \in Winners \ runaway
    BY <1>3
  <1>7. g.win = 3 => p \in runaway
    BY <1>2
  <1>8. p \in Losers => g.exp = "fail" /\ g.win \in {1, 3}
    BY <1>1, <1>2, <1>3
  <1>9. Sound(p, g)
    BY <1>4, <1>5, <1>6, <1>7, <1>8 DEF Sound
  <1> QED
    BY <1>9 DEF g

LEMMA CalcGainsSettles ==
  ASSUME TypeInv, SettleInv, NEW c \in Starters, NEW paid \in SUBSET (Players \ runaway),
         NEW prized \in SUBSET (Winners \ runaway), CalcGains(c, paid, prized)
  PROVE  SettleInv'
  <1>1. chain[c].at = "calc" /\ NothingDone /\ GoTo(c, "give", 1)
        /\ UNCHANGED <<OverRes, runaway, given, recorded, left, closed>>
    BY DEF CalcGains, At, SettleInv, Progress, battleVars
  <1>2. /\ OverRes # 0 /\ ~closed /\ chain'[c] = [at |-> "give", i |-> 1]
        /\ \A d \in Starters : Settling(d)' => d = c
    BY <1>1, SettlerMoves DEF Settling
  <1>3. NothingDone'
    BY <1>1 DEF NothingDone
  <1>4. \A p \in Players : Sound(p, gains[p])'
    <2>1. OverRes \in 1 .. 3
      BY <1>2 DEF TypeInv, TypeOK
    <2>2. \A p \in Players : gains'[p] = GainsOf(p, paid, prized)
      BY DEF CalcGains
    <2>3. \A p \in Players : Sound(p, gains'[p])
      BY <2>1, <2>2, GainsSound
    <2> QED
      BY <2>3, <1>1 DEF Sound, Winners, Losers
  <1>5. OneSettler'
    BY <1>1, <1>2 DEF OneSettler
  <1>6. \A p \in Players : Len(given'[p]) = 0 /\ ~(p < 1)
    BY <1>3 DEF NothingDone, Players
  <1>7. Progress'
    BY <1>1, <1>2, <1>3, <1>4, <1>6 DEF Progress, Settling, NothingDone
  <1>8. SettledOnce' /\ ResultsSound'
    BY <1>3 DEF SettledOnce, ResultsSound, NothingDone
  <1> QED
    BY <1>5, <1>7, <1>8 DEF SettleInv

LEMMA GiveResultSettles ==
  ASSUME TypeInv, SettleInv, NEW c \in Starters, GiveResult(c)
  PROVE  SettleInv'
  <1> DEFINE q == chain[c].i
  <1>1. /\ chain[c].at = "give" /\ q \in Players /\ GoTo(c, "give", q + 1)
        /\ given' = [given EXCEPT ![q] = Append(@, gains[q])]
        /\ UNCHANGED <<OverRes, runaway, gains, recorded, left, closed>>
    BY DEF GiveResult, At, battleVars
  <1>2. /\ OverRes # 0 /\ ~closed /\ chain'[c] = [at |-> "give", i |-> q + 1]
        /\ \A d \in Starters : Settling(d)' => d = c
    BY <1>1, SettlerMoves DEF Settling
  <1>3. /\ recorded = 0 /\ \A p \in Players : Sound(p, gains[p])
        /\ \A p \in Players : Len(given[p]) = IF p < q THEN 1 ELSE 0
    BY <1>1 DEF SettleInv, Progress
  <1>4. given \in [Players -> Seq(GainsSet)] /\ gains \in [Players -> GainsSet]
    BY DEF TypeInv, TypeOK
  <1>5. /\ \A p \in Players : p # q => given'[p] = given[p]
        /\ given'[q] = Append(given[q], gains[q])
    BY <1>1, <1>4
  <1>6. Len(given[q]) = 0 /\ given[q] \in Seq(GainsSet)
    BY <1>1, <1>3, <1>4 DEF Players
  <1>7. given[q] = <<>>
    BY <1>6
  <1>8. Len(given'[q]) = 1 /\ DOMAIN given'[q] = {1} /\ given'[q][1] = gains[q]
    BY <1>1, <1>4, <1>5, <1>7
  <1>9. \A p \in Players : Len(given'[p]) = IF p < q + 1 THEN 1 ELSE 0
    BY <1>1, <1>3, <1>5, <1>8 DEF Players
  <1>10. \A p, g : Sound(p, g)' = Sound(p, g)
    BY <1>1, SoundFrame
  <1>11. ResultsSound'
    <2>1. ResultsSound
      BY DEF SettleInv
    <2> QED
      BY <2>1, <1>1, <1>3, <1>5, <1>8, <1>10 DEF ResultsSound
  <1>12. OneSettler'
    BY <1>1, <1>2 DEF OneSettler
  <1>13. Progress'
    BY <1>1, <1>2, <1>3, <1>9, <1>10 DEF Progress, Settling
  <1>14. SettledOnce'
    BY <1>1, <1>2, <1>3, <1>9 DEF SettledOnce
  <1> QED
    BY <1>11, <1>12, <1>13, <1>14 DEF SettleInv

(* Once everyone has his gains, and the record is made, nothing more may   *)
(* be given.                                                               *)
LEMMA AllSettled ==
  ASSUME TypeInv, UNCHANGED given, recorded' = 1,
         \A p \in Players : Len(given[p]) = 1, closed' => left' = Players
  PROVE  SettledOnce'
  <1>1. recorded' <= 1
    OBVIOUS
  <1>2. \A p \in Players : given[p] \in Seq(GainsSet)
    BY DEF TypeInv, TypeOK
  <1>3. ASSUME NEW p \in Players PROVE Len(given[p]) <= 1
    <2>1. Len(given[p]) = 1
      OBVIOUS
    <2> QED
      BY <2>1
  <1> QED
    BY <1>1, <1>3, Zenon DEF SettledOnce

LEMMA RecordResultSettles ==
  ASSUME TypeInv, SettleInv, NEW c \in Starters, RecordResult(c)
  PROVE  SettleInv'
  <1>1. /\ chain[c].at = "give" /\ chain[c].i > N /\ GoTo(c, "leave", 1)
        /\ recorded' = recorded + 1
        /\ UNCHANGED <<OverRes, runaway, gains, given, left, closed>>
    BY DEF RecordResult, At, battleVars
  <1>2. /\ OverRes # 0 /\ ~closed /\ chain'[c] = [at |-> "leave", i |-> 1]
        /\ \A d \in Starters : Settling(d)' => d = c
    BY <1>1, SettlerMoves DEF Settling
  <1>3. /\ recorded = 0
        /\ \A p \in Players : Len(given[p]) = IF p < chain[c].i THEN 1 ELSE 0
    BY <1>1 DEF SettleInv, Progress
  <1>4. chain[c].i \in 0 .. N + 1
    BY DEF TypeInv, TypeOK, ChainSet
  <1>p. \A p \in Players : p < chain[c].i
    BY <1>1, <1>4, RoomAssumption DEF Players
  <1>q. \A p \in Players : Len(given[p]) = 1
    BY <1>3, <1>p, Zenon
  <1>5. recorded' = 1
    BY <1>1, <1>3
  <1>6. \A p, g : Sound(p, g)' = Sound(p, g)
    BY <1>1, SoundFrame
  <1>7. ResultsSound'
    BY <1>1, <1>6 DEF SettleInv, ResultsSound
  <1>8. OneSettler'
    BY <1>1, <1>2 DEF OneSettler
  <1>9. 1 .. (1 - 1) = {}
    OBVIOUS
  <1>10. Progress'
    BY <1>1, <1>2, <1>5, <1>q, <1>9 DEF Progress, Settling
  <1>11. SettledOnce'
    BY <1>1, <1>2, <1>5, <1>q, AllSettled
  <1> QED
    BY <1>7, <1>8, <1>10, <1>11 DEF SettleInv

LEMMA LeaveMapSettles ==
  ASSUME TypeInv, SettleInv, NEW c \in Starters, LeaveMap(c)
  PROVE  SettleInv'
  <1> DEFINE q == chain[c].i
  <1>1. /\ chain[c].at = "leave" /\ q \in Players /\ GoTo(c, "leave", q + 1)
        /\ left' = left \cup {q}
        /\ UNCHANGED <<OverRes, runaway, gains, given, recorded, closed>>
    BY DEF LeaveMap, At, battleVars
  <1>2. /\ OverRes # 0 /\ ~closed /\ chain'[c] = [at |-> "leave", i |-> q + 1]
        /\ \A d \in Starters : Settling(d)' => d = c
    BY <1>1, SettlerMoves DEF Settling
  <1>3. /\ recorded = 1 /\ 1 .. (q - 1) \subseteq left
        /\ \A p \in Players : Len(given[p]) = 1
    BY <1>1 DEF SettleInv, Progress
  <1>4. 1 .. q \subseteq left'
    BY <1>1, <1>3, RoomAssumption DEF Players
  <1>5. \A p, g : Sound(p, g)' = Sound(p, g)
    BY <1>1, SoundFrame
  <1>6. ResultsSound'
    BY <1>1, <1>5 DEF SettleInv, ResultsSound
  <1>7. OneSettler'
    BY <1>1, <1>2 DEF OneSettler
  <1>8. Progress'
    <2>1. recorded' = 1 /\ \A p \in Players : Len(given'[p]) = 1
      BY <1>1, <1>3
    <2>2. 1 .. (chain'[c].i - 1) \subseteq left'
      <3>1. chain'[c].i = q + 1
        BY <1>2
      <3>2. q \in Int
        BY <1>1 DEF Players
      <3>3. chain'[c].i - 1 = q
        BY <3>1, <3>2
      <3> QED
        BY <3>3, <1>4
    <2> QED
      BY <2>1, <2>2, <1>1, <1>2 DEF Progress, Settling
  <1>9. SettledOnce'
    BY <1>1, <1>2, <1>3, AllSettled
  <1> QED
    BY <1>6, <1>7, <1>8, <1>9 DEF SettleInv

LEMMA CloseRoomSettles ==
  ASSUME TypeInv, SettleInv, NEW c \in Starters, CloseRoom(c)
  PROVE  SettleInv'
  <1>1. /\ chain[c].at = "leave" /\ chain[c].i > N /\ GoTo(c, "off", 0)
        /\ UNCHANGED <<OverRes, runaway, gains, given, recorded, left>>
    BY DEF CloseRoom, At, battleVars
  <1>2. /\ OverRes # 0 /\ chain'[c] = [at |-> "off", i |-> 0]
        /\ \A d \in Starters : Settling(d)' => d = c
    BY <1>1, SettlerMoves DEF Settling
  <1>3. \A d \in Starters : ~Settling(d)'
    BY <1>2 DEF Settling
  <1>4. /\ recorded = 1 /\ 1 .. (chain[c].i - 1) \subseteq left
        /\ \A p \in Players : Len(given[p]) = 1
    BY <1>1 DEF SettleInv, Progress
  <1>5. left = Players
    <2>1. left \subseteq Players /\ chain[c].i \in 0 .. N + 1
      BY DEF TypeInv, TypeOK, ChainSet
    <2> QED
      <3>1. \A x \in Players : x \in 1 .. (chain[c].i - 1)
        BY <2>1, <1>1, RoomAssumption DEF Players
      <3> QED
        BY <3>1, <2>1, <1>4, Zenon
  <1>6. \A p, g : Sound(p, g)' = Sound(p, g)
    BY <1>1, SoundFrame
  <1>7. ResultsSound'
    BY <1>1, <1>6 DEF SettleInv, ResultsSound
  <1>8. OneSettler' /\ Progress'
    BY <1>1, <1>2, <1>3 DEF OneSettler, Progress, Settling
  <1>9. SettledOnce'
    BY <1>1, <1>4, <1>5, AllSettled
  <1> QED
    BY <1>7, <1>8, <1>9 DEF SettleInv

-----------------------------------------------------------------------------
LEMMA SettleInit == Init => SettleInv
  <1> SUFFICES ASSUME Init PROVE SettleInv
    OBVIOUS
  <1>1. /\ \A c \in Starters : ~Settling(c)
        /\ \A p \in Players : given[p] = <<>>
        /\ recorded = 0 /\ ~closed
    BY DEF Init, Settling
  <1>2. NothingDone
    BY <1>1 DEF NothingDone
  <1>3. OneSettler /\ Progress
    BY <1>1, <1>2 DEF OneSettler, Progress, Settling
  <1>4. SettledOnce /\ ResultsSound
    BY <1>2 DEF NothingDone, SettledOnce, ResultsSound
  <1> QED
    BY <1>3, <1>4 DEF SettleInv

(* The steps outside a settlement.                                         *)
LEMMA OtherSteps ==
  ASSUME TypeInv, SettleInv, NEW c \in Starters, NEW p \in Players,
         \/ WaitForClients \/ LoadingTimeout \/ Combat \/ EndBattle \/ LoadNext(c)
         \/ ChainFails(c) \/ UpdateRaises(c) \/ ClientNext \/ UNCHANGED vars
  PROVE  SettleInv'
  <1> USE DEF battleVars, loadVars, resultVars, playerVars
  <1>1. ASSUME UNCHANGED <<chain, OverRes, resultVars>> PROVE SettleInv'
    BY <1>1, SettleFrame
  <1>2. CASE WaitForClients \/ LoadingTimeout \/ Counted(c) \/ LoadingFails(c)
    BY <1>1, <1>2 DEF WaitForClients, LoadingTimeout, Counted, LoadingFails
  <1>3. CASE Combat \/ EndBattle \/ UNCHANGED vars
    BY <1>1, <1>3 DEF Combat, EndBattle, vars
  <1>4. CASE ClientNext
    BY <1>1, <1>4 DEF ClientNext, LoadingRes, Overdue, BackOnline, AgentExits
  <1>5. CASE Begin(c)
    <2>1. UNCHANGED <<OverRes, resultVars>>
      BY <1>5 DEF Begin
    <2>2. chain \in [Starters -> ChainSet] /\ chain' = [chain EXCEPT ![c].at = "armed"]
      BY <1>5 DEF Begin, TypeInv, TypeOK
    <2>3. chain'[c].at = "armed" /\ \A d \in Starters : d # c => chain'[d] = chain[d]
      BY <2>2 DEF ChainSet
    <2>4. \A d \in Starters : Settling(d)' => chain'[d] = chain[d]
      BY <2>3 DEF Settling
    <2> QED
      BY <2>1, <2>4, SettleFrame
  <1>6. CASE ChainFails(c) \/ UpdateRaises(c)
    <2>1. UNCHANGED <<OverRes, resultVars>>
      BY <1>6 DEF ChainFails, UpdateRaises
    <2>2. chain'[c].at = "failed" /\ \A d \in Starters : d # c => chain'[d] = chain[d]
      BY <1>6 DEF ChainFails, UpdateRaises, GoTo, TypeInv, TypeOK
    <2>3. \A d \in Starters : Settling(d)' => chain'[d] = chain[d]
      BY <2>2 DEF Settling
    <2> QED
      BY <2>1, <2>3, SettleFrame
  <1> QED
    BY <1>2, <1>3, <1>4, <1>5, <1>6 DEF LoadNext

LEMMA SettleStep == TypeInv /\ SettleInv /\ [Next]_vars => SettleInv'
  <1> SUFFICES ASSUME TypeInv, SettleInv, [Next]_vars PROVE SettleInv'
    OBVIOUS
  <1>s. "timer" \in Starters /\ 1 \in Players
    BY RoomAssumption DEF Starters, Players
  <1>1. CASE WaitForClients \/ LoadingTimeout \/ Combat \/ EndBattle \/ ClientNext
             \/ UNCHANGED vars
    BY <1>1, <1>s, OtherSteps
  <1>2. ASSUME NEW c \in Starters, LoadNext(c) PROVE SettleInv'
    BY <1>2, <1>s, OtherSteps
  <1>3. ASSUME NEW c \in Starters, BattleUpdate(c) PROVE SettleInv'
    <2>1. CASE OverRes' # 0
      BY <1>3, <2>1, DecideSettles
    <2>2. CASE OverRes' = 0
      <3>1. UNCHANGED <<chain, OverRes, resultVars>>
        BY <1>3, <2>2 DEF BattleUpdate, TypeInv, TypeOK
      <3> QED
        BY <3>1, SettleFrame
    <2> QED
      BY <2>1, <2>2
  <1>4. ASSUME NEW c \in Starters, SettleNext(c) \/ UpdateRaises(c) PROVE SettleInv'
    BY <1>4, <1>s, CalcResSettles, CalcGainsSettles, GiveResultSettles, RecordResultSettles,
       LeaveMapSettles, CloseRoomSettles, OtherSteps DEF SettleNext
  <1> QED
    BY <1>1, <1>2, <1>3, <1>4 DEF Next, Over

LEMMA SettleAlways == Spec => [](TypeInv /\ SettleInv)
  <1>1. Init => TypeInv /\ SettleInv
    BY TypeInit, SettleInit
  <1>2. TypeInv /\ SettleInv /\ [Next]_vars => (TypeInv /\ SettleInv)'
    BY TypeStep, SettleStep
  <1> QED
    BY <1>1, <1>2, PTL DEF Spec

(* Nobody is given his gains twice and the fight is recorded once, however *)
(* many update chains run (BattleOverManager.update).                      *)
THEOREM OneSettlement == Spec => []SettledOnce
  <1>1. SettleInv => SettledOnce
    BY DEF SettleInv
  <1> QED
    BY <1>1, SettleAlways, PTL

(* What was given agrees with the outcome of the battle (calcRes).         *)
THEOREM GainsAgree == Spec => []ResultsSound
  <1>1. SettleInv => ResultsSound
    BY DEF SettleInv
  <1> QED
    BY <1>1, SettleAlways, PTL

-----------------------------------------------------------------------------
(* Whoever has begun the battle does not begin it again.                   *)
BegunOnce ==
  \A c \in Starters :
    chain[c].at # "off" => last_update_time = "set" /\ co[c].at # "begin"

LEMMA BegunStep == TypeInv /\ BegunOnce /\ [Next]_vars => BegunOnce'
  <1> SUFFICES ASSUME TypeInv, BegunOnce, [Next]_vars PROVE BegunOnce'
    OBVIOUS
  <1> USE DEF battleVars, loadVars, resultVars, playerVars
  <1>t. chain \in [Starters -> ChainSet] /\ co \in [Starters -> CoSet]
    BY DEF TypeInv, TypeOK
  <1>1. ASSUME UNCHANGED <<co, last_update_time>>,
               \A c \in Starters : chain'[c].at # "off" => chain[c].at # "off"
        PROVE  BegunOnce'
    BY <1>1 DEF BegunOnce
  <1>2. ASSUME UNCHANGED <<chain, last_update_time>>, NEW c \in Starters,
               \A d \in Starters : d # c => co'[d] = co[d],
               co'[c].at = "begin" => last_update_time = "nil"
        PROVE  BegunOnce'
    BY <1>2 DEF BegunOnce
  <1>3. CASE WaitForClients \/ LoadingTimeout
    BY <1>2, <1>3, <1>t DEF WaitForClients, LoadingTimeout, Starters, CoSet
  <1>4. ASSUME NEW c \in Starters, NEW i, NEW num, NEW prog, CountFrom(c, i, num, prog),
               UNCHANGED <<chain, last_update_time>>
        PROVE  BegunOnce'
    <2>1. PICK j \in i .. N + 1 : co' = [co EXCEPT ![c] =
            IF j <= N THEN [at |-> "count", i |-> j, num |-> num + 1]
            ELSE IF num = N /\ last_update_time = "nil" THEN [IdleCo EXCEPT !.at = "begin"]
            ELSE IdleCo]
      BY <1>4 DEF CountFrom
    <2>2. co'[c].at = "begin" => last_update_time = "nil"
      BY <1>t, <2>1 DEF IdleCo
    <2>3. \A d \in Starters : d # c => co'[d] = co[d]
      BY <1>t, <2>1
    <2> QED
      BY <1>2, <1>4, <2>2, <2>3
  <1>5. CASE ClientNext
    <2>1. ASSUME NEW p \in Players, NEW c \in Requests, NEW percent \in Percents,
                 LoadingRes(p, c, percent)
          PROVE  BegunOnce'
      BY <1>4, <2>1 DEF LoadingRes, Starters
    <2>2. ASSUME NEW p \in Players, Overdue(p) \/ BackOnline(p) \/ AgentExits(p) PROVE BegunOnce'
      BY <1>1, <2>2 DEF Overdue, BackOnline, AgentExits
    <2> QED
      BY <1>5, <2>1, <2>2 DEF ClientNext
  <1>6. ASSUME NEW c \in Starters, LoadNext(c) PROVE BegunOnce'
    <2>1. CASE Counted(c)
      BY <1>4, <2>1 DEF Counted
    <2>2. CASE LoadingFails(c)
      BY <1>2, <2>2, <1>t DEF LoadingFails, IdleCo
    <2>3. CASE Begin(c)
      <3>1. /\ last_update_time' = "set" /\ co'[c] = IdleCo
            /\ \A d \in Starters : d # c => co'[d] = co[d] /\ chain'[d] = chain[d]
        BY <2>3, <1>t DEF Begin
      <3> QED
        BY <3>1 DEF BegunOnce, IdleCo
    <2> QED
      BY <1>6, <2>1, <2>2, <2>3 DEF LoadNext
  <1>7. CASE Combat \/ EndBattle \/ UNCHANGED vars
    BY <1>1, <1>7 DEF Combat, EndBattle, vars
  <1>8. ASSUME NEW c \in Starters, BattleUpdate(c) \/ UpdateRaises(c) \/ SettleNext(c)
        PROVE  BegunOnce'
    <2>1. UNCHANGED <<co, last_update_time>>
      BY <1>8 DEF BattleUpdate, UpdateRaises, SettleNext, CalcRes, CalcGains, GiveResult,
                  RecordResult, LeaveMap, CloseRoom, ChainFails
    <2>2. chain[c].at # "off"
      BY <1>8 DEF BattleUpdate, UpdateRaises, SettleNext, CalcRes, CalcGains, GiveResult,
                  RecordResult, LeaveMap, CloseRoom, ChainFails, At, Called
    <2>3. \A d \in Starters : d # c => chain'[d] = chain[d]
      BY <1>8, <1>t DEF BattleUpdate, UpdateRaises, SettleNext, CalcRes, CalcGains, GiveResult,
                  RecordResult, LeaveMap, CloseRoom, ChainFails, GoTo
    <2> QED
      BY <1>1, <2>1, <2>2, <2>3
  <1> QED
    BY <1>3, <1>5, <1>6, <1>7, <1>8 DEF Next, Over

(* What a step does to who is paid and to the chain that pays.             *)
LEMMA SkipFrame ==
  ASSUME NoneSkipped, UNCHANGED <<given, OverRes>>, gone \subseteq gone',
         \A c \in Starters, p \in Players : Pays(c, p) => Pays(c, p)'
  PROVE  NoneSkipped'
  BY DEF NoneSkipped

(* The chain that is at player i has paid everybody before him.            *)
LEMMA GiveSkipsNobody ==
  ASSUME TypeInv, SettleInv, NoneSkipped, NEW c \in Starters, GiveResult(c)
  PROVE  NoneSkipped'
  <1> DEFINE i == chain[c].i
  <1>1. /\ chain[c].at = "give" /\ i \in Players /\ GoTo(c, "give", i + 1)
        /\ given' = [given EXCEPT ![i] = Append(@, gains[i])]
    BY DEF GiveResult, At
  <1>2. given \in [Players -> Seq(GainsSet)] /\ gains \in [Players -> GainsSet]
    BY DEF TypeInv, TypeOK
  <1>3. chain'[c].at = "give" /\ chain'[c].i = i + 1
    BY <1>1 DEF GoTo, TypeInv, TypeOK
  <1>4. ASSUME NEW p \in Players, given'[p] = <<>>
        PROVE  i + 1 <= p
    <2>1. p # i
      <3>1. given'[i] = Append(given[i], gains[i]) /\ given[i] \in Seq(GainsSet)
        BY <1>1, <1>2
      <3>2. Len(given'[i]) = Len(given[i]) + 1 /\ Len(given[i]) \in Nat
        BY <3>1
      <3> QED
        BY <3>2, <1>4
    <2>2. given[p] = <<>>
      BY <1>1, <1>2, <1>4, <2>1
    <2>3. Len(given[p]) = IF p < i THEN 1 ELSE 0
      BY <1>1 DEF SettleInv, Progress
    <2>4. ~(p < i)
      BY <2>2, <2>3
    <2> QED
      BY <2>1, <2>4, <1>1, RoomAssumption DEF Players
  <1> QED
    BY <1>3, <1>4 DEF NoneSkipped, Pays

(* A call that fails finds everybody before the exited agent paid, or is   *)
(* made before anybody is.                                                 *)
LEMMA FailureSkipsNobody ==
  ASSUME TypeInv, SettleInv, NoneSkipped, NEW c \in Starters, ChainFails(c)
  PROVE  NoneSkipped'
  <1>1. /\ UNCHANGED <<given, OverRes, gone>>
        /\ \A d \in Starters : d # c => chain'[d] = chain[d]
    BY DEF ChainFails, GoTo, TypeInv, TypeOK, battleVars, playerVars, resultVars
  <1>2. CASE chain[c].at \notin {"calc", "give"}
    <2>1. \A d \in Starters, p \in Players : Pays(d, p) => Pays(d, p)'
      BY <1>1, <1>2 DEF Pays
    <2> QED
      BY <1>1, <2>1, SkipFrame
  <1>3. CASE chain[c].at = "calc"
    <2>1. NothingDone /\ gone # {}
      BY <1>3 DEF SettleInv, Progress, ChainFails
    <2> QED
      BY <1>1, <2>1 DEF NoneSkipped, NothingDone
  <1>4. CASE chain[c].at = "give"
    <2>1. \A p \in Players : Len(given[p]) = IF p < chain[c].i THEN 1 ELSE 0
      BY <1>4 DEF SettleInv, Progress
    <2>2. \A p \in Players : given[p] = <<>> => ~(p < chain[c].i)
      BY <2>1
    <2>3. chain[c].i \in 0 .. N + 1
      BY DEF TypeInv, TypeOK, ChainSet
    <2>4. CASE chain[c].i <= N
      <3>1. chain[c].i \in gone
        BY <1>4, <2>4 DEF ChainFails, Called
      <3>2. \A p \in Players : given[p] = <<>> => chain[c].i <= p
        BY <2>2, <2>3, RoomAssumption DEF Players
      <3> QED
        BY <1>1, <3>1, <3>2 DEF NoneSkipped
    <2>5. CASE ~(chain[c].i <= N)
      <3>1. \A p \in Players : p < chain[c].i
        BY <2>3, <2>5, RoomAssumption DEF Players
      <3> QED
        BY <1>1, <2>2, <3>1 DEF NoneSkipped
    <2> QED
      BY <2>4, <2>5
  <1> QED
    BY <1>2, <1>3, <1>4

LEMMA SkipStep ==
  TypeInv /\ SettleInv /\ BegunOnce /\ NoneSkipped /\ [Next]_vars => NoneSkipped'
  <1> SUFFICES ASSUME TypeInv, SettleInv, BegunOnce, NoneSkipped, [Next]_vars PROVE NoneSkipped'
    OBVIOUS
  <1> USE DEF battleVars, loadVars, resultVars, playerVars
  <1>t. chain \in [Starters -> ChainSet]
    BY DEF TypeInv, TypeOK
  <1>1. ASSUME UNCHANGED <<given, OverRes, chain>>, gone \subseteq gone'
        PROVE  NoneSkipped'
    BY <1>1, SkipFrame DEF Pays
  <1>2. ASSUME NEW c \in Starters, UNCHANGED <<given, OverRes, gone>>,
               chain[c].at \notin {"calc", "give"},
               \A d \in Starters : d # c => chain'[d] = chain[d]
        PROVE  NoneSkipped'
    <2>1. \A d \in Starters, p \in Players : Pays(d, p) => Pays(d, p)'
      BY <1>2 DEF Pays
    <2> QED
      BY <1>2, <2>1, SkipFrame
  <1>3. CASE WaitForClients \/ LoadingTimeout \/ Combat \/ EndBattle \/ UNCHANGED vars
    BY <1>1, <1>3 DEF WaitForClients, LoadingTimeout, Combat, EndBattle, vars
  <1>4. ASSUME NEW c \in Starters, Counted(c) \/ LoadingFails(c) PROVE NoneSkipped'
    BY <1>1, <1>4 DEF Counted, LoadingFails
  <1>5. ASSUME NEW c \in Starters, Begin(c) PROVE NoneSkipped'
    <2>1. chain[c].at = "off"
      BY <1>5 DEF Begin, BegunOnce
    <2> QED
      BY <1>2, <1>5, <1>t, <2>1 DEF Begin
  <1>6. ASSUME NEW c \in Starters, UpdateRaises(c) PROVE NoneSkipped'
    BY <1>2, <1>6, <1>t DEF UpdateRaises, GoTo
  <1>7. ASSUME NEW c \in Starters, BattleUpdate(c) PROVE NoneSkipped'
    <2>1. CASE OverRes' = 0
      BY <2>1 DEF NoneSkipped
    <2>2. CASE OverRes' # 0
      <3>1. chain'[c].at = "calc"
        BY <1>7, <2>2, <1>t DEF BattleUpdate
      <3> QED
        BY <3>1 DEF NoneSkipped, Pays
    <2> QED
      BY <2>1, <2>2
  <1>8. ASSUME NEW c \in Starters, SettleNext(c) PROVE NoneSkipped'
    <2>1. CASE CalcRes(c)
      <3>1. chain'[c].at = "calc"
        BY <2>1, <1>t DEF CalcRes, GoTo
      <3> QED
        BY <3>1 DEF NoneSkipped, Pays
    <2>2. ASSUME NEW paid \in SUBSET (Players \ runaway), NEW prized \in SUBSET (Winners \ runaway),
                 CalcGains(c, paid, prized)
          PROVE  NoneSkipped'
      <3>1. chain'[c].at = "give" /\ chain'[c].i = 1
        BY <2>2, <1>t DEF CalcGains, GoTo
      <3> QED
        BY <3>1, RoomAssumption DEF NoneSkipped, Pays, Players
    <2>3. CASE RecordResult(c)
      <3>1. /\ chain[c].at = "give" /\ chain[c].i > N /\ UNCHANGED <<given, OverRes, gone>>
            /\ \A d \in Starters : d # c => chain'[d] = chain[d]
        BY <2>3, <1>t DEF RecordResult, At, GoTo
      <3>2. chain[c].i \in 0 .. N + 1
        BY <1>t DEF ChainSet
      <3>3. \A p \in Players : ~Pays(c, p)
        BY <3>1, <3>2, RoomAssumption DEF Pays, Players
      <3>4. \A d \in Starters, p \in Players : Pays(d, p) => Pays(d, p)'
        BY <3>1, <3>3 DEF Pays
      <3> QED
        BY <3>1, <3>4, SkipFrame
    <2>4. CASE LeaveMap(c)
      BY <1>2, <2>4, <1>t DEF LeaveMap, At, GoTo
    <2>5. CASE CloseRoom(c)
      BY <1>2, <2>5, <1>t DEF CloseRoom, At, GoTo
    <2> QED
      BY <1>8, <2>1, <2>2, <2>3, <2>4, <2>5, GiveSkipsNobody, FailureSkipsNobody DEF SettleNext
  <1>9. CASE ClientNext
    BY <1>1, <1>9 DEF ClientNext, LoadingRes, Overdue, BackOnline, AgentExits
  <1> QED
    BY <1>3, <1>4, <1>5, <1>6, <1>7, <1>8, <1>9 DEF Next, Over, LoadNext

(* Nobody is passed over by a settlement: only a call to an exited agent   *)
(* leaves players unpaid, and only from that agent on, or all of them      *)
(* (calcRes, giveResult).                                                  *)
THEOREM NobodySkipped == Spec => []NoneSkipped
  <1> DEFINE Inv == TypeInv /\ SettleInv /\ BegunOnce /\ NoneSkipped
  <1>1. Init => Inv
    <2>1. Init => NoneSkipped /\ BegunOnce
      BY DEF Init, NoneSkipped, BegunOnce
    <2> QED
      BY <2>1, TypeInit, SettleInit
  <1>2. Inv /\ [Next]_vars => Inv'
    BY TypeStep, SettleStep, BegunStep, SkipStep
  <1>3. Inv => NoneSkipped
    OBVIOUS
  <1> QED
    BY <1>1, <1>2, <1>3, PTL DEF Spec

-----------------------------------------------------------------------------
(* A counting loop that counted everyone it passed and finds everyone      *)
(* loaded goes to the next player, or begins the battle.                   *)
LEMMA CountsAll ==
  ASSUME NEW c \in Starters, co \in [Starters -> CoSet], NEW i \in 1 .. N + 1, NEW prog,
         \A p \in Players : prog[p] = 100, CountFrom(c, i, i - 1, prog),
         last_update_time = "nil"
  PROVE  co'[c].at = "begin" \/ (co'[c].at = "count" /\ co'[c].num = co'[c].i)
  <1> USE RoomAssumption
  <1>1. PICK j \in i .. N + 1 :
          /\ NextLoaded(i, j, prog)
          /\ co' = [co EXCEPT ![c] =
               IF j <= N THEN [at |-> "count", i |-> j, num |-> i - 1 + 1]
               ELSE IF i - 1 = N /\ last_update_time = "nil" THEN [IdleCo EXCEPT !.at = "begin"]
               ELSE IdleCo]
    BY DEF CountFrom
  <1>2. j = i
    <2>1. \A k \in i .. j - 1 : prog[k] # 100
      BY <1>1 DEF NextLoaded
    <2>2. SUFFICES ASSUME i < j PROVE FALSE
      OBVIOUS
    <2>3. i \in i .. j - 1 /\ i \in Players
      BY <2>2 DEF Players
    <2> QED
      BY <2>1, <2>3
  <1>3. CASE i <= N
    BY <1>1, <1>2, <1>3
  <1>4. CASE i = N + 1
    <2>1. co'[c] = [IdleCo EXCEPT !.at = "begin"]
      BY <1>1, <1>2, <1>4
    <2> QED
      BY <2>1 DEF IdleCo
  <1> QED
    BY <1>3, <1>4

(* A coroutine that carries the loading phase on.                          *)
Carries(c) == co[c].at = "begin" \/ (co[c].at = "count" /\ co[c].num = co[c].i)
AllLoaded == \A p \in Players : progress[p] = 100

LEMMA LoaderFrame ==
  ASSUME LoaderInv, UNCHANGED <<progress, last_update_time>>, gone = {} \/ gone' # {},
         \A c \in Starters : Carries(c) => co'[c] = co[c]
  PROVE  LoaderInv'
  <1> SUFFICES ASSUME gone' = {}, AllLoaded, last_update_time = "nil"
               PROVE  \E c \in Starters : Carries(c)'
    BY DEF LoaderInv, AllLoaded, Carries
  <1>1. PICK c \in Starters : Carries(c)
    BY DEF LoaderInv, AllLoaded, Carries
  <1>2. Carries(c)'
    BY <1>1 DEF Carries
  <1> QED
    BY <1>2

LEMMA LoaderStep == TypeInv /\ LoaderInv /\ [Next]_vars => LoaderInv'
  <1> SUFFICES ASSUME TypeInv, LoaderInv, [Next]_vars PROVE LoaderInv'
    OBVIOUS
  <1> USE DEF battleVars, loadVars, resultVars, playerVars
  <1>t. co \in [Starters -> CoSet] /\ "timer" \in Starters /\ Requests \subseteq Starters
    BY DEF TypeInv, TypeOK, Starters
  <1>f. ASSUME UNCHANGED <<progress, last_update_time>>, gone = {} \/ gone' # {},
               \A c \in Starters : Carries(c) => co'[c] = co[c]
        PROVE  LoaderInv'
    BY <1>f, LoaderFrame
  <1>1. CASE WaitForClients \/ LoadingTimeout
    <2>1. co["timer"].at \in {"enter", "wait"} /\ \A c \in Starters : c # "timer" => co'[c] = co[c]
      BY <1>1, <1>t DEF WaitForClients, LoadingTimeout
    <2>2. UNCHANGED <<progress, last_update_time, gone>>
      BY <1>1 DEF WaitForClients, LoadingTimeout
    <2> QED
      BY <2>1, <2>2, <1>f DEF Carries
  <1>2. CASE Combat \/ EndBattle \/ UNCHANGED vars
    <2>1. UNCHANGED <<progress, last_update_time, gone, co>>
      BY <1>2 DEF Combat, EndBattle, vars
    <2> QED
      BY <2>1, <1>f
  <1>3. ASSUME NEW c \in Starters, BattleUpdate(c) \/ SettleNext(c) \/ UpdateRaises(c)
        PROVE  LoaderInv'
    <2>1. UNCHANGED <<progress, last_update_time, gone, co>>
      BY <1>3 DEF BattleUpdate, SettleNext, CalcRes, CalcGains, GiveResult, RecordResult,
                  LeaveMap, CloseRoom, ChainFails, UpdateRaises
    <2> QED
      BY <2>1, <1>f
  <1>4. ASSUME NEW c \in Starters, Counted(c) PROVE LoaderInv'
    <2>1. /\ UNCHANGED <<progress, last_update_time, gone>>
          /\ CountFrom(c, co[c].i + 1, co[c].num, progress)
          /\ \A d \in Starters : d # c => co'[d] = co[d]
      BY <1>4, <1>t DEF Counted, CountFrom
    <2>2. CASE ~Carries(c)
      BY <2>1, <2>2, <1>f
    <2>3. CASE Carries(c)
      <3> SUFFICES ASSUME AllLoaded, last_update_time = "nil" PROVE Carries(c)'
        BY <2>1 DEF LoaderInv, AllLoaded, Carries
      <3>1. co[c].num = (co[c].i + 1) - 1 /\ co[c].i + 1 \in 1 .. N + 1
        <4>1. co[c].at = "count" /\ co[c].num = co[c].i
          BY <1>4, <2>3 DEF Counted, Carries
        <4>2. co[c].i \in 1 .. N
          BY <4>1 DEF TypeInv, CountSound
        <4> QED
          BY <4>1, <4>2, RoomAssumption
      <3> QED
        <4>1. CountFrom(c, co[c].i + 1, (co[c].i + 1) - 1, progress)
          BY <2>1, <3>1
        <4> QED
          BY <4>1, <3>1, <1>t, CountsAll DEF AllLoaded, Carries
    <2> QED
      BY <2>2, <2>3
  <1>5. ASSUME NEW c \in Starters, Begin(c) PROVE LoaderInv'
    BY <1>5 DEF Begin, LoaderInv
  <1>6. ASSUME NEW c \in Starters, LoadingFails(c) PROVE LoaderInv'
    <2>1. gone # {} /\ UNCHANGED gone
      BY <1>6 DEF LoadingFails
    <2> QED
      BY <2>1 DEF LoaderInv
  <1>7. ASSUME NEW p \in Players, NEW c \in Requests, NEW percent \in Percents,
               LoadingRes(p, c, percent)
        PROVE  LoaderInv'
    <2> SUFFICES ASSUME AllLoaded', last_update_time = "nil" PROVE Carries(c)'
      BY <1>7, <1>t DEF LoadingRes, LoaderInv, AllLoaded, Carries
    <2>1. CountFrom(c, 1, 1 - 1, progress') /\ 1 \in 1 .. N + 1
      BY <1>7, RoomAssumption DEF LoadingRes
    <2> QED
      BY <2>1, <1>t, CountsAll DEF AllLoaded, Carries
  <1>8. ASSUME NEW p \in Players, Overdue(p) \/ BackOnline(p) PROVE LoaderInv'
    <2>1. UNCHANGED <<progress, last_update_time, gone, co>>
      BY <1>8 DEF Overdue, BackOnline
    <2> QED
      BY <2>1, <1>f
  <1>9. ASSUME NEW p \in Players, AgentExits(p) PROVE LoaderInv'
    BY <1>9 DEF AgentExits, LoaderInv
  <1> QED
    BY <1>1, <1>2, <1>3, <1>4, <1>5, <1>6, <1>7, <1>8, <1>9 DEF Next, Over, LoadNext, ClientNext

(* While all agents are there, whoever loads last starts the battle, for   *)
(* any number of players and overlapping requests (CMD.loadingRes).        *)
THEOREM LastLoader == Spec => []LastLoaderStarts
  <1>1. Init => TypeInv /\ LoaderInv
    <2>1. Init => LoaderInv
      <3>1. Init => 1 \in Players /\ progress[1] # 100
        BY RoomAssumption DEF Init, Players
      <3> QED
        BY <3>1 DEF LoaderInv
    <2> QED
      BY <2>1, TypeInit
  <1>2. TypeInv /\ LoaderInv /\ [Next]_vars => (TypeInv /\ LoaderInv)'
    BY TypeStep, LoaderStep
  <1>3. TypeInv /\ LoaderInv => LastLoaderStarts
    BY DEF TypeInv, TypeOK, LoaderInv, LastLoaderStarts
  <1> QED
    BY <1>1, <1>2, <1>3, PTL DEF Spec
=============================================================================
