------------------------------ MODULE Economy -------------------------------
(***************************************************************************)
(* What an agent keeps for its player and how client requests change it     *)
(* (agent/*_method.lua, agent/expand/*_ch.lua).  A request is a coroutine of   *)
(* an agent.  It makes a sequence of changes; each change alters the agent's  *)
(* tables, asks where the database is (skynet.uniqueservice, answered in      *)
(* order) and then sends what the tables hold by then.  Between these steps   *)
(* other requests run, midnight comes, or the agent exits and its coroutines  *)
(* with it.                                                                 *)
(*                                                                         *)
(* A login makes a new agent (loginslave.lua:152-157).  It loads the tables   *)
(* one after the other, and only then is the connection of the agent before   *)
(* it closed (userEnter), so several agents of one account may be alive, each *)
(* with tables of its own, and write into the same database.                *)
(*                                                                         *)
(* Modelled are the requests in which tests, payments and flags stand       *)
(* apart: upgradeCardColorLevel, buyShopItem of a chest, recvMailItems,     *)
(* recvMissionAward of the daily mission, exploreRefresh, and the gains of  *)
(* a battle.  A package holds one unit of gold or one card fragment.        *)
(***************************************************************************)
EXTENDS Integers, Sequences

CONSTANTS Agents,       \* the agents that may be made for the account
          Coros, Host,  \* the requests that may run together, each in an agent
          Menus,        \* which kinds of requests each may be in a behaviour
          MaxInt,       \* math.maxint32, where addGold and addCard clamp
          MaxLevel,     \* the highest dataId of the card
          DailyTimes,   \* the daily number of chests and of explorations
          MaxDays       \* bound on the days

ASSUME EconomyAssumption ==
  /\ Host \in [Coros -> Agents]
  /\ MaxInt \in Nat \ {0} /\ MaxLevel \in Nat \ {0}
  /\ DailyTimes \in Nat \ {0} /\ MaxDays \in Nat \ {0}
  /\ Menus \subseteq [Coros -> SUBSET {"upgrade", "mail", "explore", "battle", "box", "award"}]

VARIABLES mem,          \* the tables of every agent
          db,           \* the same in Redis
          stage,        \* what an agent loads next; "online" when it has all
          coro,         \* the running requests
          asking,       \* of every agent: those that wait for uniqueservice
          menu, today,
          foreign,      \* history: what others wrote since an agent did or read it
          boxes         \* history: chests paid for today

econVars == <<mem, db, stage, coro, asking, menu, today, foreign, boxes>>

(* account: gold to refreshtime; the card: count, dataId; a mail: mailflag;  *)
(* the daily mission: progress, flag, time.  History: paid, how often        *)
(* fragments were paid (no further than matters), kept with the count;       *)
(* frommail, how often the mail's items were received, kept with the card.  *)
Fields == {"gold", "money", "exploretimes", "buyboxtimes", "refreshtime",
           "count", "paid", "frommail", "dataId", "mailflag",
           "progress", "flag", "time"}

NewPlayer ==
  [f \in Fields |-> CASE f \in {"gold", "count"} -> 1
                      [] f = "money" -> MaxInt
                      [] f \in {"exploretimes", "buyboxtimes"} -> DailyTimes
                      [] f \in {"dataId", "refreshtime", "time"} -> 1
                      [] OTHER -> 0]

NoRequest == [at |-> "none", ops |-> <<>>]

(* The tables in the order in which loadAccountData loads them, and what      *)
(* follows each.                                                            *)
AccountFields == {"gold", "money", "exploretimes", "buyboxtimes", "refreshtime"}
CardFields == {"count", "paid", "frommail", "dataId"}
MissionFields == {"progress", "flag", "time"}

Table(st) ==
  CASE st = "account" -> AccountFields [] st = "cards" -> CardFields
    [] st = "missions" -> MissionFields [] st = "mails" -> {"mailflag"} [] OTHER -> {}

After(st) ==
  CASE st = "account" -> "cards" [] st = "cards" -> "missions"
    [] st = "missions" -> "mails" [] OTHER -> "online"

Has(a) ==
  CASE stage[a] = "cards" -> AccountFields [] stage[a] = "missions" -> AccountFields \cup CardFields
    [] stage[a] = "mails" -> Fields \ {"mailflag"} [] stage[a] = "online" -> Fields
    [] OTHER -> {}

Online(a) == stage[a] = "online"

(* An agent that is not there has no tables; what stands for them does not    *)
(* matter.                                                                  *)
EconInit ==
  /\ mem = [a \in Agents |-> NewPlayer] /\ db = NewPlayer
  /\ stage = [a \in Agents |-> "none"]
  /\ coro = [c \in Coros |-> NoRequest] /\ asking = [a \in Agents |-> <<>>]
  /\ menu \in Menus /\ today = 1 /\ boxes = 0
  /\ foreign = [a \in Agents |-> {}]
-----------------------------------------------------------------------------
(* The changes.                                                             *)
Op(name, n) == [op |-> name, n |-> n]

Clamp(n) == IF n < 0 THEN 0 ELSE IF n > MaxInt THEN MaxInt ELSE n

(* The rest of the request is given up: haveBuyBoxTimes, haveExploreTimes,   *)
(* isMissionCompleted and the flag.                                         *)
Fails(m, o) ==
  \/ o.op = "box?" /\ m.buyboxtimes < 1 /\ m.buyboxtimes # -1
  \/ o.op = "explore?" /\ m.exploretimes <= 0 /\ m.exploretimes # -1
  \/ o.op = "award?" /\ (m.progress = 0 \/ m.flag > 0)

(* Without an effect, and without a yield, are: adding nothing, deleting     *)
(* more fragments than there are, refreshing before midnight, a test.       *)
Yields(m, o) ==
  CASE o.op \in {"gold", "money"} -> o.n # 0
    [] o.op = "delcard" -> m.count >= 1
    [] o.op = "refresh" -> m.refreshtime < today
    [] o.op = "daily" -> m.time < today
    [] OTHER -> o.op \notin {"box?", "explore?", "award?"}

Effect(m, o) ==
  CASE o.op = "gold"      -> [m EXCEPT !.gold = Clamp(@ + o.n)]
    [] o.op = "money"     -> [m EXCEPT !.money = Clamp(@ + o.n)]
    [] o.op = "addcard"   -> [m EXCEPT !.count = Clamp(@ + 1), !.frommail = @ + o.n]
    [] o.op = "delcard"   -> [m EXCEPT !.count = @ - 1,
                                         !.paid = IF @ < MaxLevel - 1 THEN @ + 1 ELSE @]
    [] o.op = "setdataid" -> [m EXCEPT !.dataId = o.n]
    [] o.op = "mailflag"  -> [m EXCEPT !.mailflag = 1]
    [] o.op = "flag"      -> [m EXCEPT !.flag = @ + 1]
    [] o.op = "progress"  -> [m EXCEPT !.progress = 1]
    [] o.op = "daily"     -> [m EXCEPT !.progress = 0, !.flag = 0, !.time = today]
    [] o.op = "refresh"   -> [m EXCEPT !.exploretimes = DailyTimes,
                                         !.buyboxtimes = DailyTimes, !.refreshtime = today]
    [] o.op = "boxtimes"  -> [m EXCEPT !.buyboxtimes = @ - 1]
    [] o.op = "exptimes"  -> [m EXCEPT !.exploretimes = @ - 1]
    [] OTHER              -> m

(* The fields that are sent; refreshtime is not.                            *)
SentFields(o) ==
  CASE o.op \in {"gold", "money"} -> {o.op}
    [] o.op = "addcard"   -> {"count", "paid", "frommail", "dataId"}
    [] o.op = "delcard"   -> {"count", "paid"}
    [] o.op = "setdataid" -> {"dataId"}
    [] o.op = "mailflag"  -> {"mailflag"}
    [] o.op \in {"flag", "progress", "daily"} -> {"progress", "flag", "time"}
    [] o.op = "refresh"   -> {"exploretimes", "buyboxtimes"}
    [] o.op = "boxtimes"  -> {"buyboxtimes"}
    [] o.op = "exptimes"  -> {"exploretimes"}
    [] OTHER              -> {}

Stored(from, fields) == [f \in Fields |-> IF f \in fields THEN from[f] ELSE db[f]]

(* Agent a wrote or read some fields of the database.                       *)
Touch(a, fields) ==
  foreign' = [b \in Agents |->
                IF b = a THEN foreign[b] \ fields
                ELSE IF stage[b] = "none" THEN {}
                ELSE foreign[b] \cup {f \in Fields : db'[f] # db[f]}]
-----------------------------------------------------------------------------
(* The requests: the tests at their beginning, and the changes.             *)
(* Fault: the level first, then the fragments.                              *)
UpgradeCardLevelFirst(m) ==
  IF m.dataId = MaxLevel \/ m.count < 1 \/ m.gold < 1 THEN <<>>
  ELSE <<Op("gold", -1), Op("setdataid", m.dataId + 1), Op("delcard", 0)>>

UpgradeCard(m) ==
  IF m.dataId = MaxLevel \/ m.count < 1 \/ m.gold < 1 THEN <<>>
  ELSE <<Op("gold", -1), Op("delcard", 0), Op("setdataid", m.dataId + 1)>>

Packages == {Op("gold", 1), Op("addcard", 0)}

BuyBox(m, pack) ==
  IF m.money < 1 THEN <<>>
  ELSE <<Op("refresh", 0), Op("box?", 0), Op("money", -1), pack, Op("activity", 1),
         Op("refresh", 0), Op("boxtimes", 0)>>

(* Fault: the items first, then the flag.                                   *)
RecvMailItemsFirst(m) ==
  IF m.mailflag = 1 THEN <<>> ELSE <<Op("addcard", 1), Op("mailflag", 0)>>

RecvMailItems(m) ==
  IF m.mailflag = 1 THEN <<>> ELSE <<Op("mailflag", 0), Op("addcard", 1)>>

(* getDailyMission may have to begin a new day first.                       *)
RecvMissionAward(pack) == <<Op("daily", 0), Op("award?", 0), pack, Op("flag", 0)>>

(* Fault: the exploration is paid for before its number is taken.           *)
ExploreRefreshLate(m) ==
  IF m.money < 1 THEN <<>>
  ELSE <<Op("refresh", 0), Op("explore?", 0), Op("money", -1), Op("refresh", 0),
         Op("exptimes", 0), Op("activity", 0), Op("reset", 0)>>

(* No refresh is free (Quest.RefreshExploreTimes is zero).                  *)
ExploreRefresh(m) ==
  IF m.money < 1 THEN <<>>
  ELSE <<Op("refresh", 0), Op("explore?", 0), Op("refresh", 0), Op("exptimes", 0),
         Op("money", -1), Op("activity", 0), Op("reset", 0)>>

(* addExp is a change nothing here looks at.                                *)
GiveBattleGains(pack) ==
  <<Op("exp", 0), Op("activity", 0), Op("gold", 1), pack, Op("activity", 0), Op("progress", 0)>>

Programs(m, kind) ==
  CASE kind = "upgrade" -> {UpgradeCard(m)}
    [] kind = "mail"    -> {RecvMailItems(m)}
    [] kind = "explore" -> {ExploreRefresh(m)}
    [] kind = "battle"  -> {GiveBattleGains(p) : p \in Packages}
    [] kind = "box"     -> {BuyBox(m, p) : p \in Packages}
    [] kind = "award"   -> {RecvMissionAward(p) : p \in Packages}
-----------------------------------------------------------------------------
(* A coroutine goes on to the first change that yields; if there is none, or *)
(* a test before it fails, it is done.  Activities are sent without asking.  *)
GoOn(c, ops) ==
  LET a == Host[c]
      m == mem[a]
      stops == {i \in DOMAIN ops : Yields(m, ops[i]) \/ Fails(m, ops[i])} IN
  IF stops = {} \/ Fails(m, ops[CHOOSE i \in stops : \A j \in stops : i <= j])
  THEN /\ coro' = [coro EXCEPT ![c] = NoRequest]
       /\ UNCHANGED <<mem, db, asking, boxes>>
  ELSE LET i == CHOOSE i \in stops : \A j \in stops : i <= j
           o == ops[i]
           direct == o.op = "activity" IN
       /\ mem' = [mem EXCEPT ![a] = Effect(m, o)]
       /\ coro' = [coro EXCEPT ![c] = [at |-> IF direct THEN "wait" ELSE "ask",
                                       ops |-> SubSeq(ops, i, Len(ops))]]
       /\ asking' = IF direct THEN asking ELSE [asking EXCEPT ![a] = Append(@, c)]
       /\ boxes' = IF direct THEN boxes + o.n ELSE boxes
       /\ UNCHANGED db

Request(c) ==
  /\ Online(Host[c]) /\ coro[c].at = "none"
  /\ \E kind \in menu[c] : \E p \in Programs(mem[Host[c]], kind) : p # <<>> /\ GoOn(c, p)
  /\ UNCHANGED <<stage, menu, today, foreign>>

(* Fault: what was in the tables before the change is sent.                 *)
SendFieldsStale(c) ==
  LET a == Host[c] IN
  /\ Online(a) /\ asking[a] # <<>> /\ c = Head(asking[a])
  /\ db' = Stored(db, SentFields(Head(coro[c].ops)))
  /\ Touch(a, SentFields(Head(coro[c].ops)))
  /\ asking' = [asking EXCEPT ![a] = Tail(@)] /\ coro' = [coro EXCEPT ![c].at = "wait"]
  /\ UNCHANGED <<mem, stage, menu, today, boxes>>

SendFields(c) ==
  LET a == Host[c] IN
  /\ Online(a) /\ asking[a] # <<>> /\ c = Head(asking[a])
  /\ db' = Stored(mem[a], SentFields(Head(coro[c].ops)))
  /\ Touch(a, SentFields(Head(coro[c].ops)))
  /\ asking' = [asking EXCEPT ![a] = Tail(@)] /\ coro' = [coro EXCEPT ![c].at = "wait"]
  /\ UNCHANGED <<mem, stage, menu, today, boxes>>

(* The database answers.                                                    *)
Answered(c) ==
  /\ Online(Host[c]) /\ coro[c].at = "wait"
  /\ GoOn(c, Tail(coro[c].ops))
  /\ UNCHANGED <<stage, menu, today, foreign>>

(* CMD.disconnect                                                           *)
AgentExit(a) ==
  /\ stage[a] # "none" /\ stage' = [stage EXCEPT ![a] = "none"]
  /\ mem' = [mem EXCEPT ![a] = NewPlayer]
  /\ coro' = [c \in Coros |-> IF Host[c] = a THEN NoRequest ELSE coro[c]]
  /\ asking' = [asking EXCEPT ![a] = <<>>] /\ foreign' = [foreign EXCEPT ![a] = {}]
  /\ UNCHANGED <<db, menu, today, boxes>>

(* enterGame of a new agent, whether there is another one or not.           *)
EnterGame(a) ==
  /\ stage[a] = "none" /\ stage' = [stage EXCEPT ![a] = "account"]
  /\ UNCHANGED <<mem, db, coro, asking, menu, today, foreign, boxes>>

(* loadAccountData: one table after the other.  A level that was saved counts *)
(* as paid.  After the last the daily mission, looked at twice               *)
(* (onDataLoadCompleted), and the daily numbers are brought up to date, in a  *)
(* coroutine.                                                               *)
Reckoned ==
  [db EXCEPT !.paid = IF @ < db.dataId - 1 THEN db.dataId - 1 ELSE @]

LoadTable(a) ==
  /\ stage[a] \notin {"none", "online"}
  /\ stage' = [stage EXCEPT ![a] = After(@)]
  /\ db' = IF stage[a] = "cards" THEN Reckoned ELSE db
  /\ mem' = [mem EXCEPT ![a] = [f \in Fields |-> IF f \in Table(stage[a]) THEN db'[f] ELSE @[f]]]
  /\ Touch(a, Table(stage[a]))
  /\ IF stage[a] = "mails"
     THEN \E c \in Coros :
            /\ Host[c] = a
            /\ coro' = [coro EXCEPT ![c] = [at |-> "wait",
                                            ops |-> <<Op("load", 0), Op("daily", 0), Op("daily", 0),
                                                      Op("refresh", 0)>>]]
     ELSE UNCHANGED coro
  /\ UNCHANGED <<asking, menu, today, boxes>>

Midnight ==
  /\ today < MaxDays /\ today' = today + 1 /\ boxes' = 0
  /\ UNCHANGED <<mem, db, stage, coro, asking, menu, foreign>>

EconNext ==
  \/ \E c \in Coros : Request(c) \/ SendFields(c) \/ Answered(c)
  \/ \E a \in Agents : AgentExit(a) \/ EnterGame(a) \/ LoadTable(a)
  \/ Midnight

EconSpec == EconInit /\ [][EconNext]_econVars
-----------------------------------------------------------------------------
(* A request of the agent is about to send the field.                       *)
Sends(a, f) ==
  \E i \in DOMAIN asking[a] : f \in SentFields(Head(coro[asking[a][i]].ops))

(* In the tables of any agent and in the database the items of a mail are     *)
(* received at most once, also when requests for it overlap, when an agent    *)
(* exits at any point, and when two agents have the account at once: the      *)
(* items are given, and saved, only after the flag is in the database         *)
(* (system_ch.lua:406-412), and mails are loaded after cards.               *)
MailOnce ==
  /\ \A a \in Agents : Online(a) =>
       mem[a].frommail = 0 \/ (mem[a].frommail = 1 /\ mem[a].mailflag = 1 /\ db.mailflag = 1)
  /\ db.frommail = 0 \/ (db.frommail = 1 /\ db.mailflag = 1)

(* In an agent's tables a card has risen no more levels than fragments were   *)
(* paid: a request whose own fragments are gone when it wants to take them    *)
(* (delCardByUuid returns) rises only to a level that another one has paid.   *)
(* Where the database has a level and not its payment, a request that saves   *)
(* the payment is asking, or another agent of the account has written the     *)
(* level or the payments since this one did: its stale number of fragments    *)
(* replaced the payment (system_ch.lua:83-89, cards_method.lua:94-123).      *)
LevelsPaid ==
  \A a \in Agents : Online(a) =>
    /\ mem[a].dataId - 1 <= mem[a].paid
    /\ db.dataId - 1 <= db.paid \/ Sends(a, "paid") \/ {"dataId", "paid"} \cap foreign[a] # {}

(* Whatever an agent's tables have and the database has not is going to be    *)
(* saved: a request is asking for the database to send it; or another agent   *)
(* of the account has overwritten it.  refreshtime is left out, the code does *)
(* not save it (account_method.lua:147-159).                                *)
DirtyOwned ==
  \A a \in Agents : Online(a) =>
    \A f \in Fields \ {"refreshtime"} :
      mem[a][f] # db[f] => Sends(a, f) \/ f \in foreign[a]

(* Nobody lowers exploretimes when it is 0, after which it would mean without *)
(* a limit (account_method.lua:165-177), except a request that midnight       *)
(* catches between its test and the decrement: addExploreTimes refreshes the  *)
(* number first, and that yields.                                            *)
ExploreTimesTested ==
  [][\A a \in Agents : Online(a) /\ mem[a].exploretimes = 0 /\ mem'[a].exploretimes < 0 =>
       \E c \in Coros : /\ Host[c] = a /\ coro[c].at = "wait" /\ Head(coro[c].ops).op = "refresh"
                        /\ coro'[c] = [at |-> "ask", ops |-> Tail(coro[c].ops)]]_econVars

(* "The purchases of today are used up" (system_ch.lua:159): at most         *)
(* DailyTimes chests a day.                                                 *)
BoxesLimited == boxes <= DailyTimes
=============================================================================
