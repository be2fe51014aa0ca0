----------------------------- MODULE PlayerProofs ----------------------------
(***************************************************************************)
(* What the server keeps for a player.                                      *)
(*                                                                         *)
(* Economy: for any number of agents of an account and of overlapping          *)
(* requests, any days and levels, the items of a mail are received once,      *)
(* levels are paid, changes are saved and explorations are tested, with the    *)
(* exceptions that the properties name where agents overwrite each other.     *)
(* The invariant, EconInv, says what is left of a request's sequence of        *)
(* changes (Shaped), what the agents together have written (DbSound), and of  *)
(* every agent that those who ask for the database do so once (AskSound), who *)
(* is between a mail's flag and its items (MailSound), what pending levels     *)
(* rest on (LevelSound), and that what it has changed is asked for (Owned).    *)
(*                                                                         *)
(* EventStamp: for any clients, any reasons and any number of changes nobody   *)
(* waits for what has happened, and no reason for a change is lost.           *)
(*                                                                         *)
(* Affects: for any assignment of the three kinds of skills to any coroutines *)
(* a control affect does not outlast itself while no agent of a player has     *)
(* exited.  Removing from the list keeps what is in force at the indexes that *)
(* stay (RanksAreBijective, CountThrough), so each removal takes at least as  *)
(* much from the count as it puts out of force.                              *)
(***************************************************************************)
EXTENDS Economy, EventStamp, Affects, SequenceTheorems, FunctionTheorems,
        FiniteSetTheorems, WellFoundedInduction, TLAPS
-----------------------------------------------------------------------------
(* The agent's tables.                                                      *)

(* The changes there are.                                                   *)
OpNames == {"gold", "money", "addcard", "delcard", "setdataid", "mailflag", "flag",
            "progress", "daily", "refresh", "boxtimes", "exptimes", "box?", "explore?",
            "award?", "activity", "load", "exp", "reset"}
Ops == [op : OpNames, n : Int]

(***************************************************************************)
(* What the sequences of changes look like.  Each rule holds of a request's   *)
(* whole sequence and of what is left of it.                                *)
(***************************************************************************)
(* The mail: the flag comes first, the items right after it.                *)
MailRule(ops) ==
  \A i \in DOMAIN ops :
    /\ ops[i].op = "mailflag" => i = 1
    /\ ops[i].op = "addcard" /\ ops[i].n # 0 =>
         ops[i].n = 1 /\ (i = 1 \/ (i = 2 /\ ops[1].op = "mailflag"))

(* The card: the gold, the fragments, the level.                            *)
LevelRule(ops) ==
  \A i \in DOMAIN ops :
    ops[i].op = "setdataid" =>
      /\ ops[i].n \in 2 .. MaxLevel /\ i <= 3
      /\ i >= 2 => ops[i - 1].op = "delcard"
      /\ i = 3 => ops[1].op = "gold" /\ ops[1].n # 0

(* The exploration: the test, the refreshment, the decrement.               *)
ExploreRule(ops) ==
  \A i \in DOMAIN ops :
    ops[i].op = "exptimes" =>
      /\ i >= 2 => ops[i - 1].op = "refresh"
      /\ i >= 3 => ops[i - 2].op = "explore?"

Shape(ops) == MailRule(ops) /\ LevelRule(ops) /\ ExploreRule(ops)

(* A request that is under way stands at a change, not at a test.           *)
Shaped ==
  \A c \in Coros : coro[c].at # "none" =>
    Shape(coro[c].ops) /\ coro[c].ops[1].op # "explore?"

(* The places an agent may be in.                                         *)
Stages == {"none", "account", "cards", "missions", "mails", "online"}

(* Those of an agent that ask do so once, and nobody runs before all tables   *)
(* are loaded.                                                              *)
AskSound(a) ==
  /\ \A i \in DOMAIN asking[a] : coro[asking[a][i]].at = "ask" /\ Host[asking[a][i]] = a
  /\ \A i, j \in DOMAIN asking[a] : asking[a][i] = asking[a][j] => i = j
  /\ ~Online(a) => /\ asking[a] = <<>>
                   /\ \A c \in Coros : Host[c] = a => coro[c].at = "none"

(* A request that has set the mail's flag and not yet given its items.      *)
Holder(c) == coro[c].at # "none" /\ coro[c].ops[1].op = "mailflag"

(* One request of an agent at a time is between the flag and the items, and   *)
(* the items follow only when the flag is in the database.  An agent that has *)
(* loaded a card with the items loads the mail later, with the flag.        *)
MailSound(a) ==
  /\ {mem[a].frommail, mem[a].mailflag} \subseteq {0, 1}
  /\ \A c \in Coros : Host[c] = a /\ Holder(c) =>
       /\ mem[a].mailflag = 1 /\ mem[a].frommail = 0
       /\ coro[c].at = "wait" => db.mailflag = 1
  /\ \A c, d \in Coros : Host[c] = a /\ Host[d] = a /\ Holder(c) /\ Holder(d) => c = d
  /\ mem[a].frommail = 1 => db.mailflag = 1 /\ (Online(a) => mem[a].mailflag = 1)

(* A level that a request is going to set: paid, or the fragments are to be   *)
(* taken first; if others have taken them, they have paid for it.           *)
Promised(m, ops) ==
  \A i \in DOMAIN ops :
    ops[i].op = "setdataid" =>
      /\ i = 2 => ops[i].n - 1 <= m.paid
      /\ i = 3 => /\ ops[i].n - 2 <= m.paid
                  /\ m.count >= 1 \/ ops[i].n - 1 <= m.paid

(* Every level is paid in an agent's tables, those that requests are going to *)
(* set too, and that of the database unless another agent wrote it.         *)
LevelSound(a) ==
  /\ mem[a].dataId \in 1 .. MaxLevel /\ mem[a].count >= 0
  /\ mem[a].dataId - 1 <= mem[a].paid
  /\ "dataId" \in Has(a) => "dataId" \in foreign[a] \/ db.dataId - 1 <= mem[a].paid
  /\ \A c \in Coros : Host[c] = a /\ coro[c].at # "none" => Promised(mem[a], coro[c].ops)

(* What an agent has loaded and the database has otherwise is going to be     *)
(* saved, or another agent wrote it.                                        *)
Owned(a) ==
  \A f \in Has(a) \ {"refreshtime"} :
    mem[a][f] # db[f] => Sends(a, f) \/ f \in foreign[a]

(* What the agents together have written.                                   *)
DbSound ==
  /\ db.frommail \in {0, 1} /\ db.mailflag \in {0, 1}
  /\ db.frommail = 1 => db.mailflag = 1
  /\ db.dataId \in 1 .. MaxLevel /\ db.count >= 0

(* The tables, the coroutines and those that ask for the database.          *)
EconType ==
  /\ mem \in [Agents -> [Fields -> Int]] /\ db \in [Fields -> Int]
  /\ stage \in [Agents -> Stages] /\ foreign \in [Agents -> SUBSET Fields]
  /\ coro \in [Coros -> [at : {"none", "ask", "wait"}, ops : Seq(Ops)]]
  /\ asking \in [Agents -> Seq(Coros)] /\ today \in Nat /\ menu \in Menus
  /\ \A c \in Coros : coro[c].at # "none" => coro[c].ops # <<>>

(* The bounds are numbers.                                                  *)
LEMMA Bounds == MaxInt \in Nat \ {0} /\ MaxLevel \in Nat \ {0} /\ DailyTimes \in Nat \ {0}
  BY EconomyAssumption DEF EconomyAssumption

(* A clamped number is one, and adding does not make a positive one zero.    *)
LEMMA Clamped ==
  ASSUME NEW n \in Int
  PROVE  Clamp(n) \in Int /\ Clamp(n) >= 0 /\ (n >= 1 => Clamp(n) >= 1)
  BY Bounds DEF Clamp

(* A change as the tables record it: what it does to the fields that the      *)
(* properties are about, and that it touches only what it sends.             *)
Recorded(o, m, n) ==
  /\ n \in [Fields -> Int]
  /\ \A f \in Fields \ {"refreshtime"} : f \notin SentFields(o) => n[f] = m[f]
  /\ n.frommail = IF o.op = "addcard" THEN m.frommail + o.n ELSE m.frommail
  /\ n.mailflag = IF o.op = "mailflag" THEN 1 ELSE m.mailflag
  /\ n.dataId = IF o.op = "setdataid" THEN o.n ELSE m.dataId
  /\ n.paid = IF o.op = "delcard" /\ m.paid < MaxLevel - 1 THEN m.paid + 1 ELSE m.paid
  /\ o.op = "delcard" => n.count = m.count - 1
  /\ o.op # "delcard" => n.count = m.count \/ n.count = Clamp(m.count + 1)
  /\ m.exploretimes >= 0 /\ n.exploretimes < 0 => o.op = "exptimes"

(* Every change does what Recorded says.                                   *)
LEMMA EffectRecorded ==
  ASSUME NEW m \in [Fields -> Int], today \in Nat, NEW o \in Ops
  PROVE  Recorded(o, m, Effect(m, o))
<1>0. m \in [Fields -> Int] /\ today \in Nat OBVIOUS
<1>1. o.op \in OpNames /\ o.n \in Int BY DEF Ops
<1>2. DailyTimes \in Nat /\ MaxLevel \in Nat BY Bounds
<1>3. \A f \in Fields : m[f] \in Int BY <1>0
<1>a. {"frommail", "mailflag", "dataId", "paid", "count", "exploretimes"} \subseteq Fields BY DEF Fields
<1>4. CASE o.op = "gold"
  <2>1. PICK v \in Int : v = Clamp(m.gold + o.n) BY <1>1, <1>3, Clamped DEF Fields
  <2>2. Effect(m, o) = [m EXCEPT !.gold = v] BY <1>0, <1>4, <2>1 DEF Effect
  <2>3. SentFields(o) = {"gold"} BY <1>4 DEF SentFields
  <2>4. QED BY <1>0, <1>4, <2>2, <2>3 DEF Recorded, Fields
<1>5. CASE o.op = "money"
  <2>1. PICK v \in Int : v = Clamp(m.money + o.n) BY <1>1, <1>3, Clamped DEF Fields
  <2>2. Effect(m, o) = [m EXCEPT !.money = v] BY <1>0, <1>5, <2>1 DEF Effect
  <2>3. SentFields(o) = {"money"} BY <1>5 DEF SentFields
  <2>4. QED BY <1>0, <1>5, <2>2, <2>3 DEF Recorded, Fields
<1>6. CASE o.op = "addcard"
  <2>1. PICK v \in Int : v = Clamp(m.count + 1) BY <1>3, Clamped DEF Fields
  <2>2. Effect(m, o) = [m EXCEPT !.count = v, !.frommail = m.frommail + o.n]
    BY <1>0, <1>6, <2>1 DEF Effect
  <2>3. SentFields(o) = {"count", "paid", "frommail", "dataId"} BY <1>6 DEF SentFields
  <2>4. m.frommail + o.n \in Int BY <1>1, <1>3 DEF Fields
  <2>5. PICK n : n = [m EXCEPT !.count = v, !.frommail = m.frommail + o.n] OBVIOUS
  <2>6. /\ n \in [Fields -> Int] /\ n.count = v /\ n.frommail = m.frommail + o.n
        /\ \A f \in Fields : f \notin {"count", "frommail"} => n[f] = m[f]
    BY <1>0, <2>4, <2>5 DEF Fields
  <2>7. \A f \in Fields : f \notin SentFields(o) => n[f] = m[f] BY <2>3, <2>6
  <2>8. QED BY <1>a, <1>6, <2>1, <2>2, <2>5, <2>6, <2>7 DEF Recorded
<1>7. CASE o.op = "delcard"
  <2>1. PICK v \in Int : v = IF m.paid < MaxLevel - 1 THEN m.paid + 1 ELSE m.paid
    BY <1>2, <1>3 DEF Fields
  <2>2. Effect(m, o) = [m EXCEPT !.count = m.count - 1, !.paid = v]
    BY <1>0, <1>7, <2>1 DEF Effect
  <2>3. SentFields(o) = {"count", "paid"} BY <1>7 DEF SentFields
  <2>4. m.count - 1 \in Int BY <1>3 DEF Fields
  <2>5. PICK n : n = [m EXCEPT !.count = m.count - 1, !.paid = v] OBVIOUS
  <2>6. /\ n \in [Fields -> Int] /\ n.count = m.count - 1 /\ n.paid = v
        /\ \A f \in Fields : f \notin {"count", "paid"} => n[f] = m[f]
    BY <1>0, <2>4, <2>5 DEF Fields
  <2>7. \A f \in Fields : f \notin SentFields(o) => n[f] = m[f] BY <2>3, <2>6
  <2>8. QED BY <1>a, <1>7, <2>1, <2>2, <2>5, <2>6, <2>7 DEF Recorded
<1>8. CASE o.op = "setdataid"
  <2>1. Effect(m, o) = [m EXCEPT !.dataId = o.n] BY <1>0, <1>8 DEF Effect
  <2>2. SentFields(o) = {"dataId"} BY <1>8 DEF SentFields
  <2>3. QED BY <1>0, <1>1, <1>8, <2>1, <2>2 DEF Recorded, Fields
<1>9. CASE o.op = "mailflag"
  <2>1. Effect(m, o) = [m EXCEPT !.mailflag = 1] BY <1>0, <1>9 DEF Effect
  <2>2. SentFields(o) = {"mailflag"} BY <1>9 DEF SentFields
  <2>3. QED BY <1>0, <1>9, <2>1, <2>2 DEF Recorded, Fields
<1>10. CASE o.op = "flag"
  <2>1. Effect(m, o) = [m EXCEPT !.flag = m.flag + 1] BY <1>0, <1>10 DEF Effect
  <2>2. SentFields(o) = {"progress", "flag", "time"} BY <1>10 DEF SentFields
  <2>3. m.flag + 1 \in Int BY <1>3 DEF Fields
  <2>4. QED BY <1>0, <1>10, <2>1, <2>2, <2>3 DEF Recorded, Fields
<1>11. CASE o.op = "progress"
  <2>1. Effect(m, o) = [m EXCEPT !.progress = 1] BY <1>0, <1>11 DEF Effect
  <2>2. SentFields(o) = {"progress", "flag", "time"} BY <1>11 DEF SentFields
  <2>3. QED BY <1>0, <1>11, <2>1, <2>2 DEF Recorded, Fields
<1>12. CASE o.op = "daily"
  <2>1. Effect(m, o) = [m EXCEPT !.progress = 0, !.flag = 0, !.time = today] BY <1>0, <1>12 DEF Effect
  <2>2. SentFields(o) = {"progress", "flag", "time"} BY <1>12 DEF SentFields
  <2>3. PICK n : n = [m EXCEPT !.progress = 0, !.flag = 0, !.time = today] OBVIOUS
  <2>4. /\ n \in [Fields -> Int]
        /\ \A f \in Fields : f \notin {"progress", "flag", "time"} => n[f] = m[f]
    <3>1. PICK m1 : m1 = [m EXCEPT !.progress = 0] OBVIOUS
    <3>2. m1 \in [Fields -> Int] /\ \A f \in Fields : f # "progress" => m1[f] = m[f]
      BY <1>0, <3>1 DEF Fields
    <3>3. PICK m2 : m2 = [m1 EXCEPT !.flag = 0] OBVIOUS
    <3>4. m2 \in [Fields -> Int] /\ \A f \in Fields : f # "flag" => m2[f] = m1[f]
      BY <3>2, <3>3 DEF Fields
    <3>5. n = [m2 EXCEPT !.time = today] BY <2>3, <3>1, <3>3
    <3>6. n \in [Fields -> Int] /\ \A f \in Fields : f # "time" => n[f] = m2[f]
      BY <1>0, <3>4, <3>5 DEF Fields
    <3>7. QED BY <3>2, <3>4, <3>6
  <2>5. QED BY <1>a, <1>12, <2>1, <2>2, <2>3, <2>4 DEF Recorded
<1>13. CASE o.op = "refresh"
  <2>1. Effect(m, o) = [m EXCEPT !.exploretimes = DailyTimes, !.buyboxtimes = DailyTimes,
                                !.refreshtime = today]
    BY <1>0, <1>13 DEF Effect
  <2>2. SentFields(o) = {"exploretimes", "buyboxtimes"} BY <1>13 DEF SentFields
  <2>3. PICK n : n = [m EXCEPT !.exploretimes = DailyTimes, !.buyboxtimes = DailyTimes,
                                 !.refreshtime = today]
    OBVIOUS
  <2>4. /\ n \in [Fields -> Int] /\ n.exploretimes = DailyTimes
        /\ \A f \in Fields : f \notin {"exploretimes", "buyboxtimes", "refreshtime"} => n[f] = m[f]
    <3>1. PICK m1 : m1 = [m EXCEPT !.exploretimes = DailyTimes] OBVIOUS
    <3>2. /\ m1 \in [Fields -> Int] /\ m1.exploretimes = DailyTimes
          /\ \A f \in Fields : f # "exploretimes" => m1[f] = m[f]
      BY <1>0, <1>2, <3>1 DEF Fields
    <3>3. PICK m2 : m2 = [m1 EXCEPT !.buyboxtimes = DailyTimes] OBVIOUS
    <3>4. m2 \in [Fields -> Int] /\ \A f \in Fields : f # "buyboxtimes" => m2[f] = m1[f]
      BY <1>2, <3>2, <3>3 DEF Fields
    <3>5. n = [m2 EXCEPT !.refreshtime = today] BY <2>3, <3>1, <3>3
    <3>6. n \in [Fields -> Int] /\ \A f \in Fields : f # "refreshtime" => n[f] = m2[f]
      BY <1>0, <3>4, <3>5 DEF Fields
    <3>7. n.exploretimes = m2.exploretimes /\ m2.exploretimes = m1.exploretimes
      BY <3>4, <3>6 DEF Fields
    <3>8. QED BY <3>2, <3>4, <3>6, <3>7
  <2>5. QED BY <1>a, <1>2, <1>13, <2>1, <2>2, <2>3, <2>4 DEF Recorded
<1>14. CASE o.op = "boxtimes"
  <2>1. Effect(m, o) = [m EXCEPT !.buyboxtimes = m.buyboxtimes - 1] BY <1>0, <1>14 DEF Effect
  <2>2. SentFields(o) = {"buyboxtimes"} BY <1>14 DEF SentFields
  <2>3. m.buyboxtimes - 1 \in Int BY <1>3 DEF Fields
  <2>4. QED BY <1>0, <1>14, <2>1, <2>2, <2>3 DEF Recorded, Fields
<1>15. CASE o.op = "exptimes"
  <2>1. Effect(m, o) = [m EXCEPT !.exploretimes = m.exploretimes - 1] BY <1>0, <1>15 DEF Effect
  <2>2. SentFields(o) = {"exploretimes"} BY <1>15 DEF SentFields
  <2>3. m.exploretimes - 1 \in Int BY <1>3 DEF Fields
  <2>4. QED BY <1>0, <1>15, <2>1, <2>2, <2>3 DEF Recorded, Fields
<1>16. CASE o.op \in {"box?", "explore?", "award?", "activity", "load", "exp", "reset"}
  <2>1. Effect(m, o) = m BY <1>16 DEF Effect
  <2>2. QED BY <1>0, <1>3, <1>16, <2>1 DEF Recorded, Fields
<1>17. QED
  BY <1>1, <1>4, <1>5, <1>6, <1>7, <1>8, <1>9, <1>10, <1>11, <1>12, <1>13, <1>14, <1>15, <1>16
  DEF OpNames
-----------------------------------------------------------------------------
(* A set of numbers that is not empty has a least one.                      *)
LEMMA LeastNumber ==
  ASSUME NEW S, S \subseteq Nat, S # {}
  PROVE  \E i \in S : \A j \in S : i <= j
<1>1. PICK x \in S : \A y \in S : ~(<<y, x>> \in OpToRel(<, Nat))
  BY NatLessThanWellFounded, WFMin
<1>2. \A y \in S : ~(y < x) BY <1>1 DEF OpToRel
<1>3. QED BY <1>2

(* What is left of a sequence of changes from one of them on.               *)
LEMMA Suffix ==
  ASSUME NEW p \in Seq(Ops), NEW k \in DOMAIN p
  PROVE  LET q == SubSeq(p, k, Len(p)) IN
         /\ q \in Seq(Ops) /\ Len(q) = Len(p) - k + 1 /\ q # <<>>
         /\ \A i \in DOMAIN q : i + k - 1 \in DOMAIN p /\ q[i] = p[i + k - 1]
         /\ q[1] = p[k] /\ Head(q) = p[k]
<1> DEFINE q == SubSeq(p, k, Len(p))
<1>1. k \in 1 .. Len(p) /\ Len(p) \in Nat OBVIOUS
<1>2. q \in Seq(Ops) /\ Len(q) = Len(p) - k + 1 /\ \A i \in 1 .. Len(p) - k + 1 : q[i] = p[k + i - 1]
  BY <1>1, SubSeqProperties
<1>3. DOMAIN q = 1 .. Len(p) - k + 1 BY <1>2
<1>4. q # <<>> BY <1>1, <1>2
<1>5. q[1] = p[k] BY <1>1, <1>2
<1>6. Head(q) = q[1] BY <1>2, <1>4
<1>7. \A i \in DOMAIN q : i + k - 1 \in DOMAIN p /\ q[i] = p[i + k - 1] BY <1>1, <1>2, <1>3
<1>8. QED BY <1>2, <1>4, <1>5, <1>6, <1>7

(* What is left keeps its shape.                                            *)
LEMMA SuffixShape ==
  ASSUME NEW p \in Seq(Ops), NEW k \in DOMAIN p, Shape(p)
  PROVE  Shape(SubSeq(p, k, Len(p)))
<1>1. PICK q : q = SubSeq(p, k, Len(p)) OBVIOUS
<1>2. /\ q \in Seq(Ops) /\ Len(q) = Len(p) - k + 1
      /\ \A i \in DOMAIN q : i + k - 1 \in DOMAIN p /\ q[i] = p[i + k - 1]
  BY <1>1, Suffix
<1>3. k \in Nat /\ k >= 1 /\ \A i \in DOMAIN q : i \in Nat /\ i >= 1 BY <1>2
<1>4. \A i \in DOMAIN q : i >= 2 => i - 1 \in DOMAIN q BY <1>2
<1>5. \A i \in DOMAIN q : i >= 3 => i - 2 \in DOMAIN q BY <1>2
<1>6. MailRule(q)
  <2>1. SUFFICES ASSUME NEW i \in DOMAIN q
                 PROVE /\ q[i].op = "mailflag" => i = 1
                       /\ q[i].op = "addcard" /\ q[i].n # 0 =>
                            q[i].n = 1 /\ (i = 1 \/ (i = 2 /\ q[1].op = "mailflag"))
    BY DEF MailRule
  <2>2. i + k - 1 \in DOMAIN p /\ q[i] = p[i + k - 1] BY <1>2
  <2>3. /\ p[i + k - 1].op = "mailflag" => i + k - 1 = 1
        /\ p[i + k - 1].op = "addcard" /\ p[i + k - 1].n # 0 =>
             p[i + k - 1].n = 1 /\ (i + k - 1 = 1 \/ (i + k - 1 = 2 /\ p[1].op = "mailflag"))
    BY <2>2 DEF Shape, MailRule
  <2>4. i = 2 /\ i + k - 1 = 2 => q[1] = p[1] BY SMTT(30), <1>2, <1>3, <1>4
  <2>5. QED BY <1>3, <2>2, <2>3, <2>4
<1>7. LevelRule(q)
  <2>1. SUFFICES ASSUME NEW i \in DOMAIN q, q[i].op = "setdataid"
                 PROVE /\ q[i].n \in 2 .. MaxLevel /\ i <= 3
                       /\ i >= 2 => q[i - 1].op = "delcard"
                       /\ i = 3 => q[1].op = "gold" /\ q[1].n # 0
    BY DEF LevelRule
  <2>2. PICK x \in DOMAIN p : x = i + k - 1 /\ q[i] = p[x] BY <1>2
  <2>3. /\ p[x].n \in 2 .. MaxLevel /\ x <= 3
        /\ x >= 2 => p[x - 1].op = "delcard"
        /\ x = 3 => p[1].op = "gold" /\ p[1].n # 0
    BY <2>1, <2>2 DEF Shape, LevelRule
  <2>4. i >= 2 => q[i - 1] = p[x - 1]
    <3>1. i - 1 + k - 1 = x - 1 BY <1>3, <2>2
    <3>2. QED BY <1>2, <1>4, <3>1
  <2>5. i = 3 => k = 1 /\ q[1] = p[1] BY <1>2, <1>3, <1>5, <2>2, <2>3
  <2>6. x \in Nat /\ i <= x BY <1>3, <2>2
  <2>7. i >= 2 => x >= 2 BY <1>3, <2>6
  <2>8. i = 3 => x = 3 BY <2>2, <2>5, <1>3
  <2>9. i <= 3 BY <1>3, <2>3, <2>6
  <2>10. QED BY <2>2, <2>3, <2>4, <2>5, <2>7, <2>8, <2>9
<1>8. ExploreRule(q)
  <2>1. SUFFICES ASSUME NEW i \in DOMAIN q, q[i].op = "exptimes"
                 PROVE /\ i >= 2 => q[i - 1].op = "refresh"
                       /\ i >= 3 => q[i - 2].op = "explore?"
    BY DEF ExploreRule
  <2>2. PICK x \in DOMAIN p : x = i + k - 1 /\ q[i] = p[x] BY <1>2
  <2>3. /\ x >= 2 => p[x - 1].op = "refresh"
        /\ x >= 3 => p[x - 2].op = "explore?"
    BY <2>1, <2>2 DEF Shape, ExploreRule
  <2>4. i >= 2 => q[i - 1] = p[x - 1]
    <3>1. i - 1 + k - 1 = x - 1 BY <1>3, <2>2
    <3>2. QED BY <1>2, <1>4, <3>1
  <2>5. i >= 3 => q[i - 2] = p[x - 2]
    <3>1. i - 2 + k - 1 = x - 2 BY <1>3, <2>2
    <3>2. QED BY <1>2, <1>5, <3>1
  <2>6. (i >= 2 => x >= 2) /\ (i >= 3 => x >= 3) BY <1>3, <2>2
  <2>7. QED BY <2>3, <2>4, <2>5, <2>6
<1>9. QED BY <1>1, <1>6, <1>7, <1>8 DEF Shape

(* So does what is left after the first change.                             *)
LEMMA TailShape ==
  ASSUME NEW p \in Seq(Ops), p # <<>>, Shape(p)
  PROVE  /\ Tail(p) \in Seq(Ops) /\ Len(Tail(p)) = Len(p) - 1
         /\ \A i \in DOMAIN Tail(p) : i + 1 \in DOMAIN p /\ Tail(p)[i] = p[i + 1]
         /\ Shape(Tail(p))
<1>1. /\ Tail(p) \in Seq(Ops) /\ Len(Tail(p)) = Len(p) - 1
      /\ \A i \in DOMAIN Tail(p) : i + 1 \in DOMAIN p /\ Tail(p)[i] = p[i + 1]
  OBVIOUS
<1>2. CASE Tail(p) = <<>>
  <2>1. DOMAIN Tail(p) = {} BY <1>2
  <2>2. QED BY <1>1, <2>1 DEF Shape, MailRule, LevelRule, ExploreRule
<1>3. CASE Tail(p) # <<>>
  <2>1. Len(p) >= 2 BY <1>1, <1>3
  <2>2. 2 \in DOMAIN p BY <2>1
  <2>3. Shape(SubSeq(p, 2, Len(p))) BY <2>2, SuffixShape
  <2>4. Tail(p) = SubSeq(p, 2, Len(p))
    <3>1. PICK q : q = SubSeq(p, 2, Len(p)) OBVIOUS
    <3>2. /\ q \in Seq(Ops) /\ Len(q) = Len(p) - 2 + 1
          /\ \A i \in DOMAIN q : q[i] = p[i + 2 - 1]
      BY <2>2, <3>1, Suffix
    <3>3. Len(q) = Len(Tail(p)) BY <1>1, <3>2
    <3>4. \A i \in 1 .. Len(q) : q[i] = Tail(p)[i] BY <1>1, <3>2, <3>3
    <3>5. QED BY <1>1, <3>1, <3>2, <3>3, <3>4, SeqEqual
  <2>5. QED BY <1>1, <2>3, <2>4
<1>4. QED BY <1>2, <1>3

(* What a coroutine does: it is done, or it stops at the first change that    *)
(* yields, all tests before it passed.                                      *)
Stops(c, p, i) ==
  /\ Yields(mem[Host[c]], p[i]) /\ ~Fails(mem[Host[c]], p[i])
  /\ \A j \in DOMAIN p : j < i => ~Fails(mem[Host[c]], p[j]) /\ ~Yields(mem[Host[c]], p[j])
  /\ mem' = [mem EXCEPT ![Host[c]] = Effect(mem[Host[c]], p[i])]
  /\ coro' = [coro EXCEPT ![c] = [at |-> IF p[i].op = "activity" THEN "wait" ELSE "ask",
                                  ops |-> SubSeq(p, i, Len(p))]]
  /\ asking' = IF p[i].op = "activity" THEN asking
                ELSE [asking EXCEPT ![Host[c]] = Append(@, c)]
  /\ db' = db

Ends(c) == coro' = [coro EXCEPT ![c] = NoRequest] /\ UNCHANGED <<mem, db, asking>>

(* The first change at which GoOn stops is well defined.                    *)
LEMMA GoesOn ==
  ASSUME NEW c \in Coros, NEW p \in Seq(Ops), GoOn(c, p)
  PROVE  Ends(c) \/ \E i \in DOMAIN p : Stops(c, p, i)
<1> DEFINE m == mem[Host[c]]
           stops == {i \in DOMAIN p : Yields(m, p[i]) \/ Fails(m, p[i])}
           first == CHOOSE i \in stops : \A j \in stops : i <= j
<1>1. CASE stops = {} \/ Fails(m, p[first])
  <2>1. QED BY <1>1 DEF GoOn, Ends
<1>2. CASE ~(stops = {} \/ Fails(m, p[first]))
  <2>1. stops # {} /\ ~Fails(m, p[first]) BY <1>2
  <2>2. stops \subseteq Nat OBVIOUS
  <2>3. \E i \in stops : \A j \in stops : i <= j BY <2>1, <2>2, LeastNumber
  <2>4. first \in stops /\ \A j \in stops : first <= j BY <2>3
  <2>5. /\ mem' = [mem EXCEPT ![Host[c]] = Effect(m, p[first])] /\ db' = db
        /\ coro' = [coro EXCEPT ![c] = [at |-> IF p[first].op = "activity" THEN "wait" ELSE "ask",
                                        ops |-> SubSeq(p, first, Len(p))]]
        /\ asking' = IF p[first].op = "activity" THEN asking
                      ELSE [asking EXCEPT ![Host[c]] = Append(@, c)]
    BY <1>2 DEF GoOn
  <2>6. PICK i : i = first OBVIOUS
  <2>7. i \in DOMAIN p /\ Yields(m, p[i]) /\ ~Fails(m, p[i]) BY <2>1, <2>4, <2>6
  <2>8. \A j \in DOMAIN p : j < i => ~Fails(m, p[j]) /\ ~Yields(m, p[j])
    <3>1. SUFFICES ASSUME NEW j \in DOMAIN p, j < i, Fails(m, p[j]) \/ Yields(m, p[j]) PROVE FALSE
      OBVIOUS
    <3>2. j \in stops BY <3>1
    <3>3. i <= j BY <2>4, <2>6, <3>2
    <3>4. QED BY <2>7, <3>1, <3>3
  <2>9. Stops(c, p, i) BY <2>5, <2>6, <2>7, <2>8 DEF Stops
  <2>10. QED BY <2>7, <2>9
<1>3. QED BY <1>1, <1>2
-----------------------------------------------------------------------------
(* A change that no rule is about.                                          *)
Plain(o) ==
  o.op \notin {"mailflag", "setdataid", "exptimes"} /\ (o.op = "addcard" => o.n = 0)

(* The sequence of a request that begins.                                   *)
Fresh(m, p) ==
  /\ p \in Seq(Ops) /\ Shape(p)
  /\ \A i \in DOMAIN p :
       /\ p[i].op = "mailflag" => m.mailflag # 1
       /\ p[i].op = "addcard" /\ p[i].n # 0 => i = 2
       /\ p[i].op = "setdataid" => i = 3 /\ p[i].n = m.dataId + 1 /\ m.count >= 1
       /\ p[i].op = "exptimes" => i >= 3

(* A sequence of plain changes may begin.                                   *)
LEMMA PlainFresh ==
  ASSUME NEW m, NEW p \in Seq(Ops), \A i \in DOMAIN p : Plain(p[i])
  PROVE  Fresh(m, p)
<1>1. \A i \in DOMAIN p : /\ p[i].op # "mailflag" /\ p[i].op # "setdataid" /\ p[i].op # "exptimes"
                          /\ ~(p[i].op = "addcard" /\ p[i].n # 0)
  BY DEF Plain
<1>2. QED BY <1>1 DEF Fresh, Shape, MailRule, LevelRule, ExploreRule

(* The changes are changes.                                                 *)
LEMMA AnOp ==
  ASSUME NEW name \in OpNames, NEW n \in Int
  PROVE  Op(name, n) \in Ops /\ Op(name, n).op = name /\ Op(name, n).n = n
  BY DEF Op, Ops

(* The upgrade of a card.                                                   *)
LEMMA UpgradeFresh ==
  ASSUME NEW m \in [Fields -> Int], m.dataId \in 1 .. MaxLevel, UpgradeCard(m) # <<>>
  PROVE  Fresh(m, UpgradeCard(m))
<1>0. m \in [Fields -> Int] /\ m.dataId \in Int /\ m.count \in Int /\ MaxLevel \in Nat
  BY Bounds DEF Fields
<1>1. m.dataId # MaxLevel /\ ~(m.count < 1) BY DEF UpgradeCard
<1>2. m.dataId \in 1 .. MaxLevel OBVIOUS
<1>3. m.dataId + 1 \in 2 .. MaxLevel BY <1>0, <1>1, <1>2
<1>4. PICK n \in Int : n = m.dataId + 1 BY <1>0
<1>5. PICK p : p = <<Op("gold", -1), Op("delcard", 0), Op("setdataid", n)>> OBVIOUS
<1>6. UpgradeCard(m) = p BY <1>4, <1>5 DEF UpgradeCard
<1>7. {"gold", "delcard", "setdataid"} \subseteq OpNames BY DEF OpNames
<1>8. p \in Seq(Ops) /\ DOMAIN p = 1 .. 3 BY <1>5, <1>7, AnOp
<1>9. /\ p[1].op = "gold" /\ p[1].n = -1 /\ p[2].op = "delcard"
      /\ p[3].op = "setdataid" /\ p[3].n = n
  BY <1>5, <1>7, AnOp
<1>10. Shape(p)
  <2>1. MailRule(p) BY <1>8, <1>9 DEF MailRule
  <2>2. LevelRule(p) BY <1>3, <1>4, <1>8, <1>9 DEF LevelRule
  <2>3. ExploreRule(p) BY <1>8, <1>9 DEF ExploreRule
  <2>4. QED BY <2>1, <2>2, <2>3 DEF Shape
<1>11. QED BY <1>0, <1>1, <1>4, <1>6, <1>8, <1>9, <1>10 DEF Fresh

(* The items of a mail.                                                     *)
LEMMA MailFresh ==
  ASSUME NEW m, RecvMailItems(m) # <<>> PROVE Fresh(m, RecvMailItems(m))
<1>1. m.mailflag # 1 BY DEF RecvMailItems
<1>2. PICK p : p = <<Op("mailflag", 0), Op("addcard", 1)>> OBVIOUS
<1>3. RecvMailItems(m) = p BY <1>1, <1>2 DEF RecvMailItems
<1>4. {"mailflag", "addcard"} \subseteq OpNames BY DEF OpNames
<1>5. p \in Seq(Ops) /\ DOMAIN p = 1 .. 2 BY <1>2, <1>4, AnOp
<1>6. p[1].op = "mailflag" /\ p[2].op = "addcard" /\ p[2].n = 1 BY <1>2, <1>4, AnOp
<1>7. Shape(p)
  <2>1. MailRule(p) BY <1>5, <1>6 DEF MailRule
  <2>2. LevelRule(p) BY <1>5, <1>6 DEF LevelRule
  <2>3. ExploreRule(p) BY <1>5, <1>6 DEF ExploreRule
  <2>4. QED BY <2>1, <2>2, <2>3 DEF Shape
<1>8. QED BY <1>1, <1>3, <1>5, <1>6, <1>7 DEF Fresh

(* The exploration.                                                         *)
LEMMA ExploreFresh ==
  ASSUME NEW m, ExploreRefresh(m) # <<>> PROVE Fresh(m, ExploreRefresh(m))
<1>1. PICK p : p = <<Op("refresh", 0), Op("explore?", 0), Op("refresh", 0), Op("exptimes", 0),
                     Op("money", -1), Op("activity", 0), Op("reset", 0)>>
  OBVIOUS
<1>2. ExploreRefresh(m) = p BY <1>1 DEF ExploreRefresh
<1>3. {"refresh", "explore?", "exptimes", "money", "activity", "reset"} \subseteq OpNames
  BY DEF OpNames
<1>4. p \in Seq(Ops) /\ DOMAIN p = 1 .. 7 BY <1>1, <1>3, AnOp
<1>5. /\ p[1].op = "refresh" /\ p[2].op = "explore?" /\ p[3].op = "refresh"
      /\ p[4].op = "exptimes" /\ p[5].op = "money" /\ p[6].op = "activity" /\ p[7].op = "reset"
  BY <1>1, <1>3, AnOp
<1>6. Shape(p)
  <2>1. MailRule(p) BY <1>4, <1>5 DEF MailRule
  <2>2. LevelRule(p) BY <1>4, <1>5 DEF LevelRule
  <2>3. ExploreRule(p) BY <1>4, <1>5 DEF ExploreRule
  <2>4. QED BY <2>1, <2>2, <2>3 DEF Shape
<1>7. QED BY <1>2, <1>4, <1>5, <1>6 DEF Fresh

(* Packages are plain.                                                      *)
LEMMA PackagesPlain ==
  ASSUME NEW pack \in Packages
  PROVE  pack \in Ops /\ Plain(pack)
<1>1. {"gold", "addcard"} \subseteq OpNames BY DEF OpNames
<1>2. pack = Op("gold", 1) \/ pack = Op("addcard", 0) BY DEF Packages
<1>3. QED BY <1>1, <1>2, AnOp DEF Plain

(* A chest.                                                                 *)
LEMMA BoxFresh ==
  ASSUME NEW m, NEW pack \in Packages, BuyBox(m, pack) # <<>> PROVE Fresh(m, BuyBox(m, pack))
<1>1. PICK p : p = <<Op("refresh", 0), Op("box?", 0), Op("money", -1), pack, Op("activity", 1),
                     Op("refresh", 0), Op("boxtimes", 0)>>
  OBVIOUS
<1>2. BuyBox(m, pack) = p BY <1>1 DEF BuyBox
<1>3. {"refresh", "box?", "money", "activity", "boxtimes"} \subseteq OpNames BY DEF OpNames
<1>4. p \in Seq(Ops) /\ DOMAIN p = 1 .. 7 BY <1>1, <1>3, AnOp, PackagesPlain
<1>5. /\ p[1].op = "refresh" /\ p[2].op = "box?" /\ p[3].op = "money" /\ p[4] = pack
      /\ p[5].op = "activity" /\ p[6].op = "refresh" /\ p[7].op = "boxtimes"
  BY <1>1, <1>3, AnOp
<1>6. Plain(p[4]) BY <1>5, PackagesPlain
<1>7. Plain(p[1]) /\ Plain(p[2]) /\ Plain(p[3]) /\ Plain(p[5]) /\ Plain(p[6]) /\ Plain(p[7])
  BY <1>5 DEF Plain
<1>8. \A i \in DOMAIN p : Plain(p[i]) BY <1>4, <1>6, <1>7
<1>9. QED BY <1>2, <1>4, <1>8, PlainFresh

(* The award of a mission.                                                  *)
LEMMA AwardFresh ==
  ASSUME NEW m, NEW pack \in Packages PROVE Fresh(m, RecvMissionAward(pack))
<1>1. PICK p : p = <<Op("daily", 0), Op("award?", 0), pack, Op("flag", 0)>> OBVIOUS
<1>2. RecvMissionAward(pack) = p BY <1>1 DEF RecvMissionAward
<1>3. {"daily", "award?", "flag"} \subseteq OpNames BY DEF OpNames
<1>4. p \in Seq(Ops) /\ DOMAIN p = 1 .. 4 BY <1>1, <1>3, AnOp, PackagesPlain
<1>5. p[1].op = "daily" /\ p[2].op = "award?" /\ p[3] = pack /\ p[4].op = "flag"
  BY <1>1, <1>3, AnOp
<1>6. Plain(p[3]) BY <1>5, PackagesPlain
<1>7. Plain(p[1]) /\ Plain(p[2]) /\ Plain(p[4]) BY <1>5 DEF Plain
<1>8. \A i \in DOMAIN p : Plain(p[i]) BY <1>4, <1>6, <1>7
<1>9. QED BY <1>2, <1>4, <1>8, PlainFresh

(* The gains of a battle.                                                   *)
LEMMA BattleFresh ==
  ASSUME NEW m, NEW pack \in Packages PROVE Fresh(m, GiveBattleGains(pack))
<1>1. PICK p : p = <<Op("exp", 0), Op("activity", 0), Op("gold", 1), pack, Op("activity", 0),
                     Op("progress", 0)>>
  OBVIOUS
<1>2. GiveBattleGains(pack) = p BY <1>1 DEF GiveBattleGains
<1>3. {"exp", "activity", "gold", "progress"} \subseteq OpNames BY DEF OpNames
<1>4. p \in Seq(Ops) /\ DOMAIN p = 1 .. 6 BY <1>1, <1>3, AnOp, PackagesPlain
<1>5. /\ p[1].op = "exp" /\ p[2].op = "activity" /\ p[3].op = "gold" /\ p[4] = pack
      /\ p[5].op = "activity" /\ p[6].op = "progress"
  BY <1>1, <1>3, AnOp
<1>6. Plain(p[4]) BY <1>5, PackagesPlain
<1>7. Plain(p[1]) /\ Plain(p[2]) /\ Plain(p[3]) /\ Plain(p[5]) /\ Plain(p[6])
  BY <1>5 DEF Plain
<1>8. \A i \in DOMAIN p : Plain(p[i]) BY <1>4, <1>6, <1>7
<1>9. QED BY <1>2, <1>4, <1>8, PlainFresh

(* Every request begins so.                                                 *)
LEMMA RequestsFresh ==
  ASSUME EconType, NEW c \in Coros, NEW m \in [Fields -> Int], m.dataId \in 1 .. MaxLevel,
         NEW kind \in menu[c], NEW p \in Programs(m, kind), p # <<>>
  PROVE  Fresh(m, p)
<1>1. kind \in {"upgrade", "mail", "explore", "battle", "box", "award"}
  BY EconomyAssumption DEF EconomyAssumption, EconType
<1>2. CASE kind = "upgrade" BY <1>2, UpgradeFresh DEF Programs
<1>3. CASE kind = "mail" BY <1>3, MailFresh DEF Programs
<1>4. CASE kind = "explore" BY <1>4, ExploreFresh DEF Programs
<1>5. CASE kind = "battle"
  <2>1. PICK pack \in Packages : p = GiveBattleGains(pack) BY <1>5 DEF Programs
  <2>2. QED BY <2>1, BattleFresh
<1>6. CASE kind = "box"
  <2>1. PICK pack \in Packages : p = BuyBox(m, pack) BY <1>6 DEF Programs
  <2>2. QED BY <2>1, BoxFresh
<1>7. CASE kind = "award"
  <2>1. PICK pack \in Packages : p = RecvMissionAward(pack) BY <1>7 DEF Programs
  <2>2. QED BY <2>1, AwardFresh
<1>8. QED BY <1>1, <1>2, <1>3, <1>4, <1>5, <1>6, <1>7
-----------------------------------------------------------------------------
(* Every request runs in an agent.                                          *)
LEMMA HostIn == ASSUME NEW c \in Coros PROVE Host[c] \in Agents
  BY EconomyAssumption DEF EconomyAssumption

(* A change that a request of agent a makes, with what the rules give for it. *)
Move(a, c, o, q) ==
  /\ Host[c] = a
  /\ o \in Ops /\ q \in Seq(Ops) /\ q # <<>> /\ q[1] = o /\ Head(q) = o
  /\ Shape(q) /\ o.op # "explore?"
  /\ o.op = "delcard" => mem[a].count >= 1
  /\ o.op = "mailflag" => mem[a].mailflag # 1
  /\ o.op = "addcard" /\ o.n # 0 => o.n = 1 /\ Holder(c) /\ coro[c].at = "wait"
  /\ o.op = "setdataid" => o.n \in 2 .. MaxLevel /\ o.n - 1 <= mem[a].paid
  /\ Recorded(o, mem[a], mem'[a]) /\ db' = db
  /\ coro' = [coro EXCEPT ![c] = [at |-> IF o.op = "activity" THEN "wait" ELSE "ask", ops |-> q]]
  /\ mem' \in [Agents -> [Fields -> Int]] /\ asking' \in [Agents -> Seq(Coros)]
  /\ asking'[a] = IF o.op = "activity" THEN asking[a] ELSE Append(asking[a], c)
  /\ \A b \in Agents \ {a} : mem'[b] = mem[b] /\ asking'[b] = asking[b]

(* The parts of a change that do not depend on where the request began.     *)
Moving(a, c, o, q) ==
  /\ o \in Ops /\ q \in Seq(Ops) /\ q # <<>> /\ q[1] = o /\ Head(q) = o
  /\ Shape(q) /\ o.op # "explore?"
  /\ o.op = "delcard" => mem[a].count >= 1
  /\ o.op = "setdataid" => o.n \in 2 .. MaxLevel
  /\ Recorded(o, mem[a], mem'[a]) /\ db' = db
  /\ coro' = [coro EXCEPT ![c] = [at |-> IF o.op = "activity" THEN "wait" ELSE "ask", ops |-> q]]
  /\ mem' \in [Agents -> [Fields -> Int]] /\ asking' \in [Agents -> Seq(Coros)]
  /\ asking'[a] = IF o.op = "activity" THEN asking[a] ELSE Append(asking[a], c)
  /\ \A b \in Agents \ {a} : mem'[b] = mem[b] /\ asking'[b] = asking[b]

(* A coroutine that stops at a change makes it.                             *)
LEMMA StopsAt ==
  ASSUME EconType, NEW c \in Coros, NEW a \in Agents, Host[c] = a, NEW p \in Seq(Ops), Shape(p),
         NEW k \in DOMAIN p, Stops(c, p, k)
  PROVE  Moving(a, c, p[k], SubSeq(p, k, Len(p)))
<1>1. p[k] \in Ops OBVIOUS
<1>2. PICK q : q = SubSeq(p, k, Len(p)) OBVIOUS
<1>3. q \in Seq(Ops) /\ q # <<>> /\ q[1] = p[k] /\ Head(q) = p[k] BY <1>2, Suffix
<1>4. Shape(q) BY <1>2, SuffixShape
<1>0. /\ mem \in [Agents -> [Fields -> Int]] /\ asking \in [Agents -> Seq(Coros)] /\ today \in Nat
      /\ mem[a] \in [Fields -> Int]
  BY DEF EconType
<1>5. Yields(mem[a], p[k]) /\ mem' = [mem EXCEPT ![a] = Effect(mem[a], p[k])] BY DEF Stops
<1>6. p[k].op # "explore?" BY <1>5 DEF Yields
<1>7. p[k].op = "delcard" => mem[a].count >= 1 BY <1>5 DEF Yields
<1>8. p[k].op = "setdataid" => p[k].n \in 2 .. MaxLevel BY DEF Shape, LevelRule
<1>9. PICK n : n = Effect(mem[a], p[k]) OBVIOUS
<1>10. Recorded(p[k], mem[a], n) BY <1>0, <1>1, <1>9, EffectRecorded
<1>11. n \in [Fields -> Int] BY <1>10 DEF Recorded
<1>12. mem' = [mem EXCEPT ![a] = n] BY <1>5, <1>9
<1>13. mem' \in [Agents -> [Fields -> Int]] /\ mem'[a] = n /\ \A b \in Agents \ {a} : mem'[b] = mem[b]
  BY <1>0, <1>11, <1>12
<1>14. PICK s : s = IF p[k].op = "activity" THEN asking[a] ELSE Append(asking[a], c) OBVIOUS
<1>15. s \in Seq(Coros)
  <2>1. asking[a] \in Seq(Coros) BY <1>0
  <2>2. Append(asking[a], c) \in Seq(Coros) BY <2>1
  <2>3. QED BY <1>14, <2>1, <2>2
<1>16. asking' = [asking EXCEPT ![a] = s] BY <1>0, <1>14 DEF Stops
<1>17. asking' \in [Agents -> Seq(Coros)] /\ asking'[a] = s /\ \A b \in Agents \ {a} : asking'[b] = asking[b]
  BY <1>0, <1>15, <1>16
<1>18. coro' = [coro EXCEPT ![c] = [at |-> IF p[k].op = "activity" THEN "wait" ELSE "ask",
                                    ops |-> q]] /\ db' = db
  BY <1>2 DEF Stops
<1>19. QED BY <1>1, <1>2, <1>3, <1>4, <1>6, <1>7, <1>8, <1>10, <1>13, <1>14, <1>17, <1>18 DEF Moving

(* The first change of a new request.                                       *)
LEMMA MovesFresh ==
  ASSUME EconType, NEW c \in Coros, NEW a \in Agents, Host[c] = a, LevelSound(a),
         NEW p, Fresh(mem[a], p), NEW k \in DOMAIN p,
         Stops(c, p, k)
  PROVE  Move(a, c, p[k], SubSeq(p, k, Len(p))) /\ Promised(mem'[a], SubSeq(p, k, Len(p)))
<1>0. p \in Seq(Ops) /\ Shape(p) BY DEF Fresh
<1>1. k \in Nat /\ k >= 1 /\ (k > 1 => 1 \in DOMAIN p) BY <1>0
<1>2. \A j \in DOMAIN p : j < k => ~Yields(mem[a], p[j]) BY DEF Stops
<1>3. p[k].op = "mailflag" => mem[a].mailflag # 1 BY DEF Fresh
<1>4. ~(p[k].op = "addcard" /\ p[k].n # 0)
  <2>1. SUFFICES ASSUME p[k].op = "addcard", p[k].n # 0 PROVE FALSE OBVIOUS
  <2>2. k = 2 BY <2>1 DEF Fresh
  <2>3. p[1].op = "mailflag" BY <1>0, <2>1, <2>2 DEF Shape, MailRule
  <2>4. Yields(mem[a], p[1]) BY <2>3 DEF Yields
  <2>5. QED BY <1>1, <1>2, <2>2, <2>4
<1>5. \A i \in DOMAIN p : p[i].op = "setdataid" => i = 3 /\ k = 1
  <2>1. SUFFICES ASSUME NEW i \in DOMAIN p, p[i].op = "setdataid", k # 1 \/ i # 3 PROVE FALSE OBVIOUS
  <2>2. i = 3 BY <2>1 DEF Fresh
  <2>3. p[1].op = "gold" /\ p[1].n # 0 BY <1>0, <2>1, <2>2 DEF Shape, LevelRule
  <2>4. Yields(mem[a], p[1]) BY <2>3 DEF Yields
  <2>5. QED BY <1>1, <1>2, <2>1, <2>2, <2>4
<1>6. p[k].op # "setdataid" BY <1>1, <1>5
<1>7. Move(a, c, p[k], SubSeq(p, k, Len(p))) BY <1>0, <1>3, <1>4, <1>6, StopsAt DEF Move, Moving
<1>8. PICK q : q = SubSeq(p, k, Len(p)) OBVIOUS
<1>9. \A i \in DOMAIN q : i + k - 1 \in DOMAIN p /\ q[i] = p[i + k - 1] BY <1>0, <1>8, Suffix
<1>10. q \in Seq(Ops) BY <1>0, <1>8, Suffix
<1>11. Promised(mem'[a], q)
  <2>1. SUFFICES ASSUME NEW i \in DOMAIN q, q[i].op = "setdataid"
                 PROVE /\ i = 2 => q[i].n - 1 <= mem'[a].paid
                       /\ i = 3 => /\ q[i].n - 2 <= mem'[a].paid
                                   /\ (mem'[a].count >= 1 \/ q[i].n - 1 <= mem'[a].paid)
    BY DEF Promised
  <2>2. i \in Nat BY <1>10
  <2>3. PICK x \in DOMAIN p : x = i + k - 1 /\ q[i] = p[x] BY <1>9
  <2>4. x = 3 /\ k = 1 BY <1>5, <2>1, <2>3
  <2>5. i = 3 /\ q[i] = p[3] BY <2>2, <2>3, <2>4
  <2>6. p[3].n = mem[a].dataId + 1 /\ mem[a].count >= 1 BY <2>1, <2>3, <2>4 DEF Fresh
  <2>7. p[1].op = "gold" BY <1>0, <2>1, <2>3, <2>4 DEF Shape, LevelRule
  <2>8. Recorded(p[1], mem[a], mem'[a]) BY <1>7, <2>4 DEF Move
  <2>a. mem[a] \in [Fields -> Int] BY DEF EconType
  <2>9. mem[a].count \in Int /\ mem[a].paid \in Int /\ mem[a].dataId \in Int BY <2>a DEF Fields
  <2>10. mem'[a].paid = mem[a].paid /\ (mem'[a].count = mem[a].count \/ mem'[a].count = Clamp(mem[a].count + 1))
    BY <2>7, <2>8 DEF Recorded
  <2>11. mem'[a].count >= 1 BY <2>6, <2>9, <2>10, Clamped
  <2>12. mem[a].dataId - 1 <= mem[a].paid BY DEF LevelSound
  <2>13. QED BY <2>5, <2>6, <2>9, <2>10, <2>11, <2>12
<1>12. QED BY <1>7, <1>8, <1>11

(* What a request has left whose last change is saved.                      *)
Rest(c, p) == coro[c].at = "wait" /\ p = Tail(coro[c].ops)

(* Its next change.                                                         *)
LEMMA MovesOn ==
  ASSUME EconType, Shaped, NEW c \in Coros, NEW a \in Agents, Host[c] = a, LevelSound(a),
         NEW p, Rest(c, p),
         NEW k \in DOMAIN p, Stops(c, p, k)
  PROVE  /\ Move(a, c, p[k], SubSeq(p, k, Len(p))) /\ Promised(mem'[a], SubSeq(p, k, Len(p)))
         /\ p[k].op # "mailflag"
<1>0. PICK ops \in Seq(Ops) : ops = coro[c].ops BY DEF EconType
<1>1. ops # <<>> /\ Shape(ops) /\ Promised(mem[a], ops)
  BY <1>0 DEF EconType, Shaped, LevelSound, Rest
<1>2. /\ p \in Seq(Ops) /\ Shape(p)
      /\ \A i \in DOMAIN p : i + 1 \in DOMAIN ops /\ p[i] = ops[i + 1]
  BY <1>0, <1>1, TailShape DEF Rest
<1>3. k \in Nat /\ k >= 1 /\ (k > 1 => 1 \in DOMAIN p) BY <1>2
<1>4. \A j \in DOMAIN p : j < k => ~Yields(mem[a], p[j]) BY DEF Stops
<1>5. k + 1 \in DOMAIN ops /\ p[k] = ops[k + 1] BY <1>2
<1>6. p[k].op # "mailflag"
  <2>1. SUFFICES ASSUME p[k].op = "mailflag" PROVE FALSE OBVIOUS
  <2>2. k + 1 = 1 BY <1>1, <1>5, <2>1 DEF Shape, MailRule
  <2>3. QED BY <1>3, <2>2
<1>7. p[k].op = "addcard" /\ p[k].n # 0 => p[k].n = 1 /\ Holder(c) /\ coro[c].at = "wait"
  <2>1. SUFFICES ASSUME p[k].op = "addcard", p[k].n # 0 PROVE p[k].n = 1 /\ Holder(c)
    BY DEF Rest
  <2>2. p[k].n = 1 /\ (k + 1 = 1 \/ (k + 1 = 2 /\ ops[1].op = "mailflag"))
    BY <1>1, <1>5, <2>1 DEF Shape, MailRule
  <2>3. ops[1].op = "mailflag" BY <1>3, <2>2
  <2>4. QED BY <1>0, <2>2, <2>3 DEF Holder, Rest
<1>8. /\ mem[a].paid \in Int /\ mem[a].count \in Int /\ MaxLevel \in Nat
      /\ \A i \in DOMAIN ops : ops[i].n \in Int
  <2>a. mem[a] \in [Fields -> Int] BY DEF EconType
  <2>1. mem[a].paid \in Int /\ mem[a].count \in Int BY <2>a DEF Fields
  <2>2. \A i \in DOMAIN ops : ops[i] \in Ops BY <1>0
  <2>3. \A i \in DOMAIN ops : ops[i].n \in Int BY <2>2 DEF Ops
  <2>4. QED BY <2>1, <2>3, Bounds
<1>9. \A i \in DOMAIN ops : ops[i].op = "setdataid" => i \in {1, 2, 3} /\ ops[i].n \in 2 .. MaxLevel
  BY <1>1 DEF Shape, LevelRule
<1>10. p[k].op = "setdataid" => p[k].n - 1 <= mem[a].paid
  <2>1. SUFFICES ASSUME p[k].op = "setdataid" PROVE p[k].n - 1 <= mem[a].paid OBVIOUS
  <2>2. k + 1 \in {1, 2, 3} BY <1>5, <1>9, <2>1
  <2>3. CASE k = 1
    <3>1. 2 \in DOMAIN ops /\ p[k] = ops[2] BY <1>5, <2>3
    <3>2. QED BY <1>1, <2>1, <3>1 DEF Promised
  <2>4. CASE k = 2
    <3>1. 3 \in DOMAIN ops /\ p[k] = ops[3] BY <1>5, <2>4
    <3>2. ops[3].n - 2 <= mem[a].paid /\ (mem[a].count >= 1 \/ ops[3].n - 1 <= mem[a].paid)
      BY <1>1, <2>1, <3>1 DEF Promised
    <3>3. ops[2].op = "delcard"
      <4>1. ops[3 - 1].op = "delcard" BY <1>1, <2>1, <3>1 DEF Shape, LevelRule
      <4>2. QED BY <4>1
    <3>4. 1 \in DOMAIN p /\ p[1] = ops[2]
      <4>1. 1 \in DOMAIN p BY <1>3, <2>4
      <4>2. p[1] = ops[1 + 1] BY <1>2, <4>1
      <4>3. QED BY <4>1, <4>2
    <3>5. ~Yields(mem[a], p[1])
      <4>1. 1 < k BY <2>4
      <4>2. QED BY <1>4, <3>4, <4>1, Zenon
    <3>6. ~(mem[a].count >= 1) BY <3>3, <3>4, <3>5 DEF Yields
    <3>7. QED BY <3>1, <3>2, <3>6
  <2>5. QED BY <1>3, <2>2, <2>3, <2>4
<1>11. Move(a, c, p[k], SubSeq(p, k, Len(p)))
  <2>1. PICK o : o = p[k] OBVIOUS
  <2>2. PICK q : q = SubSeq(p, k, Len(p)) OBVIOUS
  <2>3. Moving(a, c, o, q)
    BY <1>2, <2>1, <2>2, StopsAt
  <2>4. /\ o.op # "mailflag" /\ (o.op = "setdataid" => o.n - 1 <= mem[a].paid)
        /\ o.op = "addcard" /\ o.n # 0 => o.n = 1 /\ Holder(c) /\ coro[c].at = "wait"
    BY <1>6, <1>7, <1>10, <2>1
  <2>5. Move(a, c, o, q) BY <2>3, <2>4 DEF Move, Moving
  <2>6. QED BY <2>1, <2>2, <2>5
<1>12. PICK q : q = SubSeq(p, k, Len(p)) OBVIOUS
<1>13. \A i \in DOMAIN q : i + k - 1 \in DOMAIN p /\ q[i] = p[i + k - 1] BY <1>2, <1>12, Suffix
<1>14. q \in Seq(Ops) /\ Shape(q) /\ q[1] = p[k] BY <1>11, <1>12 DEF Move
<1>15. Promised(mem'[a], q)
  <2>1. SUFFICES ASSUME NEW i \in DOMAIN q, q[i].op = "setdataid"
                 PROVE /\ i = 2 => q[i].n - 1 <= mem'[a].paid
                       /\ i = 3 => /\ q[i].n - 2 <= mem'[a].paid
                                   /\ (mem'[a].count >= 1 \/ q[i].n - 1 <= mem'[a].paid)
    BY DEF Promised
  <2>2. i \in Nat /\ i >= 1 BY <1>14
  <2>3. PICK x \in DOMAIN ops : x = i + k /\ q[i] = ops[x]
    <3>1. i + k - 1 \in DOMAIN p /\ q[i] = p[i + k - 1] BY <1>13
    <3>2. i + k - 1 + 1 \in DOMAIN ops /\ p[i + k - 1] = ops[i + k - 1 + 1] BY <1>2, <3>1
    <3>3. i + k - 1 + 1 = i + k BY <1>3, <2>2
    <3>4. QED BY <3>1, <3>2, <3>3
  <2>4. x \in {1, 2, 3} /\ ops[x].n \in 2 .. MaxLevel BY <1>9, <2>1, <2>3
  <2>5. i # 3 BY <1>3, <2>3, <2>4
  <2>6. ASSUME i = 2 PROVE q[i].n - 1 <= mem'[a].paid
    <3>1. x = 3 BY <1>3, <2>3, <2>4, <2>6
    <3>2. ops[3].n - 2 <= mem[a].paid BY <1>1, <2>1, <2>3, <3>1 DEF Promised
    <3>3. q[1].op = "delcard"
      <4>1. \A j \in DOMAIN q : q[j].op = "setdataid" /\ j >= 2 => q[j - 1].op = "delcard"
        BY <1>14 DEF Shape, LevelRule
      <4>2. q[i - 1].op = "delcard" BY <2>1, <2>2, <2>6, <4>1
      <4>3. i - 1 = 1 BY <2>6
      <4>4. QED BY <4>2, <4>3
    <3>4. mem'[a].paid = IF mem[a].paid < MaxLevel - 1 THEN mem[a].paid + 1 ELSE mem[a].paid
      BY <1>11, <1>14, <3>3 DEF Move, Recorded
    <3>5. QED BY <1>8, <2>3, <2>4, <3>1, <3>2, <3>4
  <2>7. QED BY <2>5, <2>6
<1>16. QED BY <1>6, <1>11, <1>12, <1>15
-----------------------------------------------------------------------------
(* The invariant: of an agent, and of all together.                         *)
AgentInv(a) == AskSound(a) /\ MailSound(a) /\ LevelSound(a) /\ Owned(a)

EconInv == EconType /\ Shaped /\ DbSound /\ \A a \in Agents : AgentInv(a)

(* An agent that does nothing: others may write, which it does not know of,  *)
(* but nobody takes a mail's flag back.                                     *)
Rested(b) ==
  /\ mem'[b] = mem[b] /\ stage'[b] = stage[b] /\ asking'[b] = asking[b]
  /\ \A c \in Coros : Host[c] = b => coro'[c] = coro[c]
  /\ db.mailflag = 1 => db'.mailflag = 1
  /\ stage[b] # "none" =>
       \A f \in Fields : f \in foreign[b] \/ db'[f] # db[f] => f \in foreign'[b]

(* An agent that is not there has no tables.                                *)
LEMMA HasThere ==
  ASSUME NEW b, NEW f \in Has(b)
  PROVE  stage[b] # "none" /\ f \in Fields
<1>1. stage[b] # "none" BY DEF Has
<1>2. Has(b) \subseteq Fields BY DEF Has, Fields, AccountFields, CardFields
<1>3. QED BY <1>1, <1>2

(* Its part of the invariant stays.                                         *)
LEMMA RestedKeeps ==
  ASSUME EconType, NEW b \in Agents, AgentInv(b), Rested(b)
  PROVE  AgentInv(b)'
<1>0. AskSound(b) /\ MailSound(b) /\ LevelSound(b) /\ Owned(b) BY DEF AgentInv
<1>1. mem'[b] = mem[b] /\ asking'[b] = asking[b] /\ stage'[b] = stage[b] BY DEF Rested
<1>2. \A c \in Coros : Host[c] = b => coro'[c] = coro[c] BY DEF Rested
<1>3. asking[b] \in Seq(Coros) BY DEF EconType
<1>4. \A i \in DOMAIN asking[b] : asking[b][i] \in Coros /\ Host[asking[b][i]] = b
  BY <1>0, <1>3 DEF AskSound
<1>5. \A i \in DOMAIN asking[b] : coro'[asking[b][i]] = coro[asking[b][i]] BY <1>2, <1>4
<1>6. Has(b)' = Has(b) /\ (Online(b)' <=> Online(b)) BY <1>1 DEF Has, Online
<1>7. AskSound(b)'
  <2>1. \A i \in DOMAIN asking'[b] : coro'[asking'[b][i]].at = "ask" /\ Host[asking'[b][i]] = b
    BY <1>0, <1>1, <1>5 DEF AskSound
  <2>2. \A i, j \in DOMAIN asking'[b] : asking'[b][i] = asking'[b][j] => i = j
    BY <1>0, <1>1 DEF AskSound
  <2>3. ~Online(b)' => asking'[b] = <<>> /\ \A c \in Coros : Host[c] = b => coro'[c].at = "none"
    BY <1>0, <1>1, <1>2, <1>6 DEF AskSound
  <2>4. QED BY <2>1, <2>2, <2>3 DEF AskSound
<1>8. MailSound(b)'
  <2>1. \A c \in Coros : Host[c] = b => (Holder(c)' <=> Holder(c)) BY <1>2 DEF Holder
  <2>2. db.mailflag = 1 => db'.mailflag = 1 BY DEF Rested
  <2>3. \A c \in Coros : Host[c] = b /\ Holder(c)' =>
          /\ mem'[b].mailflag = 1 /\ mem'[b].frommail = 0
          /\ coro'[c].at = "wait" => db'.mailflag = 1
    BY <1>0, <1>1, <1>2, <2>1, <2>2 DEF MailSound
  <2>4. \A c, d \in Coros : Host[c] = b /\ Host[d] = b /\ Holder(c)' /\ Holder(d)' => c = d
    BY <1>0, <2>1 DEF MailSound
  <2>5. mem'[b].frommail = 1 => db'.mailflag = 1 /\ (Online(b)' => mem'[b].mailflag = 1)
    BY <1>0, <1>1, <1>6, <2>2 DEF MailSound
  <2>6. {mem'[b].frommail, mem'[b].mailflag} \subseteq {0, 1} BY <1>0, <1>1 DEF MailSound
  <2>7. QED BY <2>3, <2>4, <2>5, <2>6 DEF MailSound
<1>9. LevelSound(b)'
  <2>1. "dataId" \in Has(b) => "dataId" \in foreign'[b] \/ db'.dataId - 1 <= mem'[b].paid
    <3>1. SUFFICES ASSUME "dataId" \in Has(b), "dataId" \notin foreign'[b]
                   PROVE  db'.dataId - 1 <= mem'[b].paid
      OBVIOUS
    <3>2. stage[b] # "none" /\ "dataId" \in Fields BY <3>1, HasThere
    <3>3. "dataId" \notin foreign[b] /\ db'.dataId = db.dataId BY <3>1, <3>2 DEF Rested
    <3>4. QED BY <1>0, <1>1, <3>1, <3>3 DEF LevelSound
  <2>2. \A c \in Coros : Host[c] = b /\ coro'[c].at # "none" => Promised(mem'[b], coro'[c].ops)
    <3>1. SUFFICES ASSUME NEW c \in Coros, Host[c] = b, coro'[c].at # "none"
                   PROVE  Promised(mem'[b], coro'[c].ops)
      OBVIOUS
    <3>2. coro'[c] = coro[c] BY <1>2, <3>1
    <3>3. Promised(mem[b], coro[c].ops) BY <1>0, <3>1, <3>2 DEF LevelSound
    <3>4. QED BY <1>1, <3>2, <3>3
  <2>3. QED BY <1>0, <1>1, <1>6, <2>1, <2>2 DEF LevelSound, Promised
<1>10. Owned(b)'
  <2>1. SUFFICES ASSUME NEW f \in Has(b)', f # "refreshtime", mem'[b][f] # db'[f]
                 PROVE  Sends(b, f)' \/ f \in foreign'[b]
    BY DEF Owned
  <2>2. f \in Has(b) BY <1>6
  <2>3. stage[b] # "none" /\ f \in Fields BY <2>2, HasThere
  <2>4. CASE db'[f] # db[f] BY <2>3, <2>4 DEF Rested
  <2>5. CASE db'[f] = db[f]
    <3>1. mem[b][f] # db[f] BY <1>1, <2>1, <2>5
    <3>2. Sends(b, f) \/ f \in foreign[b] BY <1>0, <2>1, <2>2, <3>1 DEF Owned
    <3>3. CASE Sends(b, f)
      <4>1. PICK i \in DOMAIN asking[b] : f \in SentFields(Head(coro[asking[b][i]].ops))
        BY <3>3 DEF Sends
      <4>2. i \in DOMAIN asking'[b] /\ f \in SentFields(Head(coro'[asking'[b][i]].ops))
        BY <1>1, <1>5, <4>1
      <4>3. QED BY <4>2 DEF Sends, SentFields
    <3>4. CASE f \in foreign[b] BY <2>3, <3>4 DEF Rested
    <3>5. QED BY <3>2, <3>3, <3>4
  <2>6. QED BY <2>4, <2>5
<1>11. QED BY <1>7, <1>8, <1>9, <1>10 DEF AgentInv

(* What a change leaves of the coroutines.                                  *)
LEMMA CoroMoved ==
  ASSUME EconType, NEW a, NEW c \in Coros, NEW o, NEW q, Move(a, c, o, q)
  PROVE  /\ coro' \in [Coros -> [at : {"none", "ask", "wait"}, ops : Seq(Ops)]]
         /\ coro'[c].at = IF o.op = "activity" THEN "wait" ELSE "ask"
         /\ coro'[c].ops = q /\ \A d \in Coros : d # c => coro'[d] = coro[d]
<1>1. coro \in [Coros -> [at : {"none", "ask", "wait"}, ops : Seq(Ops)]] BY DEF EconType
<1>2. q \in Seq(Ops) BY DEF Move
<1>a. PICK at \in {"none", "ask", "wait"} : at = IF o.op = "activity" THEN "wait" ELSE "ask" OBVIOUS
<1>b. [at |-> at, ops |-> q] \in [at : {"none", "ask", "wait"}, ops : Seq(Ops)] BY <1>2
<1>3. PICK r \in [at : {"none", "ask", "wait"}, ops : Seq(Ops)] : r = [at |-> at, ops |-> q]
  BY <1>b
<1>4. r.at = (IF o.op = "activity" THEN "wait" ELSE "ask") /\ r.ops = q BY <1>a, <1>3
<1>5. coro' = [coro EXCEPT ![c] = r] BY <1>a, <1>3 DEF Move
<1>6. QED BY <1>1, <1>4, <1>5

(* A change keeps the types.                                                *)
LEMMA MoveType ==
  ASSUME EconType, NEW a, NEW c \in Coros, NEW o, NEW q, Move(a, c, o, q),
         UNCHANGED <<stage, menu, today, foreign>>
  PROVE  EconType'
<1>1. mem' \in [Agents -> [Fields -> Int]] /\ asking' \in [Agents -> Seq(Coros)] /\ db' = db
  BY DEF Move
<1>2. /\ coro' \in [Coros -> [at : {"none", "ask", "wait"}, ops : Seq(Ops)]]
      /\ coro'[c].ops = q /\ \A d \in Coros : d # c => coro'[d] = coro[d]
  BY CoroMoved
<1>3. q # <<>> BY DEF Move
<1>4. \A d \in Coros : coro'[d].at # "none" => coro'[d].ops # <<>> BY <1>2, <1>3 DEF EconType
<1>5. QED BY <1>1, <1>2, <1>4 DEF EconType

(* It keeps the shapes.                                                     *)
LEMMA MoveShaped ==
  ASSUME EconType, Shaped, NEW a, NEW c \in Coros, NEW o, NEW q, Move(a, c, o, q)
  PROVE  Shaped'
<1>1. coro'[c].ops = q /\ \A d \in Coros : d # c => coro'[d] = coro[d] BY CoroMoved
<1>2. Shape(q) /\ q[1] = o /\ o.op # "explore?" BY DEF Move
<1>3. SUFFICES ASSUME NEW d \in Coros, coro'[d].at # "none"
               PROVE  Shape(coro'[d].ops) /\ coro'[d].ops[1].op # "explore?"
  BY DEF Shaped, Shape, MailRule, LevelRule, ExploreRule
<1>4. CASE d = c BY <1>1, <1>2, <1>4
<1>5. CASE d # c BY <1>1, <1>3, <1>5 DEF Shaped
<1>6. QED BY <1>4, <1>5

(* The request asks once.                                                   *)
LEMMA MoveAsks ==
  ASSUME EconType, NEW a \in Agents, AskSound(a), Online(a), stage' = stage, NEW c \in Coros,
         coro[c].at # "ask", NEW o, NEW q, Move(a, c, o, q)
  PROVE  AskSound(a)'
<1>0. Online(a)' /\ Host[c] = a BY DEF Online, Move
<1>1. /\ coro'[c].at = IF o.op = "activity" THEN "wait" ELSE "ask"
      /\ \A d \in Coros : d # c => coro'[d] = coro[d]
  BY CoroMoved
<1>2. PICK s \in Seq(Coros) : s = asking[a] BY DEF EconType
<1>3. \A i \in DOMAIN s : s[i] # c /\ Host[s[i]] = a BY <1>2 DEF AskSound
<1>4. \A i \in DOMAIN s : coro'[s[i]].at = "ask"
  <2>1. SUFFICES ASSUME NEW i \in DOMAIN s PROVE coro'[s[i]].at = "ask" OBVIOUS
  <2>2. s[i] \in Coros /\ s[i] # c BY <1>2, <1>3
  <2>3. QED BY <1>1, <1>2, <2>2 DEF AskSound
<1>5. CASE o.op = "activity"
  <2>1. asking'[a] = s BY <1>2, <1>5 DEF Move
  <2>2. QED BY <1>0, <1>2, <1>3, <1>4, <2>1 DEF AskSound
<1>6. CASE o.op # "activity"
  <2>1. PICK t : t = asking'[a] OBVIOUS
  <2>2. t = Append(s, c) BY <1>2, <1>6, <2>1 DEF Move
  <2>3. DOMAIN t = 1 .. Len(s) + 1 /\ t[Len(s) + 1] = c BY <1>2, <2>2
  <2>4. \A i \in 1 .. Len(s) : i \in DOMAIN s /\ t[i] = s[i] BY <1>2, <2>2
  <2>5. Len(s) \in Nat BY <1>2
  <2>6. \A i \in DOMAIN t : i \in 1 .. Len(s) \/ i = Len(s) + 1 BY <2>3, <2>5
  <2>7. \A i \in DOMAIN t : coro'[t[i]].at = "ask" /\ Host[t[i]] = a
    BY <1>0, <1>1, <1>3, <1>4, <1>6, <2>3, <2>4, <2>6
  <2>8. \A i, j \in DOMAIN s : s[i] = s[j] => i = j BY <1>2 DEF AskSound
  <2>9. \A i, j \in DOMAIN t : t[i] = t[j] => i = j
    BY <1>3, <2>3, <2>4, <2>6, <2>8
  <2>10. QED BY <1>0, <2>1, <2>7, <2>9 DEF AskSound
<1>7. QED BY <1>5, <1>6

(* Whatever the change makes differ from the database is going to be saved   *)
(* by this request.                                                         *)
LEMMA MoveOwned ==
  ASSUME EconType, NEW a \in Agents, AskSound(a), Owned(a), UNCHANGED <<stage, foreign>>,
         NEW c \in Coros, coro[c].at # "ask", NEW o, NEW q, Move(a, c, o, q)
  PROVE  Owned(a)'
<1>1. coro'[c].ops = q /\ \A d \in Coros : d # c => coro'[d] = coro[d] BY CoroMoved
<1>2. PICK s \in Seq(Coros) : s = asking[a] BY DEF EconType
<1>3. \A i \in DOMAIN s : s[i] # c BY <1>2 DEF AskSound
<1>4. \A i \in DOMAIN s : coro'[s[i]] = coro[s[i]]
  <2>1. SUFFICES ASSUME NEW i \in DOMAIN s PROVE coro'[s[i]] = coro[s[i]] OBVIOUS
  <2>2. s[i] \in Coros /\ s[i] # c BY <1>2, <1>3
  <2>3. QED BY <1>1, <2>2
<1>5. Head(q) = o /\ db' = db BY DEF Move
<1>6. \A f \in Fields \ {"refreshtime"} : f \notin SentFields(o) => mem'[a][f] = mem[a][f]
  BY DEF Move, Recorded
<1>7. Has(a)' = Has(a) BY DEF Has
<1>8. SUFFICES ASSUME NEW f \in Has(a), f # "refreshtime", mem'[a][f] # db[f]
               PROVE  Sends(a, f)' \/ f \in foreign[a]
  BY <1>5, <1>7 DEF Owned
<1>9. f \in Fields \ {"refreshtime"} BY <1>8, HasThere
<1>10. PICK t : t = asking'[a] OBVIOUS
<1>11. ASSUME NEW i \in DOMAIN t, f \in SentFields(Head(coro'[t[i]].ops)) PROVE Sends(a, f)'
  BY <1>10, <1>11 DEF Sends, SentFields
<1>12. CASE mem[a][f] # db[f]
  <2>1. Sends(a, f) \/ f \in foreign[a] BY <1>8, <1>12 DEF Owned
  <2>2. CASE Sends(a, f)
    <3>1. PICK i \in DOMAIN s : f \in SentFields(Head(coro[s[i]].ops)) BY <1>2, <2>2 DEF Sends
    <3>2. t = s \/ t = Append(s, c) BY <1>2, <1>10 DEF Move
    <3>3. i \in DOMAIN t /\ t[i] = s[i] BY <1>2, <3>2
    <3>4. QED BY <1>4, <1>11, <3>1, <3>3
  <2>3. QED BY <2>1, <2>2
<1>13. CASE mem[a][f] = db[f]
  <2>1. f \in SentFields(o) BY <1>6, <1>8, <1>9, <1>13
  <2>2. o.op # "activity" BY <2>1 DEF SentFields
  <2>3. t = Append(s, c) BY <1>2, <1>10, <2>2 DEF Move
  <2>4. Len(s) + 1 \in DOMAIN t /\ t[Len(s) + 1] = c BY <1>2, <2>3
  <2>5. QED BY <1>1, <1>5, <1>11, <2>1, <2>4
<1>14. QED BY <1>12, <1>13
(* A mail's items follow the one flag that was set for them.                *)
LEMMA MoveMail ==
  ASSUME EconType, NEW a \in Agents, MailSound(a), Online(a), stage' = stage, NEW c \in Coros,
         NEW o, NEW q, Move(a, c, o, q)
  PROVE  MailSound(a)'
<1>1. /\ coro'[c].at = IF o.op = "activity" THEN "wait" ELSE "ask"
      /\ coro'[c].ops = q /\ \A d \in Coros : d # c => coro'[d] = coro[d]
  BY CoroMoved
<1>2. q[1] = o /\ db' = db /\ Host[c] = a /\ Online(a)' BY DEF Move, Online
<1>3. /\ mem'[a].frommail = IF o.op = "addcard" THEN mem[a].frommail + o.n ELSE mem[a].frommail
      /\ mem'[a].mailflag = IF o.op = "mailflag" THEN 1 ELSE mem[a].mailflag
  BY DEF Move, Recorded
<1>4. mem[a].frommail \in {0, 1} /\ mem[a].mailflag \in {0, 1} BY DEF MailSound
<1>5. \A d \in Coros : d # c => (Holder(d)' <=> Holder(d)) BY <1>1 DEF Holder
<1>6. Holder(c)' <=> o.op = "mailflag" BY <1>1, <1>2 DEF Holder
<1>7. CASE o.op = "mailflag"
  <2>1. mem[a].mailflag = 0 BY <1>4, <1>7 DEF Move
  <2>2. \A d \in Coros : Host[d] = a => ~Holder(d) BY <2>1 DEF MailSound
  <2>3. mem[a].frommail = 0 BY <1>4, <2>1 DEF MailSound
  <2>4. mem'[a].mailflag = 1 /\ mem'[a].frommail = 0 BY <1>3, <1>7, <2>3
  <2>5. coro'[c].at = "ask" BY <1>1, <1>7
  <2>6. \A d \in Coros : Host[d] = a /\ Holder(d)' => d = c BY <1>5, <2>2
  <2>7. QED BY <1>2, <2>4, <2>5, <2>6 DEF MailSound
<1>8. CASE o.op = "addcard" /\ o.n # 0
  <2>1. o.n = 1 /\ Holder(c) /\ coro[c].at = "wait" BY <1>8 DEF Move
  <2>2. mem[a].mailflag = 1 /\ mem[a].frommail = 0 /\ db.mailflag = 1
    BY <1>2, <2>1 DEF MailSound
  <2>3. mem'[a].mailflag = 1 /\ mem'[a].frommail = 1 BY <1>3, <1>8, <2>1, <2>2
  <2>4. \A d \in Coros : Host[d] = a => ~Holder(d)'
    BY <1>2, <1>5, <1>6, <1>8, <2>1 DEF MailSound
  <2>5. QED BY <1>2, <2>2, <2>3, <2>4 DEF MailSound
<1>9. CASE o.op # "mailflag" /\ ~(o.op = "addcard" /\ o.n # 0)
  <2>1. mem'[a].frommail = mem[a].frommail /\ mem'[a].mailflag = mem[a].mailflag
    BY <1>3, <1>4, <1>9
  <2>2. \A d \in Coros : Holder(d)' => d # c /\ Holder(d) BY <1>5, <1>6, <1>9
  <2>3. \A d \in Coros : Holder(d)' => coro'[d] = coro[d] BY <1>1, <2>2
  <2>4. QED BY <1>2, <2>1, <2>2, <2>3 DEF MailSound
<1>10. QED BY <1>7, <1>8, <1>9

(* What is paid stays paid, so what is promised stays promised.             *)
LEMMA PromiseKept ==
  ASSUME NEW m \in [Fields -> Int], NEW n \in [Fields -> Int], NEW o,
         NEW ops \in Seq(Ops), Shape(ops), Promised(m, ops),
         Recorded(o, m, n), o.op = "delcard" => m.count >= 1
  PROVE  Promised(n, ops)
<1>1. m.paid \in Int /\ m.count \in Int /\ MaxLevel \in Nat BY Bounds DEF Fields
<1>2. /\ n.paid = IF o.op = "delcard" /\ m.paid < MaxLevel - 1 THEN m.paid + 1 ELSE m.paid
      /\ o.op = "delcard" => n.count = m.count - 1
      /\ o.op # "delcard" => n.count = m.count \/ n.count = Clamp(m.count + 1)
  BY DEF Recorded
<1>3. m.paid <= n.paid BY <1>1, <1>2
<1>4. o.op # "delcard" /\ m.count >= 1 => n.count >= 1
  <2>1. PICK v \in Int : v = m.count + 1 BY <1>1
  <2>2. Clamp(v) >= 0 /\ (v >= 1 => Clamp(v) >= 1) BY Clamped
  <2>3. m.count >= 1 => Clamp(v) >= 1 BY <1>1, <2>1, <2>2
  <2>4. QED BY <1>2, <2>1, <2>3
<1>5. SUFFICES ASSUME NEW i \in DOMAIN ops, ops[i].op = "setdataid"
               PROVE  /\ i = 2 => ops[i].n - 1 <= n.paid
                      /\ i = 3 => /\ ops[i].n - 2 <= n.paid
                                  /\ (n.count >= 1 \/ ops[i].n - 1 <= n.paid)
  BY DEF Promised
<1>6. ops[i].n \in 2 .. MaxLevel BY <1>5 DEF Shape, LevelRule
<1>7. PICK v \in Int : v = ops[i].n BY <1>1, <1>6
<1>8. v <= MaxLevel BY <1>1, <1>6, <1>7
<1>9. n.paid \in Int BY <1>1, <1>2
<1>10. ASSUME i = 2 PROVE v - 1 <= n.paid
  <2>1. v - 1 <= m.paid BY <1>5, <1>7, <1>10 DEF Promised
  <2>2. QED BY <1>1, <1>3, <1>9, <2>1
<1>11. ASSUME i = 3 PROVE v - 2 <= n.paid /\ (n.count >= 1 \/ v - 1 <= n.paid)
  <2>1. v - 2 <= m.paid /\ (m.count >= 1 \/ v - 1 <= m.paid) BY <1>5, <1>7, <1>11 DEF Promised
  <2>2. CASE o.op = "delcard"
    <3>1. v - 1 <= n.paid BY <1>1, <1>2, <1>8, <2>1, <2>2
    <3>2. QED BY <1>1, <1>3, <1>9, <2>1, <3>1
  <2>3. CASE o.op # "delcard" BY <1>1, <1>3, <1>4, <1>9, <2>1, <2>3
  <2>4. QED BY <2>2, <2>3
<1>12. QED BY <1>7, <1>10, <1>11

(* Levels stay paid.                                                        *)
LEMMA MoveLevel ==
  ASSUME EconType, Shaped, NEW a \in Agents, LevelSound(a), UNCHANGED <<stage, foreign>>,
         NEW c \in Coros, NEW o, NEW q, Move(a, c, o, q), Promised(mem'[a], q)
  PROVE  LevelSound(a)'
<1>0. EconType /\ Move(a, c, o, q) OBVIOUS
<1>1. coro'[c].ops = q /\ \A d \in Coros : d # c => coro'[d] = coro[d]
  BY ONLY <1>0, c \in Coros, CoroMoved
<1>2. PICK m \in [Fields -> Int] : m = mem[a] BY DEF EconType
<1>3. PICK n \in [Fields -> Int] : n = mem'[a] BY DEF Move
<1>4. Recorded(o, m, n) /\ db' = db /\ Host[c] = a BY <1>2, <1>3 DEF Move
<1>5. /\ m.paid \in Int /\ m.count \in Int /\ m.dataId \in Int /\ db.dataId \in Int
      /\ MaxLevel \in Nat
  <2>1. db \in [Fields -> Int] BY DEF EconType
  <2>2. QED BY <1>2, <2>1, Bounds DEF Fields
<1>6. /\ n.dataId = IF o.op = "setdataid" THEN o.n ELSE m.dataId
      /\ n.paid = IF o.op = "delcard" /\ m.paid < MaxLevel - 1 THEN m.paid + 1 ELSE m.paid
      /\ o.op = "delcard" => n.count = m.count - 1
      /\ o.op # "delcard" => n.count = m.count \/ n.count = Clamp(m.count + 1)
  BY <1>4 DEF Recorded
<1>7. o.op = "setdataid" => o.n \in 2 .. MaxLevel /\ o.n - 1 <= m.paid BY <1>2 DEF Move
<1>8. o.op = "delcard" => m.count >= 1 BY <1>2 DEF Move
<1>9. m.paid <= n.paid /\ n.paid \in Int BY <1>5, <1>6
<1>10. m.dataId \in 1 .. MaxLevel /\ m.count >= 0 /\ m.dataId - 1 <= m.paid
  BY <1>2 DEF LevelSound
<1>11. n.count >= 0 BY <1>5, <1>6, <1>8, <1>10, Clamped
<1>12. n.dataId \in 1 .. MaxLevel BY <1>5, <1>6, <1>7, <1>10
<1>13. n.dataId - 1 <= n.paid BY <1>5, <1>6, <1>7, <1>9, <1>10
<1>14. "dataId" \in Has(a)' => "dataId" \in foreign'[a] \/ db'.dataId - 1 <= n.paid
  <2>1. Has(a)' = Has(a) BY DEF Has
  <2>2. "dataId" \in Has(a) => "dataId" \in foreign[a] \/ db.dataId - 1 <= m.paid
    BY <1>2 DEF LevelSound
  <2>3. db.dataId - 1 <= m.paid => db.dataId - 1 <= n.paid BY <1>5, <1>9
  <2>4. QED BY <1>4, <2>1, <2>2, <2>3
<1>15. ASSUME NEW d \in Coros, Host[d] = a, coro'[d].at # "none" PROVE Promised(n, coro'[d].ops)
  <2>1. CASE d = c BY <1>1, <1>3, <2>1
  <2>2. CASE d # c
    <3>1. coro'[d] = coro[d] BY <1>1, <2>2
    <3>2. PICK ops \in Seq(Ops) : ops = coro[d].ops BY DEF EconType
    <3>3. Shape(ops) BY <1>15, <3>1, <3>2 DEF Shaped
    <3>4. Promised(m, ops) BY <1>2, <1>15, <3>1, <3>2 DEF LevelSound
    <3>5. Promised(n, ops) BY <1>4, <1>8, <3>3, <3>4, PromiseKept
    <3>6. QED BY <3>1, <3>2, <3>5
  <2>3. QED BY <2>1, <2>2
<1>16. QED BY <1>3, <1>11, <1>12, <1>13, <1>14, <1>15 DEF LevelSound, Promised
-----------------------------------------------------------------------------
(* The first change of a sequence is its head.                              *)
LEMMA HeadIsFirst == ASSUME NEW s \in Seq(Ops), s # <<>> PROVE Head(s) = s[1] /\ Head(s) \in Ops
  OBVIOUS

(* When one agent has done something and written nothing, the others rest.   *)
LEMMA OthersRest ==
  ASSUME EconInv, NEW a \in Agents, UNCHANGED <<stage, foreign>>, db' = db,
         \A b \in Agents \ {a} : mem'[b] = mem[b] /\ asking'[b] = asking[b],
         \A c \in Coros : Host[c] # a => coro'[c] = coro[c]
  PROVE  \A b \in Agents \ {a} : AgentInv(b)'
<1>1. SUFFICES ASSUME NEW b \in Agents \ {a} PROVE AgentInv(b)' OBVIOUS
<1>2. Rested(b) BY DEF Rested
<1>3. QED BY <1>2, RestedKeeps DEF EconInv

(* A request that is done leaves everything as it was.                      *)
LEMMA EndKeeps ==
  ASSUME EconInv, NEW c \in Coros, Online(Host[c]), coro[c].at # "ask", Ends(c),
         UNCHANGED <<stage, menu, today, foreign>>
  PROVE  EconInv'
<1>0. EconType /\ Shaped /\ DbSound /\ mem' = mem /\ db' = db /\ asking' = asking
  BY DEF EconInv, Ends
<1>a. PICK a \in Agents : a = Host[c] BY HostIn
<1>b. AskSound(a) /\ MailSound(a) /\ LevelSound(a) /\ Owned(a) BY DEF EconInv, AgentInv
<1>1. NoRequest \in [at : {"none", "ask", "wait"}, ops : Seq(Ops)] /\ NoRequest.at = "none"
  BY DEF NoRequest
<1>2. coro \in [Coros -> [at : {"none", "ask", "wait"}, ops : Seq(Ops)]] BY <1>0 DEF EconType
<1>3. /\ coro' \in [Coros -> [at : {"none", "ask", "wait"}, ops : Seq(Ops)]]
      /\ coro'[c].at = "none" /\ \A d \in Coros : d # c => coro'[d] = coro[d]
  BY <1>1, <1>2 DEF Ends
<1>4. \A d \in Coros : coro'[d].at # "none" => d # c /\ coro'[d] = coro[d] BY <1>3
<1>5. PICK s \in Seq(Coros) : s = asking[a] BY <1>0 DEF EconType
<1>6. \A i \in DOMAIN s : s[i] \in Coros /\ s[i] # c BY <1>b, <1>5 DEF AskSound
<1>7. \A i \in DOMAIN s : coro'[s[i]] = coro[s[i]] BY <1>3, <1>6
<1>8. EconType' BY <1>0, <1>3, <1>4 DEF EconType
<1>9. Shaped'
  <2>1. SUFFICES ASSUME NEW d \in Coros, coro'[d].at # "none"
                 PROVE  Shape(coro'[d].ops) /\ coro'[d].ops[1].op # "explore?"
    BY DEF Shaped, Shape, MailRule, LevelRule, ExploreRule
  <2>2. coro'[d] = coro[d] BY <1>4, <2>1
  <2>3. QED BY <1>0, <2>1, <2>2 DEF Shaped
<1>10. Has(a)' = Has(a) /\ (Online(a)' <=> Online(a)) BY DEF Has, Online
<1>11. AskSound(a)'
  <2>1. \A i \in DOMAIN s : coro[s[i]].at = "ask" /\ Host[s[i]] = a BY <1>b, <1>5 DEF AskSound
  <2>2. \A i, j \in DOMAIN s : s[i] = s[j] => i = j BY <1>b, <1>5 DEF AskSound
  <2>3. \A i \in DOMAIN s : coro'[s[i]].at = "ask" /\ Host[s[i]] = a BY <1>7, <2>1
  <2>4. asking'[a] = s /\ Online(a)' BY <1>0, <1>a, <1>5, <1>10
  <2>5. QED BY <2>2, <2>3, <2>4 DEF AskSound
<1>12. \A d \in Coros : Holder(d)' => Holder(d) /\ coro'[d] = coro[d] BY <1>4 DEF Holder
<1>13. MailSound(a)' BY <1>0, <1>b, <1>10, <1>12 DEF MailSound
<1>14. LevelSound(a)'
  <2>1. \A d \in Coros : Host[d] = a /\ coro'[d].at # "none" => Promised(mem[a], coro'[d].ops)
    BY <1>4, <1>b DEF LevelSound
  <2>2. QED BY <1>0, <1>b, <1>10, <2>1 DEF LevelSound, Promised
<1>15. Owned(a)'
  <2>1. SUFFICES ASSUME NEW f \in Has(a), f # "refreshtime", mem[a][f] # db[f]
                 PROVE  Sends(a, f)' \/ f \in foreign[a]
    BY <1>0, <1>10 DEF Owned
  <2>2. Sends(a, f) \/ f \in foreign[a] BY <1>b, <2>1 DEF Owned
  <2>3. CASE Sends(a, f)
    <3>1. PICK i \in DOMAIN s : f \in SentFields(Head(coro[s[i]].ops)) BY <1>5, <2>3 DEF Sends
    <3>2. asking'[a] = s /\ f \in SentFields(Head(coro'[s[i]].ops)) BY <1>0, <1>5, <1>7, <3>1
    <3>3. QED BY <3>2 DEF Sends, SentFields
  <2>4. QED BY <2>2, <2>3
<1>16. AgentInv(a)' BY <1>11, <1>13, <1>14, <1>15 DEF AgentInv
<1>17. \A b \in Agents \ {a} : AgentInv(b)'
  <2>1. \A d \in Coros : Host[d] # a => coro'[d] = coro[d] BY <1>3, <1>a
  <2>2. QED BY <1>0, <2>1, OthersRest
<1>18. DbSound' BY <1>0 DEF DbSound
<1>19. QED BY <1>8, <1>9, <1>16, <1>17, <1>18 DEF EconInv

(* A change keeps the invariant.                                            *)
LEMMA MoveKeeps ==
  ASSUME EconInv, NEW a \in Agents, Online(a), NEW c \in Coros, coro[c].at # "ask",
         NEW o, NEW q, Move(a, c, o, q), Promised(mem'[a], q),
         UNCHANGED <<stage, menu, today, foreign>>
  PROVE  EconInv'
<1>0. /\ EconType /\ Shaped /\ DbSound /\ db' = db /\ Host[c] = a
      /\ AskSound(a) /\ MailSound(a) /\ LevelSound(a) /\ Owned(a)
  BY DEF EconInv, AgentInv, Move
<1>1. EconType' BY <1>0, MoveType
<1>2. Shaped' BY <1>0, MoveShaped
<1>3. AskSound(a)' BY <1>0, MoveAsks
<1>4. MailSound(a)' BY <1>0, MoveMail
<1>5. LevelSound(a)' BY <1>0, MoveLevel
<1>6. Owned(a)' BY <1>0, MoveOwned
<1>7. AgentInv(a)' BY <1>3, <1>4, <1>5, <1>6 DEF AgentInv
<1>8. \A b \in Agents \ {a} : AgentInv(b)'
  <2>1. \A d \in Coros : Host[d] # a => coro'[d] = coro[d] BY <1>0, CoroMoved
  <2>2. \A b \in Agents \ {a} : mem'[b] = mem[b] /\ asking'[b] = asking[b] BY DEF Move
  <2>3. QED BY <1>0, <2>1, <2>2, OthersRest
<1>9. DbSound' BY <1>0 DEF DbSound
<1>10. QED BY <1>1, <1>2, <1>7, <1>8, <1>9 DEF EconInv

(* A new request is done at once or makes its first change.                 *)
LEMMA RequestKeeps ==
  ASSUME EconInv, NEW c \in Coros, Request(c)
  PROVE  EconInv'
<1>a. PICK a \in Agents : a = Host[c] BY HostIn
<1>0. /\ EconType /\ LevelSound(a) /\ Online(a) /\ coro[c].at # "ask"
      /\ UNCHANGED <<stage, menu, today, foreign>>
  BY <1>a DEF EconInv, AgentInv, Request
<1>1. PICK kind \in menu[c] : \E p \in Programs(mem[a], kind) : p # <<>> /\ GoOn(c, p)
  BY <1>a DEF Request
<1>2. PICK p \in Programs(mem[a], kind) : p # <<>> /\ GoOn(c, p) BY <1>1
<1>3. Fresh(mem[a], p)
  <2>1. mem[a] \in [Fields -> Int] /\ mem[a].dataId \in 1 .. MaxLevel
    BY <1>0 DEF EconType, LevelSound
  <2>2. QED BY <1>0, <1>2, <2>1, RequestsFresh
<1>4. p \in Seq(Ops) BY <1>3 DEF Fresh
<1>5. Ends(c) \/ \E i \in DOMAIN p : Stops(c, p, i) BY <1>2, <1>4, GoesOn
<1>6. CASE Ends(c) BY <1>0, <1>a, <1>6, EndKeeps
<1>7. CASE \E i \in DOMAIN p : Stops(c, p, i)
  <2>1. PICK k \in DOMAIN p : Stops(c, p, k) BY <1>7
  <2>2. PICK o : o = p[k] OBVIOUS
  <2>3. PICK q : q = SubSeq(p, k, Len(p)) OBVIOUS
  <2>4. Move(a, c, o, q) /\ Promised(mem'[a], q)
    BY <1>0, <1>a, <1>3, <2>1, <2>2, <2>3, MovesFresh
  <2>5. QED BY <1>0, <2>4, MoveKeeps
<1>8. QED BY <1>5, <1>6, <1>7

(* So does one that goes on.                                                *)
LEMMA AnsweredKeeps ==
  ASSUME EconInv, NEW c \in Coros, Answered(c)
  PROVE  EconInv'
<1>a. PICK a \in Agents : a = Host[c] BY HostIn
<1>0. /\ EconType /\ Shaped /\ LevelSound(a) /\ Online(a) /\ coro[c].at = "wait"
      /\ UNCHANGED <<stage, menu, today, foreign>>
  BY <1>a DEF EconInv, AgentInv, Answered
<1>1. PICK p : p = Tail(coro[c].ops) /\ GoOn(c, p) BY DEF Answered
<1>2. Rest(c, p) BY <1>0, <1>1 DEF Rest
<1>3. p \in Seq(Ops) BY <1>0, <1>1, TailShape DEF EconType, Shaped
<1>4. Ends(c) \/ \E i \in DOMAIN p : Stops(c, p, i) BY <1>1, <1>3, GoesOn
<1>5. CASE Ends(c) BY <1>0, <1>a, <1>5, EndKeeps
<1>6. CASE \E i \in DOMAIN p : Stops(c, p, i)
  <2>1. PICK k \in DOMAIN p : Stops(c, p, k) BY <1>6
  <2>2. PICK o : o = p[k] OBVIOUS
  <2>3. PICK q : q = SubSeq(p, k, Len(p)) OBVIOUS
  <2>4. Move(a, c, o, q) /\ Promised(mem'[a], q)
    BY <1>0, <1>a, <1>2, <2>1, <2>2, <2>3, MovesOn
  <2>5. QED BY <1>0, <2>4, MoveKeeps
<1>7. QED BY <1>4, <1>5, <1>6
-----------------------------------------------------------------------------
(* What Touch records.                                                      *)
LEMMA TouchType ==
  ASSUME EconType, NEW a \in Agents, NEW fields, Touch(a, fields)
  PROVE  /\ foreign' \in [Agents -> SUBSET Fields]
         /\ foreign'[a] = foreign[a] \ fields
         /\ \A b \in Agents \ {a} : stage[b] # "none" =>
              \A f \in Fields : f \in foreign[b] \/ db'[f] # db[f] => f \in foreign'[b]
<1>1. foreign \in [Agents -> SUBSET Fields] BY DEF EconType
<1>2. PICK new : new = [b \in Agents |->
                          IF b = a THEN foreign[b] \ fields
                          ELSE IF stage[b] = "none" THEN {}
                          ELSE foreign[b] \cup {f \in Fields : db'[f] # db[f]}]
  OBVIOUS
<1>3. foreign' = new BY <1>2 DEF Touch
<1>4. \A b \in Agents : new[b] \subseteq Fields BY <1>1, <1>2
<1>5. new \in [Agents -> SUBSET Fields] BY <1>2, <1>4
<1>6. new[a] = foreign[a] \ fields BY <1>2
<1>7. \A b \in Agents \ {a} : stage[b] # "none" =>
        new[b] = foreign[b] \cup {f \in Fields : db'[f] # db[f]}
  BY <1>2
<1>8. QED BY <1>3, <1>5, <1>6, <1>7

(* When one agent has done something and Touch has recorded what it wrote,    *)
(* the others rest.                                                         *)
LEMMA TouchRests ==
  ASSUME EconInv, NEW a \in Agents, NEW fields, Touch(a, fields),
         db.mailflag = 1 => db'.mailflag = 1,
         \A b \in Agents \ {a} : mem'[b] = mem[b] /\ asking'[b] = asking[b] /\ stage'[b] = stage[b],
         \A c \in Coros : Host[c] # a => coro'[c] = coro[c]
  PROVE  \A b \in Agents \ {a} : AgentInv(b)'
<1>1. SUFFICES ASSUME NEW b \in Agents \ {a} PROVE AgentInv(b)' OBVIOUS
<1>2. EconType /\ AgentInv(b) BY DEF EconInv
<1>3. stage[b] # "none" => \A f \in Fields : f \in foreign[b] \/ db'[f] # db[f] => f \in foreign'[b]
  BY <1>2, TouchType
<1>4. Rested(b) BY <1>3 DEF Rested
<1>5. QED BY <1>2, <1>4, RestedKeeps

(* Only the request that set a mail's flag sends it.                        *)
LEMMA WhatIsSent ==
  ASSUME NEW o
  PROVE  /\ "mailflag" \in SentFields(o) => o.op = "mailflag"
         /\ "frommail" \in SentFields(o) => o.op = "addcard"
         /\ SentFields(o) \subseteq Fields
  BY DEF SentFields, Fields

(* What is left of a sequence without its head.                             *)
LEMMA TailOf ==
  ASSUME NEW S, NEW s \in Seq(S), s # <<>>
  PROVE  /\ Tail(s) \in Seq(S) /\ Len(Tail(s)) = Len(s) - 1
         /\ \A i \in DOMAIN Tail(s) : Tail(s)[i] = s[i + 1]
  OBVIOUS

(* The database answers where it is, and the fields are sent.                *)
LEMMA SendKeeps ==
  ASSUME EconInv, NEW c \in Coros, SendFields(c)
  PROVE  EconInv'
<1>a. PICK a \in Agents : a = Host[c] BY HostIn
<1>0. /\ EconType /\ Shaped /\ DbSound /\ AskSound(a) /\ MailSound(a) /\ LevelSound(a) /\ Owned(a)
      /\ Online(a) /\ mem' = mem /\ stage' = stage /\ menu' = menu /\ today' = today
      /\ asking[a] # <<>> /\ c = Head(asking[a]) /\ asking' = [asking EXCEPT ![a] = Tail(asking[a])]
  BY <1>a DEF EconInv, AgentInv, SendFields
<1>1. PICK s \in Seq(Coros) : s = asking[a] BY <1>0 DEF EconType
<1>2. s # <<>> /\ 1 \in DOMAIN s /\ s[1] = c BY <1>0, <1>1
<1>3. coro[c].at = "ask" BY <1>0, <1>1, <1>2 DEF AskSound
<1>4. PICK ops \in Seq(Ops) : ops = coro[c].ops BY <1>0 DEF EconType
<1>5. PICK o \in Ops : o = Head(coro[c].ops) /\ o = ops[1]
  BY <1>0, <1>3, <1>4, HeadIsFirst DEF EconType
<1>6. coro \in [Coros -> [at : {"none", "ask", "wait"}, ops : Seq(Ops)]] BY <1>0 DEF EconType
<1>7. /\ coro' \in [Coros -> [at : {"none", "ask", "wait"}, ops : Seq(Ops)]]
      /\ coro'[c].at = "wait" /\ \A d \in Coros : coro'[d].ops = coro[d].ops
      /\ \A d \in Coros : d # c => coro'[d] = coro[d]
  BY <1>6 DEF SendFields
<1>8. \A d \in Coros : coro'[d].at # "none" => coro[d].at # "none" BY <1>3, <1>7
<1>9. PICK m \in [Fields -> Int] : m = mem[a] BY <1>0 DEF EconType
<1>10. db \in [Fields -> Int] BY <1>0 DEF EconType
<1>11. db' = [f \in Fields |-> IF f \in SentFields(o) THEN m[f] ELSE db[f]]
  BY <1>a, <1>5, <1>9 DEF SendFields, Stored
<1>12. /\ db' \in [Fields -> Int]
       /\ \A f \in Fields : db'[f] = IF f \in SentFields(o) THEN m[f] ELSE db[f]
  BY <1>9, <1>10, <1>11
<1>13. Touch(a, SentFields(o)) BY <1>a, <1>5 DEF SendFields
<1>14. foreign' \in [Agents -> SUBSET Fields] /\ foreign'[a] = foreign[a] \ SentFields(o)
  BY <1>0, <1>13, TouchType
<1>15. PICK t : t = Tail(s) OBVIOUS
<1>16. /\ t \in Seq(Coros)
       /\ \A i \in DOMAIN t : i + 1 \in DOMAIN s /\ i + 1 # 1 /\ t[i] = s[i + 1]
       /\ \A i \in DOMAIN s : i # 1 => i - 1 \in DOMAIN t /\ t[i - 1] = s[i]
  <2>1. t \in Seq(Coros) /\ Len(t) = Len(s) - 1 /\ \A i \in DOMAIN t : t[i] = s[i + 1]
    BY <1>2, <1>15, TailOf
  <2>2. Len(s) \in Nat /\ DOMAIN s = 1 .. Len(s) /\ DOMAIN t = 1 .. Len(s) - 1 BY <2>1
  <2>3. \A i \in DOMAIN t : i + 1 \in DOMAIN s /\ i + 1 # 1 BY <2>2
  <2>4. \A i \in DOMAIN s : i # 1 => i - 1 \in DOMAIN t /\ i - 1 + 1 = i BY <2>2
  <2>5. \A i \in DOMAIN s : i # 1 => t[i - 1] = s[i] BY <2>1, <2>4
  <2>6. QED BY <2>1, <2>3, <2>4, <2>5
<1>17. /\ asking' \in [Agents -> Seq(Coros)] /\ asking'[a] = t
       /\ \A b \in Agents \ {a} : asking'[b] = asking[b]
  <2>1. asking' = [asking EXCEPT ![a] = t] BY <1>0, <1>1, <1>15
  <2>2. asking \in [Agents -> Seq(Coros)] BY <1>0 DEF EconType
  <2>3. QED BY <1>16, <2>1, <2>2
<1>18. \A i \in DOMAIN s : coro[s[i]].at = "ask" /\ Host[s[i]] = a BY <1>0, <1>1 DEF AskSound
<1>19. \A i, j \in DOMAIN s : s[i] = s[j] => i = j BY <1>0, <1>1 DEF AskSound
<1>20. \A i \in DOMAIN s : i # 1 => s[i] \in Coros /\ s[i] # c BY <1>2, <1>19
<1>21. \A i \in DOMAIN s : i # 1 => coro'[s[i]] = coro[s[i]] BY <1>7, <1>20
<1>22. Has(a)' = Has(a) /\ Online(a)' BY <1>0 DEF Has, Online
<1>23. EconType'
  <2>1. \A d \in Coros : coro'[d].at # "none" => coro'[d].ops # <<>>
    BY <1>0, <1>7, <1>8 DEF EconType
  <2>2. QED BY <1>0, <1>7, <1>12, <1>14, <1>17, <2>1 DEF EconType
<1>24. Shaped'
  <2>1. SUFFICES ASSUME NEW d \in Coros, coro'[d].at # "none"
                 PROVE  Shape(coro'[d].ops) /\ coro'[d].ops[1].op # "explore?"
    BY DEF Shaped, Shape, MailRule, LevelRule, ExploreRule
  <2>2. coro[d].at # "none" /\ coro'[d].ops = coro[d].ops BY <1>7, <1>8, <2>1
  <2>3. QED BY <1>0, <2>2 DEF Shaped
<1>25. AskSound(a)'
  <2>1. \A i \in DOMAIN t : coro'[t[i]].at = "ask" /\ Host[t[i]] = a
    <3>1. SUFFICES ASSUME NEW i \in DOMAIN t PROVE coro'[t[i]].at = "ask" /\ Host[t[i]] = a OBVIOUS
    <3>2. PICK j \in DOMAIN s : j # 1 /\ t[i] = s[j] BY <1>16
    <3>3. coro'[s[j]] = coro[s[j]] BY <1>21, <3>2
    <3>4. QED BY <1>18, <3>2, <3>3
  <2>2. ASSUME NEW i \in DOMAIN t, NEW j \in DOMAIN t, t[i] = t[j] PROVE i = j
    <3>1. i + 1 \in DOMAIN s /\ j + 1 \in DOMAIN s /\ s[i + 1] = s[j + 1] BY <1>16, <2>2
    <3>2. i + 1 = j + 1 BY <1>19, <3>1
    <3>3. i \in Nat /\ j \in Nat BY <1>16
    <3>4. QED BY <3>2, <3>3
  <2>3. QED BY <1>17, <1>22, <2>1, <2>2 DEF AskSound
<1>26. /\ "mailflag" \in SentFields(o) => o.op = "mailflag"
       /\ "frommail" \in SentFields(o) => o.op = "addcard"
  BY WhatIsSent
<1>27. o.op = "mailflag" => m.mailflag = 1
  <2>1. o.op = "mailflag" => Holder(c) BY <1>3, <1>4, <1>5 DEF Holder
  <2>2. QED BY <1>0, <1>a, <1>9, <2>1 DEF MailSound
<1>28. /\ db'.mailflag = IF "mailflag" \in SentFields(o) THEN m.mailflag ELSE db.mailflag
       /\ db'.frommail = IF "frommail" \in SentFields(o) THEN m.frommail ELSE db.frommail
       /\ db'.dataId = IF "dataId" \in SentFields(o) THEN m.dataId ELSE db.dataId
       /\ db'.count = IF "count" \in SentFields(o) THEN m.count ELSE db.count
  <2>1. {"mailflag", "frommail", "dataId", "count"} \subseteq Fields BY DEF Fields
  <2>2. QED BY <1>12, <2>1
<1>29. db.mailflag = 1 => db'.mailflag = 1 BY <1>26, <1>27, <1>28
<1>30. DbSound'
  <2>1. /\ m.frommail \in {0, 1} /\ m.mailflag \in {0, 1} /\ (m.frommail = 1 => db.mailflag = 1)
        /\ m.dataId \in 1 .. MaxLevel /\ m.count >= 0
    BY <1>0, <1>9 DEF MailSound, LevelSound
  <2>2. /\ db.frommail \in {0, 1} /\ db.mailflag \in {0, 1} /\ (db.frommail = 1 => db.mailflag = 1)
        /\ db.dataId \in 1 .. MaxLevel /\ db.count >= 0
    BY <1>0 DEF DbSound
  <2>3. db'.frommail \in {0, 1} /\ db'.mailflag \in {0, 1} BY <1>28, <2>1, <2>2
  <2>4. db'.frommail = 1 => db'.mailflag = 1 BY <1>28, <1>29, <2>1, <2>2
  <2>5. db'.dataId \in 1 .. MaxLevel /\ db'.count >= 0 BY <1>28, <2>1, <2>2
  <2>6. QED BY <2>3, <2>4, <2>5 DEF DbSound
<1>31. MailSound(a)'
  <2>1. \A d \in Coros : Holder(d)' => Holder(d) BY <1>7, <1>8 DEF Holder
  <2>2. mem'[a] = m /\ mem[a] = m BY <1>0, <1>9
  <2>3. {m.frommail, m.mailflag} \subseteq {0, 1} BY <1>0, <2>2 DEF MailSound
  <2>4. ASSUME NEW d \in Coros, Host[d] = a, Holder(d)'
        PROVE  /\ m.mailflag = 1 /\ m.frommail = 0 /\ (coro'[d].at = "wait" => db'.mailflag = 1)
    <3>1. Holder(d) BY <2>1, <2>4
    <3>2. m.mailflag = 1 /\ m.frommail = 0 /\ (coro[d].at = "wait" => db.mailflag = 1)
      BY <1>0, <2>2, <2>4, <3>1 DEF MailSound
    <3>3. CASE d # c BY <1>7, <1>29, <3>2, <3>3
    <3>4. CASE d = c
      <4>1. o.op = "mailflag" BY <1>4, <1>5, <3>1, <3>4 DEF Holder
      <4>2. "mailflag" \in SentFields(o) BY <4>1 DEF SentFields
      <4>3. QED BY <1>28, <3>2, <4>2
    <3>5. QED BY <3>3, <3>4
  <2>5. \A d, e \in Coros : Host[d] = a /\ Host[e] = a /\ Holder(d)' /\ Holder(e)' => d = e
    BY <1>0, <2>1 DEF MailSound
  <2>6. m.frommail = 1 => db'.mailflag = 1 /\ (Online(a)' => m.mailflag = 1)
    BY <1>0, <1>29, <2>2 DEF MailSound
  <2>7. QED BY <2>2, <2>3, <2>4, <2>5, <2>6 DEF MailSound
<1>32. LevelSound(a)'
  <2>1. mem'[a] = m /\ mem[a] = m BY <1>0, <1>9
  <2>2. m.dataId \in 1 .. MaxLevel /\ m.count >= 0 /\ m.dataId - 1 <= m.paid
    BY <1>0, <2>1 DEF LevelSound
  <2>3. "dataId" \in Has(a) => "dataId" \in foreign'[a] \/ db'.dataId - 1 <= m.paid
    <3>1. CASE "dataId" \in SentFields(o) BY <1>28, <2>2, <3>1
    <3>2. CASE "dataId" \notin SentFields(o)
      <4>1. db'.dataId = db.dataId /\ ("dataId" \in foreign[a] => "dataId" \in foreign'[a])
        BY <1>14, <1>28, <3>2
      <4>2. "dataId" \in Has(a) => "dataId" \in foreign[a] \/ db.dataId - 1 <= m.paid
        BY <1>0, <2>1 DEF LevelSound
      <4>3. QED BY <4>1, <4>2
    <3>3. QED BY <3>1, <3>2
  <2>4. \A d \in Coros : Host[d] = a /\ coro'[d].at # "none" => Promised(m, coro'[d].ops)
    <3>1. SUFFICES ASSUME NEW d \in Coros, Host[d] = a, coro'[d].at # "none"
                   PROVE  Promised(m, coro'[d].ops)
      OBVIOUS
    <3>2. coro[d].at # "none" /\ coro'[d].ops = coro[d].ops BY <1>7, <1>8, <3>1
    <3>3. Promised(mem[a], coro[d].ops) BY <1>0, <3>1, <3>2 DEF LevelSound
    <3>4. QED BY <2>1, <3>2, <3>3
  <2>5. QED BY <1>22, <2>1, <2>2, <2>3, <2>4 DEF LevelSound, Promised
<1>33. Owned(a)'
  <2>1. SUFFICES ASSUME NEW f \in Has(a), f # "refreshtime", m[f] # db'[f]
                 PROVE  Sends(a, f)' \/ f \in foreign'[a]
    BY <1>0, <1>9, <1>22 DEF Owned
  <2>2. f \in Fields BY <2>1, HasThere
  <2>3. f \notin SentFields(o) /\ db'[f] = db[f] BY <1>12, <2>1, <2>2
  <2>4. Sends(a, f) \/ f \in foreign[a] BY <1>0, <1>9, <2>1, <2>3 DEF Owned
  <2>5. CASE f \in foreign[a] BY <1>14, <2>3, <2>5
  <2>6. CASE Sends(a, f)
    <3>1. PICK i \in DOMAIN s : f \in SentFields(Head(coro[s[i]].ops)) BY <1>1, <2>6 DEF Sends
    <3>2. i # 1 BY <1>2, <1>5, <2>3, <3>1
    <3>3. i - 1 \in DOMAIN t /\ t[i - 1] = s[i] BY <1>16, <3>2
    <3>4. coro'[s[i]] = coro[s[i]] BY <1>21, <3>2
    <3>5. PICK j \in DOMAIN t : f \in SentFields(Head(coro'[t[j]].ops)) BY <3>1, <3>3, <3>4
    <3>6. QED BY <1>17, <3>5 DEF Sends, SentFields
  <2>7. QED BY <2>4, <2>5, <2>6
<1>34. AgentInv(a)' BY <1>25, <1>31, <1>32, <1>33 DEF AgentInv
<1>35. \A b \in Agents \ {a} : AgentInv(b)'
  <2>1. \A d \in Coros : Host[d] # a => coro'[d] = coro[d] BY <1>7, <1>a
  <2>2. QED BY <1>0, <1>13, <1>17, <1>29, <2>1, TouchRests
<1>36. QED BY <1>23, <1>24, <1>30, <1>34, <1>35 DEF EconInv

(* A new player's tables.                                                   *)
LEMMA NewTables ==
  /\ NewPlayer \in [Fields -> Int]
  /\ NewPlayer.dataId = 1 /\ NewPlayer.count = 1 /\ NewPlayer.paid = 0
  /\ NewPlayer.mailflag = 0 /\ NewPlayer.frommail = 0
<1>1. \A f \in Fields : NewPlayer[f] \in Int
  <2>1. SUFFICES ASSUME NEW f \in Fields PROVE NewPlayer[f] \in Int OBVIOUS
  <2>2. NewPlayer[f] \in {0, 1, MaxInt, DailyTimes} BY DEF NewPlayer
  <2>3. QED BY <2>2, Bounds
<1>2. NewPlayer \in [Fields -> Int] BY <1>1 DEF NewPlayer
<1>3. /\ NewPlayer.dataId = 1 /\ NewPlayer.count = 1 /\ NewPlayer.paid = 0
      /\ NewPlayer.mailflag = 0 /\ NewPlayer.frommail = 0
  BY DEF NewPlayer, Fields
<1>4. QED BY <1>2, <1>3

(* An agent without tables and requests.                                    *)
LEMMA NothingThere ==
  ASSUME NEW a \in Agents, stage[a] = "none", mem[a] = NewPlayer, asking[a] = <<>>,
         \A c \in Coros : Host[c] = a => coro[c].at = "none"
  PROVE  AgentInv(a)
<1>1. \A c \in Coros : Host[c] = a => ~Holder(c) BY DEF Holder
<1>2. Has(a) = {} /\ ~Online(a) BY DEF Has, Online
<1>3. AskSound(a) BY <1>2 DEF AskSound
<1>4. MailSound(a) BY <1>1, NewTables DEF MailSound
<1>5. LevelSound(a) BY <1>2, NewTables, Bounds DEF LevelSound
<1>6. Owned(a) BY <1>2 DEF Owned
<1>7. QED BY <1>3, <1>4, <1>5, <1>6 DEF AgentInv

(* The agent exits, and its coroutines with it.                             *)
LEMMA ExitKeeps == ASSUME EconInv, NEW a \in Agents, AgentExit(a) PROVE EconInv'
<1>0. /\ EconType /\ Shaped /\ DbSound /\ db' = db /\ menu' = menu /\ today' = today
      /\ stage' = [stage EXCEPT ![a] = "none"] /\ mem' = [mem EXCEPT ![a] = NewPlayer]
      /\ asking' = [asking EXCEPT ![a] = <<>>] /\ foreign' = [foreign EXCEPT ![a] = {}]
      /\ coro' = [c \in Coros |-> IF Host[c] = a THEN NoRequest ELSE coro[c]]
  BY DEF EconInv, AgentExit
<1>1. NoRequest \in [at : {"none", "ask", "wait"}, ops : Seq(Ops)] /\ NoRequest.at = "none"
  BY DEF NoRequest
<1>2. coro \in [Coros -> [at : {"none", "ask", "wait"}, ops : Seq(Ops)]] BY <1>0 DEF EconType
<1>3. /\ coro' \in [Coros -> [at : {"none", "ask", "wait"}, ops : Seq(Ops)]]
      /\ \A c \in Coros : Host[c] = a => coro'[c].at = "none"
      /\ \A c \in Coros : Host[c] # a => coro'[c] = coro[c]
  BY <1>0, <1>1, <1>2
<1>4. \A c \in Coros : coro'[c].at # "none" => coro'[c] = coro[c] BY <1>3
<1>5. /\ stage \in [Agents -> Stages] /\ mem \in [Agents -> [Fields -> Int]]
      /\ asking \in [Agents -> Seq(Coros)] /\ foreign \in [Agents -> SUBSET Fields]
  BY <1>0 DEF EconType
<1>6. /\ stage' \in [Agents -> Stages] /\ stage'[a] = "none"
      /\ \A b \in Agents \ {a} : stage'[b] = stage[b]
  BY <1>0, <1>5 DEF Stages
<1>7. /\ mem' \in [Agents -> [Fields -> Int]] /\ mem'[a] = NewPlayer
      /\ \A b \in Agents \ {a} : mem'[b] = mem[b]
  BY <1>0, <1>5, NewTables
<1>8. /\ asking' \in [Agents -> Seq(Coros)] /\ asking'[a] = <<>>
      /\ \A b \in Agents \ {a} : asking'[b] = asking[b]
  <2>1. <<>> \in Seq(Coros) OBVIOUS
  <2>2. QED BY <1>0, <1>5, <2>1
<1>9. foreign' \in [Agents -> SUBSET Fields] /\ \A b \in Agents \ {a} : foreign'[b] = foreign[b]
  BY <1>0, <1>5
<1>10. EconType'
  <2>1. \A c \in Coros : coro'[c].at # "none" => coro'[c].ops # <<>> BY <1>0, <1>4 DEF EconType
  <2>2. QED BY <1>0, <1>3, <1>6, <1>7, <1>8, <1>9, <2>1 DEF EconType
<1>11. Shaped'
  <2>1. SUFFICES ASSUME NEW d \in Coros, coro'[d].at # "none"
                 PROVE  Shape(coro'[d].ops) /\ coro'[d].ops[1].op # "explore?"
    BY DEF Shaped, Shape, MailRule, LevelRule, ExploreRule
  <2>2. coro'[d] = coro[d] BY <1>4, <2>1
  <2>3. QED BY <1>0, <2>1, <2>2 DEF Shaped
<1>12. DbSound' BY <1>0 DEF DbSound
<1>13. AgentInv(a)'
  <2>1. \A c \in Coros : Host[c] = a => ~Holder(c)' BY <1>3 DEF Holder
  <2>2. Has(a)' = {} /\ ~Online(a)' BY <1>6 DEF Has, Online
  <2>3. AskSound(a)' BY <1>3, <1>8, <2>2 DEF AskSound
  <2>4. MailSound(a)' BY <1>7, <2>1, NewTables DEF MailSound
  <2>5. LevelSound(a)' BY <1>3, <1>7, <2>2, NewTables, Bounds DEF LevelSound
  <2>6. Owned(a)' BY <2>2 DEF Owned
  <2>7. QED BY <2>3, <2>4, <2>5, <2>6 DEF AgentInv
<1>14. \A b \in Agents \ {a} : AgentInv(b)'
  <2>1. SUFFICES ASSUME NEW b \in Agents \ {a} PROVE AgentInv(b)' OBVIOUS
  <2>2. Rested(b) BY <1>0, <1>3, <1>6, <1>7, <1>8, <1>9 DEF Rested
  <2>3. QED BY <1>0, <2>2, RestedKeeps DEF EconInv
<1>15. QED BY <1>10, <1>11, <1>12, <1>13, <1>14 DEF EconInv

(* An agent is made; it has nothing yet.                                    *)
LEMMA EnterKeeps == ASSUME EconInv, NEW a \in Agents, EnterGame(a) PROVE EconInv'
<1>0. /\ EconType /\ Shaped /\ DbSound /\ stage[a] = "none"
      /\ AskSound(a) /\ MailSound(a) /\ LevelSound(a)
      /\ stage' = [stage EXCEPT ![a] = "account"]
      /\ mem' = mem /\ db' = db /\ coro' = coro /\ asking' = asking /\ menu' = menu
      /\ today' = today /\ foreign' = foreign
  BY DEF EconInv, AgentInv, EnterGame
<1>1. stage \in [Agents -> Stages] BY <1>0 DEF EconType
<1>2. /\ stage' \in [Agents -> Stages] /\ stage'[a] = "account"
      /\ \A b \in Agents \ {a} : stage'[b] = stage[b]
  BY <1>0, <1>1 DEF Stages
<1>3. Has(a)' = {} /\ ~Online(a)' /\ ~Online(a) BY <1>0, <1>2 DEF Has, Online
<1>4. EconType' BY <1>0, <1>2 DEF EconType
<1>5. Shaped' BY <1>0 DEF Shaped, Shape, MailRule, LevelRule, ExploreRule
<1>6. DbSound' BY <1>0 DEF DbSound
<1>7. AskSound(a)' BY <1>0, <1>3 DEF AskSound
<1>8. MailSound(a)' BY <1>0, <1>3 DEF MailSound, Holder
<1>9. LevelSound(a)' BY <1>0, <1>3 DEF LevelSound, Promised
<1>10. Owned(a)' BY <1>3 DEF Owned
<1>11. \A b \in Agents \ {a} : AgentInv(b)'
  <2>1. SUFFICES ASSUME NEW b \in Agents \ {a} PROVE AgentInv(b)' OBVIOUS
  <2>2. Rested(b) BY <1>0, <1>2 DEF Rested
  <2>3. QED BY <1>0, <2>2, RestedKeeps DEF EconInv
<1>12. QED BY <1>4, <1>5, <1>6, <1>7, <1>8, <1>9, <1>10, <1>11 DEF EconInv, AgentInv

(* The levels that were saved count as paid.                                *)
LEMMA ReckonedPays ==
  ASSUME db \in [Fields -> Int]
  PROVE  /\ Reckoned \in [Fields -> Int] /\ Reckoned.dataId - 1 <= Reckoned.paid
         /\ \A f \in Fields : f # "paid" => Reckoned[f] = db[f]
<1>1. db \in [Fields -> Int] /\ db.dataId \in Int /\ db.paid \in Int BY DEF Fields
<1>2. PICK v \in Int : v = IF db.paid < db.dataId - 1 THEN db.dataId - 1 ELSE db.paid BY <1>1
<1>3. PICK l : l = [db EXCEPT !.paid = v] OBVIOUS
<1>4. Reckoned = l BY <1>1, <1>2, <1>3 DEF Reckoned
<1>5. l \in [Fields -> Int] /\ l.paid = v /\ \A f \in Fields : f # "paid" => l[f] = db[f]
  BY <1>1, <1>3 DEF Fields
<1>6. l.dataId = db.dataId BY <1>5 DEF Fields
<1>7. QED BY <1>1, <1>2, <1>4, <1>5, <1>6

(* The tables are loaded in order.                                          *)
LEMMA TablesInOrder ==
  ASSUME NEW a \in Agents, stage \in [Agents -> Stages], stage[a] \notin {"none", "online"},
         stage' = [stage EXCEPT ![a] = After(@)]
  PROVE  /\ stage' \in [Agents -> Stages] /\ \A b \in Agents \ {a} : stage'[b] = stage[b]
         /\ Has(a)' = Has(a) \cup Table(stage[a]) /\ ~Online(a)
         /\ Online(a)' <=> stage[a] = "mails"
         /\ stage[a] = "cards" => Has(a)' = AccountFields \cup CardFields
<1>1. stage[a] \in {"account", "cards", "missions", "mails"} BY DEF Stages
<1>2. stage'[a] = After(stage[a]) OBVIOUS
<1>3. After(stage[a]) \in Stages BY DEF After, Stages
<1>4. stage' \in [Agents -> Stages] /\ \A b \in Agents \ {a} : stage'[b] = stage[b] BY <1>3
<1>5. ~Online(a) BY DEF Online
<1>6. Online(a)' <=> stage[a] = "mails" BY <1>1, <1>2 DEF Online, After
<1>7. CASE stage[a] = "account"
  <2>1. stage'[a] = "cards" BY <1>2, <1>7 DEF After
  <2>2. Has(a)' = AccountFields /\ Has(a) = {} BY <1>7, <2>1 DEF Has
  <2>3. Table(stage[a]) = AccountFields BY <1>7 DEF Table
  <2>4. QED BY <1>4, <1>5, <1>6, <1>7, <2>2, <2>3
<1>8. CASE stage[a] = "cards"
  <2>1. stage'[a] = "missions" BY <1>2, <1>8 DEF After
  <2>2. Has(a)' = AccountFields \cup CardFields /\ Has(a) = AccountFields BY <1>8, <2>1 DEF Has
  <2>3. Table(stage[a]) = CardFields BY <1>8 DEF Table
  <2>4. QED BY <1>4, <1>5, <1>6, <1>8, <2>2, <2>3
<1>9. CASE stage[a] = "missions"
  <2>1. stage'[a] = "mails" BY <1>2, <1>9 DEF After
  <2>2. Has(a)' = Fields \ {"mailflag"} /\ Has(a) = AccountFields \cup CardFields
    BY <1>9, <2>1 DEF Has
  <2>3. Table(stage[a]) = MissionFields BY <1>9 DEF Table
  <2>4. Fields \ {"mailflag"} = AccountFields \cup CardFields \cup MissionFields
    BY DEF Fields, AccountFields, CardFields, MissionFields
  <2>5. QED BY <1>4, <1>5, <1>6, <1>9, <2>2, <2>3, <2>4
<1>10. CASE stage[a] = "mails"
  <2>1. stage'[a] = "online" BY <1>2, <1>10 DEF After
  <2>2. Has(a)' = Fields /\ Has(a) = Fields \ {"mailflag"} BY <1>10, <2>1 DEF Has
  <2>3. Table(stage[a]) = {"mailflag"} BY <1>10 DEF Table
  <2>4. "mailflag" \in Fields BY DEF Fields
  <2>5. QED BY <1>4, <1>5, <1>6, <1>10, <2>2, <2>3, <2>4
<1>11. QED BY <1>1, <1>7, <1>8, <1>9, <1>10

(* One table is loaded; after the last the daily things are looked at.      *)
LEMMA LoadKeeps == ASSUME EconInv, NEW a \in Agents, LoadTable(a) PROVE EconInv'
<1>0. /\ EconType /\ Shaped /\ DbSound /\ AskSound(a) /\ MailSound(a) /\ LevelSound(a) /\ Owned(a)
      /\ stage[a] \notin {"none", "online"} /\ stage' = [stage EXCEPT ![a] = After(@)]
      /\ db' = (IF stage[a] = "cards" THEN Reckoned ELSE db)
      /\ Touch(a, Table(stage[a]))
      /\ asking' = asking /\ menu' = menu /\ today' = today
  BY DEF EconInv, AgentInv, LoadTable
<1>1. /\ stage \in [Agents -> Stages] /\ mem \in [Agents -> [Fields -> Int]]
      /\ db \in [Fields -> Int] /\ mem[a] \in [Fields -> Int]
      /\ coro \in [Coros -> [at : {"none", "ask", "wait"}, ops : Seq(Ops)]]
  BY <1>0 DEF EconType
<1>2. /\ stage' \in [Agents -> Stages] /\ \A b \in Agents \ {a} : stage'[b] = stage[b]
      /\ Has(a)' = Has(a) \cup Table(stage[a]) /\ ~Online(a)
      /\ Online(a)' <=> stage[a] = "mails"
      /\ stage[a] = "cards" => Has(a)' = AccountFields \cup CardFields
  BY <1>0, <1>1, TablesInOrder
<1>3. /\ db' \in [Fields -> Int] /\ \A f \in Fields : f # "paid" => db'[f] = db[f]
      /\ stage[a] = "cards" => db'.dataId - 1 <= db'.paid
      /\ stage[a] # "cards" => db' = db
  BY <1>0, <1>1, ReckonedPays
<1>4. /\ db'.mailflag = db.mailflag /\ db'.frommail = db.frommail
      /\ db'.dataId = db.dataId /\ db'.count = db.count
  <2>1. {"mailflag", "frommail", "dataId", "count"} \subseteq Fields BY DEF Fields
  <2>2. QED BY <1>3, <2>1
<1>5. PICK n : n = [f \in Fields |-> IF f \in Table(stage[a]) THEN db'[f] ELSE mem[a][f]] OBVIOUS
<1>6. /\ n \in [Fields -> Int]
      /\ \A f \in Fields : n[f] = IF f \in Table(stage[a]) THEN db'[f] ELSE mem[a][f]
  BY <1>1, <1>3, <1>5
<1>7. mem' = [mem EXCEPT ![a] = n] BY <1>1, <1>5 DEF LoadTable
<1>8. /\ mem' \in [Agents -> [Fields -> Int]] /\ mem'[a] = n
      /\ \A b \in Agents \ {a} : mem'[b] = mem[b]
  BY <1>1, <1>6, <1>7
<1>9. foreign' \in [Agents -> SUBSET Fields] /\ foreign'[a] = foreign[a] \ Table(stage[a])
  BY <1>0, TouchType
<1>10. asking[a] = <<>> /\ \A c \in Coros : Host[c] = a => coro[c].at = "none"
  BY <1>0, <1>2 DEF AskSound
<1>11. PICK p : p = <<Op("load", 0), Op("daily", 0), Op("daily", 0), Op("refresh", 0)>> OBVIOUS
<1>12. {"load", "daily", "refresh"} \subseteq OpNames BY DEF OpNames
<1>13. p \in Seq(Ops) /\ DOMAIN p = 1 .. 4 /\ p # <<>> BY <1>11, <1>12, AnOp
<1>14. p[1].op = "load" /\ p[2].op = "daily" /\ p[3].op = "daily" /\ p[4].op = "refresh"
  BY <1>11, <1>12, AnOp
<1>15. \A i \in DOMAIN p : Plain(p[i]) BY <1>13, <1>14 DEF Plain
<1>16. Shape(p) BY <1>13, <1>15, PlainFresh DEF Fresh
<1>17. /\ coro' \in [Coros -> [at : {"none", "ask", "wait"}, ops : Seq(Ops)]]
       /\ \A d \in Coros : Host[d] # a => coro'[d] = coro[d]
       /\ \A d \in Coros : Host[d] = a /\ coro'[d].at # "none" => coro'[d].ops = p /\ stage[a] = "mails"
  <2>1. CASE stage[a] = "mails"
    <3>1. PICK r \in [at : {"none", "ask", "wait"}, ops : Seq(Ops)] : r = [at |-> "wait", ops |-> p]
      BY <1>13
    <3>2. r.ops = p BY <3>1
    <3>3. PICK c \in Coros : Host[c] = a /\ coro' = [coro EXCEPT ![c] = r]
      BY <1>11, <2>1, <3>1 DEF LoadTable
    <3>4. /\ coro' \in [Coros -> [at : {"none", "ask", "wait"}, ops : Seq(Ops)]]
          /\ coro'[c] = r /\ \A d \in Coros : d # c => coro'[d] = coro[d]
      BY <1>1, <3>3
    <3>5. QED BY <1>10, <2>1, <3>2, <3>3, <3>4
  <2>2. CASE stage[a] # "mails"
    <3>1. coro' = coro BY <2>2 DEF LoadTable
    <3>2. QED BY <1>1, <1>10, <3>1
  <2>3. QED BY <2>1, <2>2
<1>18. EconType'
  <2>1. \A d \in Coros : coro'[d].at # "none" => coro'[d].ops # <<>>
    BY <1>0, <1>13, <1>17 DEF EconType
  <2>2. QED BY <1>0, <1>2, <1>3, <1>8, <1>9, <1>17, <2>1 DEF EconType
<1>19. Shaped'
  <2>1. SUFFICES ASSUME NEW d \in Coros, coro'[d].at # "none"
                 PROVE  Shape(coro'[d].ops) /\ coro'[d].ops[1].op # "explore?"
    BY DEF Shaped, Shape, MailRule, LevelRule, ExploreRule
  <2>2. CASE Host[d] = a BY <1>14, <1>16, <1>17, <2>1, <2>2
  <2>3. CASE Host[d] # a BY <1>0, <1>17, <2>1, <2>3 DEF Shaped
  <2>4. QED BY <2>2, <2>3
<1>20. DbSound' BY <1>0, <1>4 DEF DbSound
<1>21. AskSound(a)' BY <1>0, <1>2, <1>10, <1>17 DEF AskSound
<1>22. MailSound(a)'
  <2>1. \A d \in Coros : Host[d] = a => ~Holder(d)' BY <1>14, <1>17 DEF Holder
  <2>2. {"mailflag", "frommail"} \subseteq Fields BY DEF Fields
  <2>3. /\ n.frommail = db.frommail \/ n.frommail = mem[a].frommail
        /\ n.mailflag = db.mailflag \/ n.mailflag = mem[a].mailflag
    BY <1>4, <1>6, <2>2
  <2>4. stage[a] = "mails" => n.mailflag = db.mailflag
    BY <1>4, <1>6, <2>2 DEF Table
  <2>5. /\ db.frommail \in {0, 1} /\ db.mailflag \in {0, 1} /\ (db.frommail = 1 => db.mailflag = 1)
    BY <1>0 DEF DbSound
  <2>6. /\ mem[a].frommail \in {0, 1} /\ mem[a].mailflag \in {0, 1}
        /\ mem[a].frommail = 1 => db.mailflag = 1
    BY <1>0 DEF MailSound
  <2>7. {n.frommail, n.mailflag} \subseteq {0, 1} BY <2>3, <2>5, <2>6
  <2>8. n.frommail = 1 => db'.mailflag = 1 /\ (Online(a)' => n.mailflag = 1)
    BY <1>2, <1>4, <2>3, <2>4, <2>5, <2>6
  <2>9. QED BY <1>8, <2>1, <2>7, <2>8 DEF MailSound
<1>23. LevelSound(a)'
  <2>1. \A d \in Coros : Host[d] = a /\ coro'[d].at # "none" => Promised(n, coro'[d].ops)
    <3>1. \A i \in DOMAIN p : p[i].op # "setdataid" BY <1>15 DEF Plain
    <3>2. QED BY <1>17, <3>1 DEF Promised
  <2>2. {"dataId", "count", "paid"} \subseteq Fields BY DEF Fields
  <2>3. /\ n.dataId \in 1 .. MaxLevel /\ n.count >= 0 /\ n.dataId - 1 <= n.paid
        /\ "dataId" \in Has(a)' => "dataId" \in foreign'[a] \/ db'.dataId - 1 <= n.paid
    <3>1. CASE stage[a] = "cards"
      <4>1. {"dataId", "count", "paid"} \subseteq Table(stage[a]) BY <3>1 DEF Table, CardFields
      <4>2. n.dataId = db'.dataId /\ n.count = db'.count /\ n.paid = db'.paid
        BY <1>6, <2>2, <4>1
      <4>3. QED BY <1>0, <1>3, <1>4, <3>1, <4>2 DEF DbSound
    <3>2. CASE stage[a] # "cards"
      <4>1. "dataId" \notin Table(stage[a]) /\ "count" \notin Table(stage[a])
            /\ "paid" \notin Table(stage[a])
        BY <3>2 DEF Table, AccountFields, MissionFields
      <4>2. n.dataId = mem[a].dataId /\ n.count = mem[a].count /\ n.paid = mem[a].paid
        BY <1>6, <2>2, <4>1
      <4>3. "dataId" \in Has(a)' => "dataId" \in Has(a) BY <1>2, <4>1
      <4>4. "dataId" \in foreign[a] => "dataId" \in foreign'[a] BY <1>9, <4>1
      <4>5. QED BY <1>0, <1>3, <3>2, <4>2, <4>3, <4>4 DEF LevelSound
    <3>3. QED BY <3>1, <3>2
  <2>4. QED BY <1>8, <2>1, <2>3 DEF LevelSound, Promised
<1>24. Owned(a)'
  <2>1. SUFFICES ASSUME NEW f \in Has(a)', f # "refreshtime", n[f] # db'[f]
                 PROVE  f \in foreign'[a]
    BY <1>8 DEF Owned
  <2>2. Has(a) \subseteq Fields BY HasThere
  <2>3. Table(stage[a]) \subseteq Fields
    BY DEF Table, AccountFields, CardFields, MissionFields, Fields
  <2>4. f \in Fields /\ f \notin Table(stage[a]) /\ f \in Has(a) BY <1>2, <1>6, <2>1, <2>2, <2>3
  <2>5. n[f] = mem[a][f] BY <1>6, <2>4
  <2>6. db'[f] = db[f]
    <3>1. stage[a] = "cards" => f # "paid" BY <2>4 DEF Table, CardFields
    <3>2. QED BY <1>3, <2>4, <3>1
  <2>7. Sends(a, f) \/ f \in foreign[a] BY <1>0, <2>1, <2>4, <2>5, <2>6 DEF Owned
  <2>8. ~Sends(a, f) BY <1>10 DEF Sends
  <2>9. QED BY <1>9, <2>4, <2>7, <2>8
<1>25. AgentInv(a)' BY <1>21, <1>22, <1>23, <1>24 DEF AgentInv
<1>26. \A b \in Agents \ {a} : AgentInv(b)'
  BY <1>0, <1>2, <1>4, <1>8, <1>17, TouchRests
<1>27. QED BY <1>18, <1>19, <1>20, <1>25, <1>26 DEF EconInv

(* A state that differs in nothing the invariant is about but the day.      *)
LEMMA DayKeeps ==
  ASSUME EconInv, today' \in Nat, UNCHANGED <<mem, db, stage, coro, asking, menu, foreign>>
  PROVE  EconInv'
<1>1. EconType' BY DEF EconInv, EconType
<1>2. Shaped' BY DEF EconInv, Shaped, Shape, MailRule, LevelRule, ExploreRule
<1>3. DbSound' BY DEF EconInv, DbSound
<1>4. \A a \in Agents : AgentInv(a)'
  <2>1. SUFFICES ASSUME NEW a \in Agents PROVE AgentInv(a)' OBVIOUS
  <2>2. Rested(a) BY DEF Rested
  <2>3. QED BY <2>2, RestedKeeps DEF EconInv
<1>5. QED BY <1>1, <1>2, <1>3, <1>4 DEF EconInv

(* A new player's tables, and nobody has them yet.                          *)
LEMMA EconBegins == ASSUME EconInit PROVE EconInv
<1>0. /\ mem = [a \in Agents |-> NewPlayer] /\ db = NewPlayer /\ coro = [c \in Coros |-> NoRequest]
      /\ stage = [a \in Agents |-> "none"] /\ asking = [a \in Agents |-> <<>>]
      /\ foreign = [a \in Agents |-> {}] /\ menu \in Menus /\ today = 1
  BY DEF EconInit
<1>1. NoRequest \in [at : {"none", "ask", "wait"}, ops : Seq(Ops)] /\ NoRequest.at = "none"
  BY DEF NoRequest
<1>2. /\ coro \in [Coros -> [at : {"none", "ask", "wait"}, ops : Seq(Ops)]]
      /\ \A c \in Coros : coro[c].at = "none"
  BY <1>0, <1>1
<1>3. mem \in [Agents -> [Fields -> Int]] /\ db \in [Fields -> Int] BY <1>0, NewTables
<1>4. asking \in [Agents -> Seq(Coros)]
  <2>1. <<>> \in Seq(Coros) OBVIOUS
  <2>2. QED BY <1>0, <2>1
<1>5. stage \in [Agents -> Stages] /\ foreign \in [Agents -> SUBSET Fields] BY <1>0 DEF Stages
<1>6. EconType BY <1>0, <1>2, <1>3, <1>4, <1>5 DEF EconType
<1>7. Shaped BY <1>2 DEF Shaped
<1>8. DbSound BY <1>0, NewTables, Bounds DEF DbSound
<1>9. \A a \in Agents : AgentInv(a) BY <1>0, <1>2, NothingThere
<1>10. QED BY <1>6, <1>7, <1>8, <1>9 DEF EconInv

(* Every step keeps the invariant.                                          *)
LEMMA EconStep == ASSUME EconInv, [EconNext]_econVars PROVE EconInv'
<1>1. CASE \E c \in Coros : Request(c) \/ SendFields(c) \/ Answered(c)
  BY <1>1, RequestKeeps, SendKeeps, AnsweredKeeps
<1>2. CASE \E a \in Agents : AgentExit(a) \/ EnterGame(a) \/ LoadTable(a)
  BY <1>2, ExitKeeps, EnterKeeps, LoadKeeps
<1>3. CASE Midnight
  <2>1. today' \in Nat BY <1>3 DEF Midnight, EconInv, EconType
  <2>2. QED BY <1>3, <2>1, DayKeeps DEF Midnight
<1>4. CASE UNCHANGED econVars
  <2>1. today' \in Nat BY <1>4 DEF econVars, EconInv, EconType
  <2>2. QED BY <1>4, <2>1, DayKeeps DEF econVars
<1>5. QED BY <1>1, <1>2, <1>3, <1>4 DEF EconNext
-----------------------------------------------------------------------------
(* A test that is passed before the change that stops: there are explorations *)
(* left.                                                                    *)
LEMMA TestPassed ==
  ASSUME NEW c, NEW p, NEW k \in Nat, Stops(c, p, k), NEW j \in DOMAIN p, j < k,
         p[j].op = "explore?", mem[Host[c]].exploretimes = 0
  PROVE  FALSE
<1>1. ~Fails(mem[Host[c]], p[j]) BY DEF Stops
<1>2. QED BY <1>1 DEF Fails

(* What a coroutine of another agent does leaves this one's tables.          *)
LEMMA OwnTables ==
  ASSUME EconType, NEW a \in Agents, NEW c \in Coros, NEW p \in Seq(Ops), NEW k \in DOMAIN p,
         Stops(c, p, k), mem'[a] # mem[a]
  PROVE  Host[c] = a /\ mem'[a] = Effect(mem[a], p[k])
<1>1. Host[c] \in Agents BY HostIn
<1>2. mem \in [Agents -> [Fields -> Int]] BY DEF EconType
<1>3. PICK n : n = Effect(mem[Host[c]], p[k]) OBVIOUS
<1>4. mem' = [mem EXCEPT ![Host[c]] = n] BY <1>3 DEF Stops
<1>5. Host[c] = a BY <1>1, <1>2, <1>4
<1>6. mem'[a] = n BY <1>2, <1>4, <1>5
<1>7. QED BY <1>3, <1>5, <1>6

(* Who makes exploretimes negative.                                         *)
LEMMA WhoLowers ==
  ASSUME EconInv, [EconNext]_econVars, NEW a \in Agents,
         Online(a), mem[a].exploretimes = 0, mem'[a].exploretimes < 0
  PROVE  \E c \in Coros : /\ Host[c] = a /\ coro[c].at = "wait" /\ Head(coro[c].ops).op = "refresh"
                          /\ coro'[c] = [at |-> "ask", ops |-> Tail(coro[c].ops)]
<1>0. EconType /\ Shaped /\ LevelSound(a) BY DEF EconInv, AgentInv
<1>a. mem[a] \in [Fields -> Int] /\ mem \in [Agents -> [Fields -> Int]] BY <1>0 DEF EconType
<1>1. mem'[a] # mem[a] /\ mem[a].exploretimes >= 0 OBVIOUS
<1>b. ~\E b \in Agents : AgentExit(b) \/ EnterGame(b) \/ LoadTable(b)
  <2>1. SUFFICES ASSUME NEW b \in Agents, AgentExit(b) \/ EnterGame(b) \/ LoadTable(b) PROVE FALSE
    OBVIOUS
  <2>2. CASE AgentExit(b)
    <3>1. mem' = [mem EXCEPT ![b] = NewPlayer] BY <2>2 DEF AgentExit
    <3>2. mem'[a] = NewPlayer BY <1>1, <1>a, <3>1
    <3>3. NewPlayer.exploretimes = DailyTimes BY DEF NewPlayer, Fields
    <3>4. DailyTimes \in Nat BY Bounds
    <3>5. mem'[a].exploretimes = DailyTimes BY <3>2, <3>3
    <3>6. ~(DailyTimes < 0) BY <3>4
    <3>7. QED BY <3>5, <3>6
  <2>3. CASE EnterGame(b) BY <1>1, <2>3 DEF EnterGame
  <2>4. CASE LoadTable(b)
    <3>1. b # a BY <2>4 DEF LoadTable, Online
    <3>2. PICK n : mem' = [mem EXCEPT ![b] = n] BY <2>4 DEF LoadTable
    <3>3. QED BY <1>1, <1>a, <3>1, <3>2
  <2>5. QED BY <2>1, <2>2, <2>3, <2>4
<1>2. PICK c \in Coros : Request(c) \/ Answered(c)
  BY <1>1, <1>b DEF EconNext, econVars, SendFields, Midnight
<1>3. CASE Request(c)
  <2>1. PICK b \in Agents : b = Host[c] BY HostIn
  <2>a. mem[b] \in [Fields -> Int] /\ mem[b].dataId \in 1 .. MaxLevel
    BY <1>a DEF EconInv, AgentInv, LevelSound
  <2>2. PICK kind \in menu[c] : \E p \in Programs(mem[b], kind) : p # <<>> /\ GoOn(c, p)
    BY <1>3, <2>1 DEF Request
  <2>3. PICK p \in Programs(mem[b], kind) : p # <<>> /\ GoOn(c, p) BY <2>2
  <2>4. Fresh(mem[b], p) BY <1>0, <2>a, <2>3, RequestsFresh
  <2>5. p \in Seq(Ops) /\ Shape(p) BY <2>4 DEF Fresh
  <2>6. Ends(c) \/ \E i \in DOMAIN p : Stops(c, p, i) BY <2>3, <2>5, GoesOn
  <2>7. PICK k \in DOMAIN p : Stops(c, p, k) BY <1>1, <2>6 DEF Ends
  <2>8. p[k] \in Ops BY <2>5
  <2>9. Host[c] = a /\ mem'[a] = Effect(mem[a], p[k]) BY <1>0, <1>1, <2>5, <2>7, OwnTables
  <2>10. today \in Nat BY <1>0 DEF EconType
  <2>11. Recorded(p[k], mem[a], mem'[a]) BY <1>a, <2>8, <2>9, <2>10, EffectRecorded
  <2>12. p[k].op = "exptimes" BY <1>1, <2>11 DEF Recorded
  <2>13. k >= 3 BY <2>4, <2>12 DEF Fresh
  <2>14. p[k - 2].op = "explore?" BY <2>5, <2>12, <2>13 DEF Shape, ExploreRule
  <2>15. k \in Nat /\ k - 2 \in DOMAIN p /\ k - 2 < k BY <2>5, <2>13
  <2>16. QED BY <2>7, <2>9, <2>14, <2>15, TestPassed
<1>4. CASE Answered(c)
  <2>1. PICK p : p = Tail(coro[c].ops) /\ GoOn(c, p) BY <1>4 DEF Answered
  <2>2. coro[c].at = "wait" BY <1>4 DEF Answered
  <2>3. PICK ops \in Seq(Ops) : ops = coro[c].ops BY <1>0 DEF EconType
  <2>4. ops # <<>> /\ Shape(ops) /\ ops[1].op # "explore?" BY <1>0, <2>2, <2>3 DEF EconType, Shaped
  <2>5. /\ p \in Seq(Ops) /\ Shape(p)
        /\ \A i \in DOMAIN p : i + 1 \in DOMAIN ops /\ p[i] = ops[i + 1]
    BY <2>1, <2>3, <2>4, TailShape
  <2>6. Ends(c) \/ \E i \in DOMAIN p : Stops(c, p, i) BY <2>1, <2>5, GoesOn
  <2>7. PICK k \in DOMAIN p : Stops(c, p, k) BY <1>1, <2>6 DEF Ends
  <2>8. p[k] \in Ops BY <2>5
  <2>a. Host[c] = a /\ mem'[a] = Effect(mem[a], p[k]) BY <1>0, <1>1, <2>5, <2>7, OwnTables
  <2>b. today \in Nat BY <1>0 DEF EconType
  <2>9. Recorded(p[k], mem[a], mem'[a]) BY <1>a, <2>8, <2>a, <2>b, EffectRecorded
  <2>10. p[k].op = "exptimes" BY <1>1, <2>9 DEF Recorded
  <2>11. k \in Nat /\ k >= 1 BY <2>5
  <2>12. CASE k >= 3
    <3>1. p[k - 2].op = "explore?" BY <2>5, <2>10, <2>12 DEF Shape, ExploreRule
    <3>2. k - 2 \in DOMAIN p /\ k - 2 < k BY <2>5, <2>12
    <3>3. QED BY <2>7, <2>a, <2>11, <3>1, <3>2, TestPassed
  <2>13. CASE k = 2
    <3>1. 3 \in DOMAIN ops /\ ops[3].op = "exptimes"
      <4>1. 2 \in DOMAIN p /\ p[2].op = "exptimes" BY <2>10, <2>13
      <4>2. 2 + 1 \in DOMAIN ops /\ p[2] = ops[2 + 1] BY <2>5, <4>1
      <4>3. QED BY <4>1, <4>2
    <3>2. \A i \in DOMAIN ops : ops[i].op = "exptimes" /\ i >= 3 => ops[i - 2].op = "explore?"
      BY <2>4 DEF Shape, ExploreRule
    <3>3. PICK i \in DOMAIN ops : i = 3 /\ ops[i].op = "exptimes" BY <3>1
    <3>4. i - 2 = 1 /\ i >= 3 BY <3>3
    <3>5. ops[i - 2].op = "explore?" BY <3>2, <3>3, <3>4
    <3>6. QED BY <2>4, <3>4, <3>5
  <2>14. CASE k = 1
    <3>1. 2 \in DOMAIN ops /\ ops[2].op = "exptimes"
      <4>1. 1 \in DOMAIN p /\ p[1].op = "exptimes" BY <2>10, <2>14
      <4>2. 1 + 1 \in DOMAIN ops /\ p[1] = ops[1 + 1] BY <2>5, <4>1
      <4>3. QED BY <4>1, <4>2
    <3>2. ops[2 - 1].op = "refresh" BY <2>4, <3>1 DEF Shape, ExploreRule
    <3>3. Head(coro[c].ops).op = "refresh" BY <2>3, <2>4, <3>2, HeadIsFirst
    <3>4. SubSeq(p, 1, Len(p)) = p
      <4>1. PICK q : q = SubSeq(p, k, Len(p)) OBVIOUS
      <4>2. /\ q \in Seq(Ops) /\ Len(q) = Len(p) - k + 1
            /\ \A i \in DOMAIN q : q[i] = p[i + k - 1]
        BY <2>5, <4>1, Suffix
      <4>3. Len(q) = Len(p) BY <2>5, <2>14, <4>2
      <4>4. \A i \in 1 .. Len(q) : q[i] = p[i] BY <2>14, <4>2
      <4>5. QED BY <2>5, <2>14, <4>1, <4>2, <4>3, <4>4, SeqEqual
    <3>5. coro' = [coro EXCEPT ![c] = [at |-> "ask", ops |-> p]]
      BY <2>7, <2>10, <2>14, <3>4 DEF Stops
    <3>6. coro'[c] = [at |-> "ask", ops |-> p] BY <1>0, <3>5 DEF EconType
    <3>7. QED BY <2>1, <2>2, <2>a, <3>3, <3>6
  <2>15. QED BY <2>11, <2>12, <2>13, <2>14
<1>5. QED BY <1>2, <1>3, <1>4

(* In every reachable state the tables of all agents, the requests under way *)
(* and what the database has agree as EconInv says.                         *)
THEOREM TablesSound == EconSpec => []EconInv
<1>1. EconInit => EconInv BY EconBegins
<1>2. EconInv /\ [EconNext]_econVars => EconInv' BY EconStep
<1>3. QED BY <1>1, <1>2, PTL DEF EconSpec

(* However requests for a mail overlap, wherever an agent exits, and however  *)
(* many agents have the account, its items are received at most once          *)
(* (REQUEST.recvMailItems).                                                 *)
THEOREM MailReceivedOnce == EconSpec => []MailOnce
<1>1. EconInv => MailOnce
  <2>1. SUFFICES ASSUME EconInv PROVE MailOnce OBVIOUS
  <2>2. \A a \in Agents : MailSound(a) BY <2>1 DEF EconInv, AgentInv
  <2>3. \A a \in Agents : Online(a) =>
          mem[a].frommail = 0 \/ (mem[a].frommail = 1 /\ mem[a].mailflag = 1 /\ db.mailflag = 1)
    BY <2>2 DEF MailSound
  <2>4. db.frommail = 0 \/ (db.frommail = 1 /\ db.mailflag = 1) BY <2>1 DEF EconInv, DbSound
  <2>5. QED BY <2>3, <2>4 DEF MailOnce
<1>2. QED BY <1>1, TablesSound, PTL

(* In the tables of any agent no interleaving of upgrades raises a card        *)
(* further than fragments were paid, and a level in the database whose        *)
(* payment is not there is about to have it, unless another agent of the      *)
(* account wrote it (REQUEST.upgradeCardColorLevel).                        *)
THEOREM LevelsArePaid == EconSpec => []LevelsPaid
<1>1. EconInv => LevelsPaid
  <2>1. SUFFICES ASSUME EconInv, NEW a \in Agents, Online(a)
                 PROVE  /\ mem[a].dataId - 1 <= mem[a].paid
                        /\ \/ db.dataId - 1 <= db.paid \/ Sends(a, "paid")
                           \/ {"dataId", "paid"} \cap foreign[a] # {}
    BY DEF LevelsPaid
  <2>2. LevelSound(a) /\ Owned(a) BY <2>1 DEF EconInv, AgentInv
  <2>3. Has(a) = Fields BY <2>1 DEF Has, Online
  <2>4. {"dataId", "paid"} \subseteq Fields \ {"refreshtime"} BY DEF Fields
  <2>5. mem[a].dataId - 1 <= mem[a].paid BY <2>2 DEF LevelSound
  <2>6. "dataId" \in foreign[a] \/ db.dataId - 1 <= mem[a].paid
    BY <2>2, <2>3, <2>4 DEF LevelSound
  <2>7. mem[a].paid # db.paid => Sends(a, "paid") \/ "paid" \in foreign[a]
    <3>1. mem[a]["paid"] # db["paid"] => Sends(a, "paid") \/ "paid" \in foreign[a]
      BY <2>2, <2>3, <2>4 DEF Owned
    <3>2. QED BY <3>1
  <2>8. QED BY <2>5, <2>6, <2>7
<1>2. QED BY <1>1, TablesSound, PTL

(* Whatever an agent's tables have and the database has not is going to be    *)
(* saved by a request that asks for it, unless another agent of the account   *)
(* has overwritten it.                                                      *)
THEOREM ChangesAreSaved == EconSpec => []DirtyOwned
<1>1. EconInv => DirtyOwned
  <2>1. SUFFICES ASSUME EconInv, NEW a \in Agents, Online(a), NEW f \in Fields \ {"refreshtime"},
                        mem[a][f] # db[f]
                 PROVE  Sends(a, f) \/ f \in foreign[a]
    BY DEF DirtyOwned
  <2>2. Owned(a) BY <2>1 DEF EconInv, AgentInv
  <2>3. Has(a) = Fields BY <2>1 DEF Has, Online
  <2>4. QED BY <2>1, <2>2, <2>3 DEF Owned
<1>2. QED BY <1>1, TablesSound, PTL

(* Only midnight between the test and the decrement lets a request lower      *)
(* exploretimes below zero (REQUEST.exploreRefresh, addExploreTimes).       *)
THEOREM ExplorationsTested == EconSpec => ExploreTimesTested
<1>1. EconInv /\ [EconNext]_econVars =>
        [\A a \in Agents : Online(a) /\ mem[a].exploretimes = 0 /\ mem'[a].exploretimes < 0 =>
           \E c \in Coros : /\ Host[c] = a /\ coro[c].at = "wait" /\ Head(coro[c].ops).op = "refresh"
                            /\ coro'[c] = [at |-> "ask", ops |-> Tail(coro[c].ops)]]_econVars
  BY WhoLowers
<1>2. QED BY <1>1, TablesSound, PTL DEF EconSpec, ExploreTimesTested
-----------------------------------------------------------------------------
(* The clients that follow an entity: a client and the stamp it has.         *)
Questions == [by : Watchers, stamp : Nat]

(* The stamps are numbers and the flag is a flag.                           *)
StampType ==
  /\ stamp \in Nat /\ newClientReq \in BOOLEAN /\ waiting \subseteq Questions
  /\ known \in [Watchers -> Nat]

(* While the entity lives, the flag is not set for nobody: the reasons are   *)
(* only forgotten in an answer that somebody receives.                      *)
FlagForSomebody == life = "alive" /\ newClientReq => waiting # {}

StampInv == StampType /\ FlagForSomebody /\ WaitersUpToDate /\ ReasonsReported

(* The invariant holds of an entity that has just been made.                *)
LEMMA StampInitInv == StampInit => StampInv
<1> SUFFICES ASSUME StampInit PROVE StampInv OBVIOUS
<1>1. StampType BY DEF StampInit, StampType
<1>2. FlagForSomebody /\ WaitersUpToDate /\ ReasonsReported
  BY DEF StampInit, FlagForSomebody, WaitersUpToDate, ReasonsReported
<1>3. QED BY <1>1, <1>2 DEF StampInv

(* An answer leaves nobody waiting, and sends the reasons to somebody.      *)
LEMMA AnswerKeeps ==
  ASSUME StampInv, NEW qs, qs # {}, NEW now \in Nat, NEW reasons,
         Answer(qs, now, reasons), stamp' \in Nat,
         done' \subseteq told \cup reasons
  PROVE  StampInv'
<1>1. StampType' BY DEF StampInv, StampType, Answer
<1>2. FlagForSomebody' BY DEF FlagForSomebody, Answer
<1>3. WaitersUpToDate' BY DEF WaitersUpToDate, Answer
<1>4. ReasonsReported' BY DEF ReasonsReported, Answer
<1>5. QED BY <1>1, <1>2, <1>3, <1>4 DEF StampInv

(* A change of a living entity answers everybody, or nobody waits.          *)
LEMMA AdvanceKeeps ==
  ASSUME StampInv, life = "alive", NEW more, AdvanceEventStamp(mask \cup more),
         done' = done \cup more
  PROVE  StampInv'
<1>1. stamp \in Nat /\ stamp' = stamp + 1 /\ newClientReq \in BOOLEAN
  BY DEF StampInv, StampType, AdvanceEventStamp
<1>2. done' \subseteq told \cup (mask \cup more)
  BY DEF StampInv, ReasonsReported
<1>3. CASE newClientReq
  <2>1. waiting # {} BY <1>3 DEF StampInv, FlagForSomebody
  <2>2. Answer(waiting, stamp + 1, mask \cup more) BY <1>3 DEF AdvanceEventStamp
  <2>3. QED BY <1>1, <1>2, <2>1, <2>2, AnswerKeeps
<1>4. CASE ~newClientReq
  <2>1. /\ mask' = mask \cup more
        /\ UNCHANGED <<newClientReq, waiting, known, told>>
    BY <1>4 DEF AdvanceEventStamp
  <2>2. StampType' BY <1>1, <2>1 DEF StampInv, StampType
  <2>3. waiting = {} BY <1>4 DEF StampInv, WaitersUpToDate
  <2>4. FlagForSomebody' /\ WaitersUpToDate'
    BY <1>4, <2>1, <2>3 DEF FlagForSomebody, WaitersUpToDate
  <2>5. ReasonsReported' BY <1>2, <2>1 DEF ReasonsReported
  <2>6. QED BY <2>2, <2>4, <2>5 DEF StampInv
<1>5. QED BY <1>1, <1>3, <1>4

(* A question is answered at once, with all the others, or was asked with    *)
(* the newest stamp.                                                        *)
LEMMA QueryKeeps ==
  ASSUME StampInv, NEW c \in Watchers, QueryEvent(c)
  PROVE  StampInv'
<1> DEFINE q == [by |-> c, stamp |-> known[c]]
<1>1. stamp \in Nat /\ stamp' = stamp /\ done' = done /\ known[c] \in Nat
  BY DEF StampInv, StampType, QueryEvent
<1>2. CASE stamp > known[c]
  <2>1. Answer(waiting \cup {q}, stamp, mask) BY <1>2 DEF QueryEvent
  <2>2. done' \subseteq told \cup mask BY <1>1 DEF StampInv, ReasonsReported
  <2>3. waiting \cup {q} # {} OBVIOUS
  <2>4. QED BY <1>1, <2>1, <2>2, <2>3, AnswerKeeps
<1>3. CASE ~(stamp > known[c])
  <2>1. /\ newClientReq' = TRUE /\ waiting' = waiting \cup {q}
        /\ UNCHANGED <<known, mask, told>>
    BY <1>3 DEF QueryEvent
  <2>2. q \in Questions /\ q.stamp >= stamp BY <1>1, <1>3 DEF Questions
  <2>3. StampType' BY <1>1, <2>1, <2>2 DEF StampInv, StampType
  <2>4. FlagForSomebody' BY <2>1 DEF FlagForSomebody
  <2>5. WaitersUpToDate' BY <1>1, <2>1, <2>2 DEF StampInv, WaitersUpToDate
  <2>6. ReasonsReported' BY <1>1, <2>1 DEF StampInv, ReasonsReported
  <2>7. QED BY <2>3, <2>4, <2>5, <2>6 DEF StampInv
<1>4. QED BY <1>2, <1>3

(* Every step keeps the invariant.                                          *)
LEMMA StampNextInv == StampInv /\ [StampNext]_stampVars => StampInv'
<1> SUFFICES ASSUME StampInv, [StampNext]_stampVars PROVE StampInv' OBVIOUS
<1> USE DEF StampInv
<1>1. ASSUME NEW c \in Watchers, QueryEvent(c) PROVE StampInv'
  BY <1>1, QueryKeeps
<1>2. ASSUME NEW c \in Watchers, Reload(c) PROVE StampInv'
  BY <1>2 DEF Reload, StampType, FlagForSomebody, WaitersUpToDate, ReasonsReported
<1>3. ASSUME NEW r \in Reasons, AddMp(r) PROVE StampInv'
  BY <1>3 DEF AddMp, StampType, FlagForSomebody, WaitersUpToDate, ReasonsReported
<1>4. ASSUME NEW r \in Reasons, NEW kills \in BOOLEAN, AddHp(r, kills) PROVE StampInv'
  <2>1. life = "alive" /\ AdvanceEventStamp(mask \cup {r}) /\ done' = done \cup {r}
    BY <1>4 DEF AddHp
  <2>2. QED BY <2>1, AdvanceKeeps
<1>5. ASSUME UpdateEntity PROVE StampInv'
  <2>1. life = "alive" /\ mask = mask \cup {} /\ done' = done \cup {}
    BY <1>5 DEF UpdateEntity
  <2>2. AdvanceEventStamp(mask \cup {}) BY <1>5, <2>1 DEF UpdateEntity
  <2>3. QED BY <2>1, <2>2, AdvanceKeeps
<1>6. ASSUME ClearCoroutine PROVE StampInv'
  BY <1>6 DEF ClearCoroutine, StampType, FlagForSomebody, WaitersUpToDate, ReasonsReported
<1>7. ASSUME RemoveEntity PROVE StampInv'
  BY <1>7 DEF RemoveEntity, StampType, FlagForSomebody, WaitersUpToDate, ReasonsReported
<1>8. ASSUME UNCHANGED stampVars PROVE StampInv'
  BY <1>8 DEF stampVars, StampType, FlagForSomebody, WaitersUpToDate, ReasonsReported
<1>9. QED BY <1>1, <1>2, <1>3, <1>4, <1>5, <1>6, <1>7, <1>8 DEF StampNext

(* The invariant holds throughout.                                          *)
LEMMA StampInvHolds == StampSpec => []StampInv
  BY StampInitInv, StampNextInv, PTL DEF StampSpec

(* checkeventStamp and advanceEventStamp never leave a client waiting for a  *)
(* change that has happened.                                                *)
THEOREM WaitersKnow == StampSpec => []WaitersUpToDate
<1>1. StampInv => WaitersUpToDate BY DEF StampInv
<1>2. QED BY <1>1, StampInvHolds, PTL

(* onRespClientEventStamp forgets no reason that nobody was told.           *)
THEOREM ReasonsArrive == StampSpec => []ReasonsReported
<1>1. StampInv => ReasonsReported BY DEF StampInv
<1>2. QED BY <1>1, StampInvHolds, PTL
-----------------------------------------------------------------------------
(* The affects.                                                             *)
Skills == DOMAIN SkillData \cup {""}
AffectSet == [kind : Kinds, skill : Skills, status : {"exec", "exit"}, left : Int]
Places ==
  [at : {"idle", "add", "tell", "update", "dying", "scan", "undo", "failed"},
   i : Int, skill : Skills, todo : Seq(Kinds)]

(* A coroutine that tells the clients of an affect has one to insert.       *)
AffType ==
  /\ affects \in Seq(AffectSet) /\ refs \in Int
  /\ run \in [Coroutines -> Places]
  /\ exited \in BOOLEAN /\ lost \in Nat /\ (cut # {} => exited)
  /\ \A c \in Coroutines : run[c].at = "tell" => run[c].todo # <<>>

AffInv == AffType /\ NoAffectOutlasts

(***************************************************************************)
(* What is left of a list when some of its elements are taken out.          *)
(***************************************************************************)
(* The elements of two sequences put together.                              *)
LEMMA ConcatElements ==
  ASSUME NEW S, NEW a \in Seq(S), NEW b \in Seq(S)
  PROVE  /\ a \o b \in Seq(S) /\ Len(a \o b) = Len(a) + Len(b)
         /\ \A j \in 1 .. Len(a) + Len(b) :
              (a \o b)[j] = IF j <= Len(a) THEN a[j] ELSE b[j - Len(a)]
  OBVIOUS

(* Taking one element out of a sequence moves those behind it forward.      *)
LEMMA RemoveAtElements ==
  ASSUME NEW S, NEW s \in Seq(S), NEW at \in 1 .. Len(s)
  PROVE  /\ RemoveAt(s, at) \in Seq(S)
         /\ Len(RemoveAt(s, at)) = Len(s) - 1
         /\ \A j \in 1 .. Len(s) - 1 :
              RemoveAt(s, at)[j] = IF j < at THEN s[j] ELSE s[j + 1]
<1> DEFINE a == SubSeq(s, 1, at - 1)
           b == SubSeq(s, at + 1, Len(s))
<1>1. a \in Seq(S) /\ Len(a) = at - 1 /\ \A j \in 1 .. at - 1 : a[j] = s[j]
  OBVIOUS
<1>2. /\ b \in Seq(S) /\ Len(b) = Len(s) - at
      /\ \A j \in 1 .. Len(s) - at : b[j] = s[at + j]
  OBVIOUS
<1>3. RemoveAt(s, at) = a \o b BY DEF RemoveAt
<1> HIDE DEF a, b
<1>4. /\ a \o b \in Seq(S) /\ Len(a \o b) = Len(a) + Len(b)
      /\ \A j \in 1 .. Len(a) + Len(b) :
           (a \o b)[j] = IF j <= Len(a) THEN a[j] ELSE b[j - Len(a)]
  BY ONLY <1>1, <1>2, ConcatElements
<1>5. Len(s) \in Nat /\ Len(a) + Len(b) = Len(s) - 1 BY <1>1, <1>2
<1>6. ASSUME NEW j \in 1 .. Len(s) - 1
      PROVE  (a \o b)[j] = IF j < at THEN s[j] ELSE s[j + 1]
  <2>1. CASE j < at BY <2>1, <1>1, <1>4, <1>5
  <2>2. CASE ~(j < at)
    <3>1. j - at + 1 \in 1 .. Len(s) - at BY <2>2
    <3>2. b[j - at + 1] = s[at + (j - at + 1)] BY <1>2, <3>1
    <3>3. at + (j - at + 1) = j + 1 OBVIOUS
    <3>4. (a \o b)[j] = b[j - at + 1] BY <2>2, <1>1, <1>4, <1>5
    <3>. QED BY <2>2, <3>2, <3>3, <3>4
  <2>. QED BY <2>1, <2>2
<1>. QED BY <1>3, <1>4, <1>5, <1>6

(* Each of the indexes that stay gets a place of its own, in their order.    *)
LEMMA RanksAreBijective ==
  ASSUME NEW left, left \subseteq Nat, IsFiniteSet(left)
  PROVE  [j \in 1 .. Cardinality(left) |->
            CHOOSE i \in left : Cardinality({k \in left : k < i}) = j - 1]
           \in Bijection(1 .. Cardinality(left), left)
<1> DEFINE n == Cardinality(left)
           Below(i) == {k \in left : k < i}
           rank == [i \in left |-> Cardinality(Below(i)) + 1]
           pick == [j \in 1 .. n |-> CHOOSE i \in left : Cardinality(Below(i)) = j - 1]
<1>1. n \in Nat BY FS_CardinalityType
<1>2. ASSUME NEW i \in left
      PROVE  IsFiniteSet(Below(i)) /\ Cardinality(Below(i)) \in 0 .. n - 1
  <2>1. IsFiniteSet(left \ {i}) /\ Cardinality(left \ {i}) = n - 1
    BY FS_RemoveElement
  <2>2. Below(i) \subseteq left \ {i} OBVIOUS
  <2>3. IsFiniteSet(Below(i)) /\ Cardinality(Below(i)) <= n - 1
    BY <2>1, <2>2, FS_Subset
  <2>4. Cardinality(Below(i)) \in Nat BY <2>3, FS_CardinalityType
  <2>. QED BY <1>1, <2>3, <2>4
<1>3. ASSUME NEW i \in left, NEW m \in left, i < m
      PROVE  Cardinality(Below(i)) < Cardinality(Below(m))
  <2>1. IsFiniteSet(Below(i)) /\ IsFiniteSet(Below(m)) BY <1>2
  <2>2. i \notin Below(i) /\ Below(i) \cup {i} \subseteq Below(m)
    <3>1. i \in Nat /\ m \in Nat /\ \A k \in left : k \in Nat OBVIOUS
    <3>2. \A k \in Nat : k < i => k < m BY <1>3, <3>1
    <3>3. ~(i < i) BY <3>1
    <3>. QED BY <1>3, <3>1, <3>2, <3>3
  <2>3. Cardinality(Below(i) \cup {i}) = Cardinality(Below(i)) + 1
    BY <2>1, <2>2, FS_AddElement
  <2>4. Cardinality(Below(i) \cup {i}) <= Cardinality(Below(m))
    BY <2>1, <2>2, FS_Subset
  <2>5. Cardinality(Below(i)) \in Nat /\ Cardinality(Below(m)) \in Nat BY <1>2
  <2>. QED BY <2>3, <2>4, <2>5
<1> HIDE DEF Below
<1>4. rank \in [left -> 1 .. n] BY <1>1, <1>2
<1>5. \A i, m \in left : rank[i] = rank[m] => i = m
  <2> SUFFICES ASSUME NEW i \in left, NEW m \in left, rank[i] = rank[m] PROVE i = m
    OBVIOUS
  <2>1. Cardinality(Below(i)) \in Nat /\ Cardinality(Below(m)) \in Nat BY <1>2
  <2>2. Cardinality(Below(i)) = Cardinality(Below(m)) BY <2>1
  <2>3. ~(i < m) /\ ~(m < i) BY <1>3, <2>1, <2>2
  <2>4. i \in Nat /\ m \in Nat OBVIOUS
  <2>. QED BY <2>3, <2>4
<1>6. rank \in Surjection(left, 1 .. n)
  <2>1. rank \in Injection(left, 1 .. n) BY <1>4, <1>5, Fun_IsInj
  <2>2. IsFiniteSet(1 .. n) /\ Cardinality(1 .. n) = n
    <3>1. 1 \in Int /\ n \in Int BY <1>1
    <3>. QED BY <1>1, <3>1, FS_Interval
  <2>. QED BY <2>1, <2>2, FS_Injection
<1>7. \A j \in 1 .. n : \E i \in left : rank[i] = j
  <2> HIDE DEF rank
  <2>. QED BY <1>6, Fun_SurjectionProperties
<1>8. \A j \in 1 .. n : pick[j] \in left /\ rank[pick[j]] = j
  <2> SUFFICES ASSUME NEW j \in 1 .. n PROVE pick[j] \in left /\ rank[pick[j]] = j
    OBVIOUS
  <2>1. PICK i \in left : rank[i] = j BY <1>7
  <2>2. Cardinality(Below(i)) = j - 1 BY <2>1, <1>2
  <2>3. pick[j] = CHOOSE m \in left : Cardinality(Below(m)) = j - 1 OBVIOUS
  <2>4. pick[j] \in left /\ Cardinality(Below(pick[j])) = j - 1 BY <2>2, <2>3
  <2>5. rank[pick[j]] = j - 1 + 1 BY <2>4
  <2>. QED BY <2>4, <2>5
<1>9. pick \in [1 .. n -> left] BY <1>8
<1>10. \A j, m \in 1 .. n : pick[j] = pick[m] => j = m BY <1>8
<1>11. \A i \in left : \E j \in 1 .. n : pick[j] = i
  <2> HIDE DEF rank, pick
  <2> TAKE i \in left
  <2>1. rank[i] \in 1 .. n BY <1>4
  <2>2. pick[rank[i]] \in left /\ rank[pick[rank[i]]] = rank[i] BY <1>8, <2>1
  <2>3. pick[rank[i]] = i BY <1>5, <2>2
  <2>. QED BY <2>1, <2>3
<1>12. pick \in Bijection(1 .. n, left)
  <2> HIDE DEF pick
  <2>. QED BY <1>9, <1>10, <1>11, Fun_IsBij
<1>. QED BY <1>12 DEF Below

(* The affects in force in t are those in force in s from which t took its   *)
(* elements.                                                                *)
LEMMA CountThrough ==
  ASSUME NEW s, NEW t, NEW left, left \subseteq DOMAIN s, IsFiniteSet(DOMAIN t),
         NEW f \in Bijection(DOMAIN t, left), \A j \in DOMAIN t : t[j] = s[f[j]]
  PROVE  Cardinality(InForce(t)) = Cardinality(InForce(s) \cap left)
<1> DEFINE g == [j \in InForce(t) |-> f[j]]
           T == InForce(s) \cap left
<1>1. /\ f \in [DOMAIN t -> left] /\ \A a, b \in DOMAIN t : f[a] = f[b] => a = b
      /\ \A i \in left : \E j \in DOMAIN t : f[j] = i
  BY Fun_BijectionProperties
<1>2. InForce(t) \subseteq DOMAIN t BY DEF InForce
<1>3. g \in [InForce(t) -> T]
  BY <1>1, <1>2 DEF InForce
<1>4. \A a, b \in InForce(t) : g[a] = g[b] => a = b BY <1>1, <1>2
<1>5. ASSUME NEW i \in T PROVE \E j \in InForce(t) : g[j] = i
  <2>1. PICK j \in DOMAIN t : f[j] = i BY <1>1
  <2>2. t[j] = s[i] BY <2>1
  <2>3. j \in InForce(t) BY <2>2 DEF InForce
  <2>. QED BY <2>1, <2>3
<1>6. g \in Bijection(InForce(t), T)
  <2> HIDE DEF g, T
  <2>. QED BY <1>3, <1>4, <1>5, Fun_IsBij
<1>7. ExistsBijection(InForce(t), T) BY <1>6, Fun_ExistsBij
<1>8. IsFiniteSet(InForce(t)) BY <1>2, FS_Subset
<1>. QED BY <1>7, <1>8, FS_Bijection

(* The indexes of a list are finitely many, and so are those in force.       *)
LEMMA ForceFinite ==
  ASSUME NEW s \in Seq(AffectSet)
  PROVE  /\ IsFiniteSet(DOMAIN s)
         /\ IsFiniteSet(InForce(s)) /\ Cardinality(InForce(s)) \in Nat
         /\ Counted(s) \in Nat /\ Cardinality(InForce(s)) <= Counted(s)
<1> DEFINE C == {i \in DOMAIN s : s[i].kind = "ctrl"}
<1>1. DOMAIN s = 1 .. Len(s) /\ 1 \in Int /\ Len(s) \in Int OBVIOUS
<1>2. IsFiniteSet(DOMAIN s) BY <1>1, FS_Interval
<1>3. IsFiniteSet(C) BY <1>2, FS_Subset
<1>4. InForce(s) \subseteq C BY DEF InForce
<1>5. IsFiniteSet(InForce(s)) /\ Cardinality(InForce(s)) <= Cardinality(C)
  BY <1>3, <1>4, FS_Subset
<1>. QED BY <1>2, <1>3, <1>5, FS_CardinalityType DEF Counted

(* One affect counts one if it controls, else nothing.                      *)
LEMMA CountedOne ==
  ASSUME NEW a
  PROVE  Counted(<<a>>) = IF a.kind = "ctrl" THEN 1 ELSE 0
<1> DEFINE C == {i \in DOMAIN <<a>> : <<a>>[i].kind = "ctrl"}
<1>1. C = IF a.kind = "ctrl" THEN {1} ELSE {} OBVIOUS
<1>2. Cardinality({1}) = 1 /\ Cardinality({}) = 0 BY FS_Singleton, FS_EmptySet
<1>. QED BY <1>1, <1>2 DEF Counted

(* Removing by index: the affects in force but the one removed.             *)
LEMMA RemoveAtForce ==
  ASSUME NEW s \in Seq(AffectSet), NEW at \in DOMAIN s
  PROVE  /\ RemoveAt(s, at) \in Seq(AffectSet)
         /\ Cardinality(InForce(RemoveAt(s, at)))
              = IF at \in InForce(s) THEN Cardinality(InForce(s)) - 1
                                     ELSE Cardinality(InForce(s))
<1> DEFINE t == RemoveAt(s, at)
           left == DOMAIN s \ {at}
           f == [j \in DOMAIN t |-> IF j < at THEN j ELSE j + 1]
<1>1. DOMAIN s = 1 .. Len(s) /\ Len(s) \in Nat OBVIOUS
<1>2. /\ t \in Seq(AffectSet) /\ Len(t) = Len(s) - 1
      /\ \A j \in 1 .. Len(s) - 1 : t[j] = IF j < at THEN s[j] ELSE s[j + 1]
  BY <1>1, RemoveAtElements
<1> HIDE DEF t
<1>3. DOMAIN t = 1 .. Len(s) - 1 BY <1>2
<1>4. f \in [DOMAIN t -> left] BY <1>1, <1>3
<1>5. \A a, b \in DOMAIN t : f[a] = f[b] => a = b BY <1>3
<1>6. ASSUME NEW i \in left PROVE \E j \in DOMAIN t : f[j] = i
  <2>1. CASE i < at
    <3>1. i \in DOMAIN t /\ f[i] = i BY <1>1, <1>3, <2>1
    <3>. QED BY <3>1
  <2>2. CASE ~(i < at)
    <3>1. i - 1 \in DOMAIN t /\ f[i - 1] = i BY <1>1, <1>3, <2>2
    <3>. QED BY <3>1
  <2>. QED BY <2>1, <2>2
<1>7. \A j \in DOMAIN t : t[j] = s[f[j]] BY <1>2, <1>3
<1>8. f \in Bijection(DOMAIN t, left)
  <2> HIDE DEF f, left
  <2>. QED BY <1>4, <1>5, <1>6, Fun_IsBij
<1>9. left \subseteq DOMAIN s /\ IsFiniteSet(DOMAIN t) BY <1>2, ForceFinite
<1>10. Cardinality(InForce(t)) = Cardinality(InForce(s) \cap left)
  <2> HIDE DEF f, left
  <2>. QED BY <1>7, <1>8, <1>9, CountThrough
<1>11. InForce(s) \cap left = InForce(s) \ {at} BY DEF InForce
<1>12. Cardinality(InForce(s) \ {at})
         = IF at \in InForce(s) THEN Cardinality(InForce(s)) - 1 ELSE Cardinality(InForce(s))
  BY ForceFinite, FS_RemoveElement
<1>. QED BY <1>2, <1>10, <1>11, <1>12 DEF t

(* Keeping some indexes keeps the affects in force there.                   *)
LEMMA RemainingForce ==
  ASSUME NEW s \in Seq(AffectSet), NEW left \in SUBSET DOMAIN s
  PROVE  /\ Remaining(s, left) \in Seq(AffectSet)
         /\ Cardinality(InForce(Remaining(s, left))) = Cardinality(InForce(s) \cap left)
<1> DEFINE t == Remaining(s, left)
           n == Cardinality(left)
           f == [j \in 1 .. n |-> CHOOSE i \in left : Cardinality({k \in left : k < i}) = j - 1]
<1>1. IsFiniteSet(left) /\ n \in Nat BY ForceFinite, FS_Subset, FS_CardinalityType
<1>2. left \subseteq Nat /\ DOMAIN s = 1 .. Len(s) OBVIOUS
<1>3. f \in Bijection(1 .. n, left) BY <1>1, <1>2, RanksAreBijective
<1>4. t = [j \in 1 .. n |-> s[f[j]]] BY DEF Remaining
<1>5. f \in [1 .. n -> left]
  <2> HIDE DEF f
  <2>. QED BY <1>3, Fun_BijectionProperties
<1> HIDE DEF t, f, n
<1>6. DOMAIN t = 1 .. n /\ \A j \in 1 .. n : t[j] = s[f[j]] BY <1>4
<1>7. \A j \in 1 .. n : t[j] \in AffectSet BY <1>2, <1>5, <1>6
<1>8. t \in Seq(AffectSet) BY <1>1, <1>4, <1>6, <1>7
<1>9. IsFiniteSet(DOMAIN t) BY <1>8, ForceFinite
<1>10. Cardinality(InForce(t)) = Cardinality(InForce(s) \cap left)
  <2>1. f \in Bijection(DOMAIN t, left) /\ left \subseteq DOMAIN s BY <1>3, <1>6
  <2>2. \A j \in DOMAIN t : t[j] = s[f[j]] BY <1>6
  <2>. QED BY <2>1, <2>2, <1>9, CountThrough
<1>. QED BY <1>8, <1>10 DEF t
-----------------------------------------------------------------------------
(* The coroutines about to insert a control affect, when one of them goes    *)
(* somewhere else.                                                          *)
Inserts(r) == r.at = "tell" /\ Head(r.todo) = "ctrl"

LEMMA ComingFollows ==
  ASSUME AffType, NEW c \in Coroutines, NEW r, Moves(c, r)
  PROVE  /\ Cardinality(Coming) \in Nat /\ Cardinality(Coming') \in Nat
         /\ Cardinality(Coming') = Cardinality(Coming)
              + (IF Inserts(r) THEN 1 ELSE 0) - (IF Inserts(run[c]) THEN 1 ELSE 0)
<1>1. IsFiniteSet(Coroutines)
  BY AffectAssumption, FS_AddElement DEF AffectAssumption, Coroutines
<1>2. Coming \subseteq Coroutines /\ Coming' \subseteq Coroutines BY DEF Coming
<1>3. /\ IsFiniteSet(Coming) /\ IsFiniteSet(Coming')
      /\ Cardinality(Coming) \in Nat /\ Cardinality(Coming') \in Nat
  BY <1>1, <1>2, FS_Subset, FS_CardinalityType
<1>4. c \in Coming <=> Inserts(run[c]) BY DEF Coming, Inserts
<1>5. run'[c] = r /\ \A d \in Coroutines : d # c => run'[d] = run[d]
  BY DEF AffType, Moves
<1>6. Coming' = IF Inserts(r) THEN Coming \cup {c} ELSE Coming \ {c}
  BY <1>5 DEF Coming, Inserts
<1>7. /\ Cardinality(Coming \cup {c})
           = IF c \in Coming THEN Cardinality(Coming) ELSE Cardinality(Coming) + 1
      /\ Cardinality(Coming \ {c})
           = IF c \in Coming THEN Cardinality(Coming) - 1 ELSE Cardinality(Coming)
  BY <1>3, FS_AddElement, FS_RemoveElement
<1>. QED BY <1>3, <1>4, <1>6, <1>7

(* A coroutine that goes to no insertion and comes from none, while the      *)
(* table, the count and the player stay.                                    *)
LEMMA WalkKeeps ==
  ASSUME AffInv, NEW c \in Coroutines, NEW r \in Places, Goes(c, r),
         r.at # "tell", run[c].at # "tell", UNCHANGED <<affects, refs>>
  PROVE  AffInv'
<1>1. AffType' BY DEF AffInv, AffType, Goes, Moves
<1>2. Cardinality(Coming') = Cardinality(Coming) /\ Cardinality(Coming) \in Nat
  BY ComingFollows DEF AffInv, Inserts, Goes
<1>3. NoAffectOutlasts' BY <1>2 DEF AffInv, NoAffectOutlasts, InForce, Goes, Moves
<1>. QED BY <1>1, <1>3 DEF AffInv

(* Death: nothing is in force and nothing of the table is counted.          *)
LEMMA DeathKeeps ==
  ASSUME AffInv, NEW c \in Coroutines, NEW r \in Places, Goes(c, r), ~Inserts(r),
         r.at = "tell" => r.todo # <<>>, ~Inserts(run[c]), Die
  PROVE  AffInv'
<1>1. affects' = <<>> /\ refs' = refs - Counted(affects) BY DEF Die
<1>2. /\ Counted(affects) \in Nat /\ Cardinality(InForce(affects)) \in Nat
      /\ Cardinality(InForce(affects)) <= Counted(affects)
  BY ForceFinite DEF AffInv, AffType
<1>3. AffType' BY <1>1, <1>2 DEF AffInv, AffType, Goes, Moves
<1>4. Cardinality(Coming') = Cardinality(Coming) /\ Cardinality(Coming) \in Nat
  BY ComingFollows DEF AffInv, Goes
<1>5. Cardinality(InForce(affects')) = 0
  <2>1. InForce(affects') = {} BY <1>1 DEF InForce
  <2>. QED BY <2>1, FS_EmptySet
<1>6. NoAffectOutlasts'
  <2>1. lost' = lost /\ exited' = exited BY DEF Goes, Moves
  <2>. QED BY <1>1, <1>2, <1>4, <1>5, <2>1 DEF AffInv, AffType, NoAffectOutlasts
<1>. QED BY <1>3, <1>6 DEF AffInv

(* Between two requests nothing is under way.                               *)
LEMMA IdleIsPlace == Idle \in Places /\ Idle.at = "idle"
<1>1. <<>> \in Seq(Kinds) OBVIOUS
<1>2. "" \in Skills BY DEF Skills
<1>3. 0 \in Int OBVIOUS
<1>4. Idle.at = "idle" /\ Idle.i = 0 /\ Idle.skill = "" /\ Idle.todo = <<>> BY DEF Idle
<1>5. Idle \in Places
  <2> DEFINE Ats == {"idle", "add", "tell", "update", "dying", "scan", "undo", "failed"}
  <2>1. "idle" \in Ats OBVIOUS
  <2> HIDE DEF Ats
  <2>2. Idle \in [at : Ats, i : Int, skill : Skills, todo : Seq(Kinds)]
    BY <1>1, <1>2, <1>3, <2>1 DEF Idle
  <2>. QED BY <2>2 DEF Ats, Places
<1>. QED BY <1>4, <1>5

(* A coroutine that goes on with another index.                             *)
LEMMA MovedIsPlace ==
  ASSUME NEW p \in Places, NEW n \in Int,
         NEW where \in {"idle", "add", "tell", "update", "dying", "scan", "undo", "failed"}
  PROVE  /\ [p EXCEPT !.at = where, !.i = n] \in Places
         /\ [p EXCEPT !.at = where, !.i = n].at = where
<1> DEFINE q == [p EXCEPT !.at = where]
<1>1. q \in Places /\ q.at = where BY DEF Places
<1>2. [p EXCEPT !.at = where, !.i = n] = [q EXCEPT !.i = n] OBVIOUS
<1> HIDE DEF q
<1>3. [q EXCEPT !.i = n] \in Places /\ [q EXCEPT !.i = n].at = where BY <1>1 DEF Places
<1>. QED BY <1>2, <1>3

(* An empty table counts nothing.                                           *)
LEMMA AffInitInv == AffInit => AffInv
<1> SUFFICES ASSUME AffInit PROVE AffInv OBVIOUS
<1>0. /\ affects = <<>> /\ refs = 0 /\ run = [c \in Coroutines |-> Idle]
      /\ exited = FALSE /\ cut = {} /\ lost = 0
  BY DEF AffInit
<1>1. AffType
  <2>1. affects \in Seq(AffectSet) BY <1>0
  <2>2. run \in [Coroutines -> Places] BY <1>0, IdleIsPlace
  <2>3. \A c \in Coroutines : run[c].at # "tell" BY <1>0, IdleIsPlace
  <2>4. refs \in Int /\ lost \in Nat BY <1>0
  <2>5. exited \in BOOLEAN /\ ~(cut # {}) BY <1>0
  <2>. QED BY <2>1, <2>2, <2>3, <2>4, <2>5 DEF AffType
<1>2. InForce(affects) = {} /\ Coming = {}
  <2>1. InForce(affects) = {} BY <1>0 DEF InForce
  <2>2. Coming = {} BY <1>0, IdleIsPlace DEF Coming
  <2>. QED BY <2>1, <2>2
<1>3. NoAffectOutlasts BY <1>0, <1>2, FS_EmptySet DEF NoAffectOutlasts
<1>. QED BY <1>1, <1>3 DEF AffInv

(* A coroutine inserts what it has to.                                      *)
LEMMA HeadIsKind ==
  ASSUME AffType, NEW c \in Coroutines, run[c].todo # <<>>
  PROVE  /\ Head(run[c].todo) \in Kinds /\ Tail(run[c].todo) \in Seq(Kinds)
         /\ Affect(Head(run[c].todo), run[c].skill) \in AffectSet
         /\ Affect(Head(run[c].todo), run[c].skill).kind = Head(run[c].todo)
         /\ Head(run[c].todo) = "ctrl" =>
              Affect(Head(run[c].todo), run[c].skill).status = "exec"
<1>1. run[c].todo \in Seq(Kinds) /\ run[c].skill \in Skills BY DEF AffType, Places
<1>2. Head(run[c].todo) \in Kinds /\ Tail(run[c].todo) \in Seq(Kinds) BY <1>1
<1>3. Duration \in Int BY AffectAssumption DEF AffectAssumption
<1>. QED BY <1>1, <1>2, <1>3 DEF Affect, AffectSet

(* addAffect: what is replaced is undone, what comes is counted.            *)
LEMMA AddAffectKeeps ==
  ASSUME AffInv, NEW c \in Coroutines, AddAffect(c)
  PROVE  AffInv'
<1> DEFINE aff == Affect(Head(run[c].todo), run[c].skill)
           r == [run[c] EXCEPT !.at = "tell"]
           left == {i \in DOMAIN affects : ~Like(aff, affects[i])}
           undone == {i \in DOMAIN affects : Like(aff, affects[i]) /\ affects[i].kind = "ctrl"}
<1>0. AffType /\ NoAffectOutlasts BY DEF AffInv
<1>1. run[c].at = "add" /\ run[c].todo # <<>> /\ Goes(c, r)
  BY DEF AddAffect, At
<1>2. r \in Places /\ r.at = "tell" /\ r.todo = run[c].todo
  BY <1>0 DEF AffType, Places
<1>3. aff \in AffectSet /\ aff.kind = Head(run[c].todo) BY <1>0, <1>1, HeadIsKind
<1>4. ~Inserts(run[c]) /\ (Inserts(r) <=> aff.kind = "ctrl") BY <1>1, <1>2, <1>3 DEF Inserts
<1>5. \/ affects' = Remaining(affects, left) /\ refs' = refs + Counted(<<aff>>) - Replaced(aff)
      \/ aff.kind = "hit" /\ Die
  BY DEF AddAffect
<1>6. CASE aff.kind = "hit" /\ Die
  BY <1>1, <1>2, <1>4, <1>6, DeathKeeps
<1>7. CASE affects' = Remaining(affects, left)
           /\ refs' = refs + Counted(<<aff>>) - Replaced(aff)
  <2>0. affects \in Seq(AffectSet) /\ refs \in Int BY <1>0 DEF AffType
  <2>1. /\ affects' \in Seq(AffectSet)
        /\ Cardinality(InForce(affects')) = Cardinality(InForce(affects) \cap left)
    <3>1. left \in SUBSET DOMAIN affects OBVIOUS
    <3> HIDE DEF left
    <3>. QED BY <1>7, <2>0, <3>1, RemainingForce
  <2>2. Counted(<<aff>>) = IF aff.kind = "ctrl" THEN 1 ELSE 0 BY CountedOne
  <2>3. Replaced(aff) = Cardinality(undone) BY DEF Replaced
  <2>4. IsFiniteSet(InForce(affects)) /\ IsFiniteSet(DOMAIN affects)
    BY <2>0, ForceFinite
  <2>5. IsFiniteSet(InForce(affects) \cap left) /\ IsFiniteSet(undone)
    BY <2>4, FS_Subset
  <2>6. InForce(affects) \subseteq (InForce(affects) \cap left) \cup undone
    BY DEF InForce
  <2> HIDE DEF left, undone
  <2>7. /\ Cardinality(InForce(affects) \cap left) \in Nat /\ Cardinality(undone) \in Nat
        /\ Cardinality(InForce(affects)) \in Nat
    BY <2>4, <2>5, FS_CardinalityType
  <2>8. Cardinality(InForce(affects))
          <= Cardinality(InForce(affects) \cap left) + Cardinality(undone)
    <3> DEFINE A == InForce(affects) \cap left
    <3>1. IsFiniteSet(A \cup undone)
          /\ Cardinality(A \cup undone)
               = Cardinality(A) + Cardinality(undone) - Cardinality(A \cap undone)
      BY <2>5, FS_Union
    <3>2. Cardinality(A \cap undone) \in Nat
      <4>1. IsFiniteSet(A \cap undone) BY <2>5, FS_Subset
      <4>. QED BY <4>1, FS_CardinalityType
    <3>3. Cardinality(InForce(affects)) <= Cardinality(A \cup undone)
      BY <2>6, <3>1, FS_Subset
    <3>4. Cardinality(A) \in Nat BY <2>7
    <3> HIDE DEF A
    <3>5. Cardinality(InForce(affects)) <= Cardinality(A) + Cardinality(undone)
      BY <2>7, <3>1, <3>2, <3>3, <3>4
    <3>. QED BY <3>5 DEF A
  <2>9. /\ Cardinality(Coming) \in Nat /\ Cardinality(Coming') \in Nat
        /\ Cardinality(Coming') = Cardinality(Coming) + (IF aff.kind = "ctrl" THEN 1 ELSE 0)
    <3> HIDE DEF aff, r
    <3>1. /\ Cardinality(Coming) \in Nat /\ Cardinality(Coming') \in Nat
          /\ Cardinality(Coming') = Cardinality(Coming)
               + (IF Inserts(r) THEN 1 ELSE 0) - (IF Inserts(run[c]) THEN 1 ELSE 0)
      BY <1>0, <1>1, ComingFollows DEF Goes
    <3>. QED BY <1>4, <3>1
  <2> HIDE DEF aff
  <2>10. refs' \in Int BY <1>7, <2>0, <2>2, <2>3, <2>7
  <2>11. AffType'
    <3> HIDE DEF r
    <3>. QED BY <1>0, <1>1, <1>2, <2>1, <2>10 DEF AffType, Goes, Moves
  <2>12. NoAffectOutlasts'
    <3> HIDE DEF r
    <3>1. lost' = lost /\ exited' = exited /\ lost \in Nat
      BY <1>0, <1>1 DEF AffType, Goes, Moves
    <3>. QED BY SMTT(30), <1>0, <1>7, <2>0, <2>1, <2>2, <2>3, <2>7, <2>8, <2>9, <3>1
             DEF NoAffectOutlasts
  <2>. QED BY <2>11, <2>12 DEF AffInv
<1>. QED BY <1>5, <1>6, <1>7

(* replaceAdd: the affect that came is in force.                            *)
LEMMA InsertKeeps ==
  ASSUME AffInv, NEW c \in Coroutines, Insert(c)
  PROVE  AffInv'
<1> DEFINE aff == Affect(Head(run[c].todo), run[c].skill)
           r == [run[c] EXCEPT !.at = "add", !.todo = Tail(@)]
<1>0. AffType /\ NoAffectOutlasts BY DEF AffInv
<1>1. run[c].at = "tell" /\ affects' = Append(affects, aff) /\ Goes(c, r) /\ refs' = refs
  BY DEF Insert, At
<1>2. run[c].todo # <<>> BY <1>0, <1>1 DEF AffType
<1>3. /\ aff \in AffectSet /\ aff.kind = Head(run[c].todo) /\ Tail(run[c].todo) \in Seq(Kinds)
      /\ aff.kind = "ctrl" => aff.status = "exec"
  BY <1>0, <1>2, HeadIsKind
<1>4. r \in Places /\ r.at = "add" BY <1>0, <1>3 DEF AffType, Places
<1> HIDE DEF aff, r
<1>5. ~Inserts(r) /\ (Inserts(run[c]) <=> aff.kind = "ctrl") BY <1>1, <1>3, <1>4 DEF Inserts
<1>6. affects \in Seq(AffectSet) /\ refs \in Int BY <1>0 DEF AffType
<1>7. InForce(affects') = IF aff.kind = "ctrl" THEN InForce(affects) \cup {Len(affects) + 1}
                                               ELSE InForce(affects)
  <2>1. /\ DOMAIN affects = 1 .. Len(affects) /\ DOMAIN affects' = 1 .. Len(affects) + 1
        /\ \A i \in DOMAIN affects : affects'[i] = affects[i]
        /\ affects'[Len(affects) + 1] = aff /\ Len(affects) \in Nat
    BY <1>1, <1>3, <1>6
  <2>2. \A i \in DOMAIN affects' : i \in DOMAIN affects \/ i = Len(affects) + 1 BY <2>1
  <2>. QED BY <1>3, <2>1, <2>2 DEF InForce
<1>8. Len(affects) + 1 \notin InForce(affects) BY <1>6 DEF InForce
<1>9. /\ Cardinality(InForce(affects)) \in Nat
      /\ Cardinality(InForce(affects'))
           = Cardinality(InForce(affects)) + (IF aff.kind = "ctrl" THEN 1 ELSE 0)
  <2>1. IsFiniteSet(InForce(affects)) /\ Cardinality(InForce(affects)) \in Nat
    BY <1>6, ForceFinite
  <2>2. Cardinality(InForce(affects) \cup {Len(affects) + 1}) = Cardinality(InForce(affects)) + 1
    BY <1>8, <2>1, FS_AddElement
  <2>3. CASE aff.kind = "ctrl" BY <1>7, <2>1, <2>2, <2>3
  <2>4. CASE aff.kind # "ctrl"
    <3>1. InForce(affects') = InForce(affects) BY <1>7, <2>4
    <3>. QED BY <2>1, <2>4, <3>1
  <2>. QED BY <2>3, <2>4
<1>10. /\ Cardinality(Coming) \in Nat /\ Cardinality(Coming') \in Nat
       /\ Cardinality(Coming') = Cardinality(Coming) - (IF aff.kind = "ctrl" THEN 1 ELSE 0)
  <2>1. /\ Cardinality(Coming) \in Nat /\ Cardinality(Coming') \in Nat
        /\ Cardinality(Coming') = Cardinality(Coming)
             + (IF Inserts(r) THEN 1 ELSE 0) - (IF Inserts(run[c]) THEN 1 ELSE 0)
    BY <1>0, <1>1, ComingFollows DEF Goes
  <2>. QED BY <1>5, <2>1
<1>11. AffType'
  <2>1. affects' \in Seq(AffectSet) BY <1>1, <1>3, <1>6
  <2>. QED BY <1>0, <1>1, <1>4, <2>1 DEF AffType, Goes, Moves
<1>12. NoAffectOutlasts'
  <2>1. lost' = lost /\ exited' = exited /\ lost \in Nat
    BY <1>0, <1>1 DEF AffType, Goes, Moves
  <2>. QED BY <1>0, <1>1, <1>6, <1>9, <1>10, <2>1 DEF NoAffectOutlasts
<1>. QED BY <1>11, <1>12 DEF AffInv

(* The table or its counts change while the coroutine c goes to no insertion *)
(* and comes from none: refs loses at least what is in force no longer.      *)
LEMMA UndoingKeeps ==
  ASSUME AffInv, NEW c \in Coroutines, NEW r \in Places, Goes(c, r),
         r.at # "tell", run[c].at # "tell",
         affects' \in Seq(AffectSet), refs' \in Int,
         Cardinality(InForce(affects)) - Cardinality(InForce(affects')) <= refs - refs'
  PROVE  AffInv'
<1>1. AffType' BY DEF AffInv, AffType, Goes, Moves
<1>2. Cardinality(Coming') = Cardinality(Coming) /\ Cardinality(Coming) \in Nat
  BY ComingFollows DEF AffInv, Inserts, Goes
<1>3. /\ Cardinality(InForce(affects)) \in Nat /\ Cardinality(InForce(affects')) \in Nat
      /\ refs \in Int
  BY ForceFinite DEF AffInv, AffType
<1>4. NoAffectOutlasts'
  <2>1. lost' = lost /\ exited' = exited /\ lost \in Nat BY DEF AffInv, AffType, Goes, Moves
  <2>. QED BY <1>2, <1>3, <2>1 DEF AffInv, NoAffectOutlasts
<1>. QED BY <1>1, <1>4 DEF AffInv

(* removeBySkillId: whatever stands at the index by now is undone.          *)
LEMMA UndoKeeps ==
  ASSUME AffInv, NEW c \in Coroutines, Undo(c)
  PROVE  AffInv'
<1> DEFINE i == run[c].i
           r == [run[c] EXCEPT !.at = "scan", !.i = @ - 1]
<1>0. affects \in Seq(AffectSet) /\ refs \in Int /\ run[c] \in Places BY DEF AffInv, AffType
<1>1. /\ run[c].at = "undo" /\ i \in DOMAIN affects /\ Goes(c, r)
      /\ refs' = refs - Counted(<<affects[i]>>) /\ affects' = RemoveAt(affects, i)
  BY DEF Undo, At
<1>2. r \in Places /\ r.at = "scan"
  <2>1. run[c].i - 1 \in Int BY <1>0 DEF Places
  <2>. QED BY <1>0, <2>1, MovedIsPlace
<1>3. Counted(<<affects[i]>>) = IF affects[i].kind = "ctrl" THEN 1 ELSE 0 BY CountedOne
<1>4. i \in InForce(affects) => affects[i].kind = "ctrl" BY DEF InForce
<1> HIDE DEF i, r
<1>5. /\ affects' \in Seq(AffectSet)
      /\ Cardinality(InForce(affects'))
           = IF i \in InForce(affects) THEN Cardinality(InForce(affects)) - 1
                                       ELSE Cardinality(InForce(affects))
  BY <1>0, <1>1, RemoveAtForce
<1>6. Cardinality(InForce(affects)) \in Nat BY <1>0, ForceFinite
<1>7. refs' \in Int /\
      Cardinality(InForce(affects)) - Cardinality(InForce(affects')) <= refs - refs'
  BY <1>0, <1>1, <1>3, <1>4, <1>5, <1>6
<1>. QED BY <1>1, <1>2, <1>5, <1>7, UndoingKeeps

(* The update of one affect: it runs out, goes on, kills, or is taken out    *)
(* when it has run out before.                                              *)
LEMMA UpdateOneKeeps ==
  ASSUME AffInv, UpdateOne
  PROVE  AffInv'
<1> DEFINE i == run["chain"].i
           aff == affects[i]
           r == [run["chain"] EXCEPT !.i = @ - 1]
           d == [run["chain"] EXCEPT !.at = "dying", !.i = @ - 1]
<1>a. "chain" \in Coroutines BY DEF Coroutines
<1>0. affects \in Seq(AffectSet) /\ refs \in Int /\ run["chain"] \in Places
  BY <1>a DEF AffInv, AffType
<1>1. run["chain"].at = "update" /\ i \in DOMAIN affects BY DEF UpdateOne, At
<1>2. /\ r \in Places /\ r.at = "update" /\ d \in Places /\ d.at = "dying"
  <2>1. run["chain"].i - 1 \in Int BY <1>0 DEF Places
  <2>2. d \in Places /\ d.at = "dying" BY <1>0, <2>1, MovedIsPlace
  <2>3. r \in Places /\ r.at = "update" BY <1>0, <1>1, <2>1 DEF Places
  <2>. QED BY <2>2, <2>3
<1>3. Cardinality(InForce(affects)) \in Nat /\ IsFiniteSet(InForce(affects))
  BY <1>0, ForceFinite
<1>4. aff \in AffectSet BY <1>0, <1>1
<1>5. CASE affects[i].status = "exec"
  <2>1. OnExec(i) BY <1>5 DEF UpdateOne
  <2>2. CASE aff.left = 1
    <3>1. /\ affects' = [affects EXCEPT ![i].left = 0, ![i].status = "exit"]
          /\ refs' = refs - Counted(<<aff>>) /\ Goes("chain", r)
      BY <2>1, <2>2 DEF OnExec, Onward
    <3>2. Counted(<<aff>>) = IF aff.kind = "ctrl" THEN 1 ELSE 0 BY CountedOne
    <3>3. /\ affects' \in Seq(AffectSet) /\ DOMAIN affects' = DOMAIN affects
          /\ \A j \in DOMAIN affects : j # i => affects'[j] = affects[j]
          /\ affects'[i].status = "exit"
      <4> DEFINE late == [aff EXCEPT !.left = 0]
                 new == [late EXCEPT !.status = "exit"]
      <4>0. late \in AffectSet BY <1>4 DEF AffectSet
      <4>1. new \in AffectSet /\ new.status = "exit"
        <5> HIDE DEF late
        <5>. QED BY <4>0 DEF AffectSet
      <4>2. affects' = [affects EXCEPT ![i] = new] BY <1>0, <1>1, <3>1
      <4> HIDE DEF new, late, aff, i
      <4>. QED BY <1>0, <1>1, <4>1, <4>2
    <3>4. InForce(affects') = InForce(affects) \ {i} BY <3>3 DEF InForce
    <3>5. i \in InForce(affects) <=> aff.kind = "ctrl" BY <1>1, <1>5 DEF InForce
    <3> HIDE DEF i, aff, r
    <3>6. Cardinality(InForce(affects'))
            = Cardinality(InForce(affects)) - (IF aff.kind = "ctrl" THEN 1 ELSE 0)
      <4>1. Cardinality(InForce(affects) \ {i})
              = IF i \in InForce(affects) THEN Cardinality(InForce(affects)) - 1
                                          ELSE Cardinality(InForce(affects))
        BY <1>3, FS_RemoveElement
      <4>. QED BY <1>3, <3>4, <3>5, <4>1
    <3>7. refs' \in Int /\
          Cardinality(InForce(affects)) - Cardinality(InForce(affects')) <= refs - refs'
      BY <1>0, <1>3, <3>1, <3>2, <3>6
    <3>. QED BY <1>a, <1>1, <1>2, <3>1, <3>3, <3>7, UndoingKeeps
  <2>3. CASE /\ affects' = [affects EXCEPT ![i].left = @ - 1]
             /\ Goes("chain", r) /\ UNCHANGED refs
    <3>1. /\ affects' \in Seq(AffectSet) /\ DOMAIN affects' = DOMAIN affects
          /\ \A j \in DOMAIN affects : /\ affects'[j].kind = affects[j].kind
                                       /\ affects'[j].status = affects[j].status
      <4> DEFINE new == [aff EXCEPT !.left = @ - 1]
      <4>1. new \in AffectSet /\ new.status = aff.status /\ new.kind = aff.kind
        BY <1>4 DEF AffectSet
      <4>2. affects' = [affects EXCEPT ![i] = new] BY <1>0, <1>1, <2>3
      <4>3. aff = affects[i] OBVIOUS
      <4> HIDE DEF new, aff, i
      <4>. QED BY <1>0, <1>1, <4>1, <4>2, <4>3
    <3>2. InForce(affects') = InForce(affects) BY <3>1 DEF InForce
    <3> HIDE DEF i, aff, r
    <3>3. refs' \in Int /\
          Cardinality(InForce(affects)) - Cardinality(InForce(affects')) <= refs - refs'
      BY <1>0, <1>3, <2>3, <3>2
    <3>. QED BY <1>a, <1>1, <1>2, <2>3, <3>1, <3>3, UndoingKeeps
  <2>4. CASE Die /\ Goes("chain", d)
    <3> HIDE DEF d
    <3>. QED BY <1>a, <1>1, <1>2, <2>4, DeathKeeps DEF Inserts
  <2>. QED BY <2>1, <2>2, <2>3, <2>4 DEF OnExec, Onward
<1>6. CASE affects[i].status # "exec"
  <2>1. affects' = RemoveAt(affects, i) /\ Goes("chain", r) /\ refs' = refs
    BY <1>6 DEF UpdateOne, Onward
  <2>2. i \notin InForce(affects) BY <1>6 DEF InForce
  <2> HIDE DEF i, r
  <2>3. affects' \in Seq(AffectSet)
        /\ Cardinality(InForce(affects')) = Cardinality(InForce(affects))
    BY <1>0, <1>1, <2>1, <2>2, RemoveAtForce
  <2>4. refs' \in Int /\
        Cardinality(InForce(affects)) - Cardinality(InForce(affects')) <= refs - refs'
    BY <1>0, <1>3, <2>1, <2>3
  <2>. QED BY <1>a, <1>1, <1>2, <2>1, <2>3, <2>4, UndoingKeeps
<1>. QED BY <1>5, <1>6

(* Where an error ends a coroutine.                                         *)
LEMMA EndedIsPlace ==
  ASSUME NEW c
  PROVE  Ended(c) \in Places /\ Ended(c).at # "tell"
BY IdleIsPlace DEF Ended, Places

(* The steps that only move a coroutine.                                    *)
LEMMA WalksKeep ==
  ASSUME AffInv, NEW c \in Coroutines,
         \/ \E s \in DOMAIN SkillData : BuildAffects(c, s) \/ RemoveBySkillId(c, s)
         \/ Built(c) \/ Scan(c) \/ IndexError(c) \/ Update \/ Died \/ Updated \/ Raise
  PROVE  AffInv'
<1>a. "chain" \in Coroutines BY DEF Coroutines
<1>0. \A x \in Coroutines : run[x] \in Places BY DEF AffInv, AffType
<1>b. affects \in Seq(AffectSet) /\ Len(affects) \in Int BY DEF AffInv, AffType
<1>c. Idle \in Places /\ Idle.at = "idle" BY IdleIsPlace
<1> SUFFICES \E x \in Coroutines, r \in Places :
               Goes(x, r) /\ r.at # "tell" /\ run[x].at # "tell" /\ UNCHANGED <<affects, refs>>
  BY WalkKeeps
<1>1. ASSUME NEW s \in DOMAIN SkillData, BuildAffects(c, s) PROVE
        \E r \in Places :
          Goes(c, r) /\ r.at # "tell" /\ run[c].at # "tell" /\ UNCHANGED <<affects, refs>>
  <2> DEFINE r == [at |-> "add", i |-> 0, skill |-> s, todo |-> SkillData[s]]
  <2>1. SkillData[s] \in Seq(Kinds) /\ s \in Skills
    BY AffectAssumption DEF AffectAssumption, Skills
  <2>2. r \in Places BY <2>1 DEF Places
  <2>3. Goes(c, r) /\ r.at # "tell" /\ run[c].at # "tell" /\ UNCHANGED <<affects, refs>>
    BY <1>1 DEF BuildAffects, At
  <2>. QED BY <2>2, <2>3
<1>2. ASSUME NEW s \in DOMAIN SkillData, RemoveBySkillId(c, s) PROVE
        \E r \in Places :
          Goes(c, r) /\ r.at # "tell" /\ run[c].at # "tell" /\ UNCHANGED <<affects, refs>>
  <2> DEFINE r == [at |-> "scan", i |-> Len(affects), skill |-> s, todo |-> <<>>]
  <2>0. <<>> \in Seq(Kinds) OBVIOUS
  <2>1. s \in Skills BY DEF Skills
  <2>2. r \in Places BY <1>b, <2>0, <2>1 DEF Places
  <2>3. Goes(c, r) /\ r.at # "tell" /\ run[c].at # "tell" /\ UNCHANGED <<affects, refs>>
    BY <1>2 DEF RemoveBySkillId, At
  <2>. QED BY <2>2, <2>3
<1>3. CASE Built(c)
  BY <1>3, <1>c DEF Built, At
<1>4. CASE Scan(c)
  <2> DEFINE r == IF run[c].i = 0 THEN Idle
                  ELSE IF affects[run[c].i].skill = run[c].skill
                  THEN [run[c] EXCEPT !.at = "undo"] ELSE [run[c] EXCEPT !.i = @ - 1]
  <2>1. run[c].at = "scan" /\ Goes(c, r) /\ UNCHANGED <<affects, refs>>
    BY <1>4 DEF Scan, At
  <2>2. r \in Places /\ r.at # "tell" BY <1>0, <1>c, <2>1 DEF Places
  <2>. QED BY <2>1, <2>2
<1>5. CASE IndexError(c)
  <2>1. run[c].at # "tell" /\ Goes(c, Ended(c)) /\ UNCHANGED <<affects, refs>>
    BY <1>5 DEF IndexError, At
  <2>. QED BY <2>1, EndedIsPlace
<1>6. CASE Update
  <2> DEFINE r == [Idle EXCEPT !.at = "update", !.i = Len(affects)]
  <2>1. run["chain"].at = "idle" /\ Goes("chain", r) /\ UNCHANGED <<affects, refs>>
    BY <1>6 DEF Update, At
  <2>2. r \in Places /\ r.at # "tell" BY <1>b, <1>c DEF Places
  <2>. QED BY <1>a, <2>1, <2>2
<1>7. CASE Died
  <2> DEFINE r == [run["chain"] EXCEPT !.at = "update"]
  <2>1. run["chain"].at = "dying" /\ Goes("chain", r) /\ UNCHANGED <<affects, refs>>
    BY <1>7 DEF Died, At
  <2>2. r \in Places /\ r.at # "tell" BY <1>0, <1>a DEF Places
  <2>. QED BY <1>a, <2>1, <2>2
<1>8. CASE Updated
  BY <1>8, <1>a, <1>c DEF Updated, At
<1>9. CASE Raise
  <2> DEFINE r == IF exited THEN Ended("chain") ELSE Idle
  <2>1. run["chain"].at = "idle" /\ Goes("chain", r) /\ UNCHANGED <<affects, refs>>
    BY <1>9 DEF Raise, At
  <2>2. r \in Places /\ r.at # "tell" BY <1>c, EndedIsPlace
  <2>. QED BY <1>a, <2>1, <2>2
<1>. QED BY <1>1, <1>2, <1>3, <1>4, <1>5, <1>6, <1>7, <1>8, <1>9

(* A call that fails: an affect that is not inserted is counted as lost, and  *)
(* only when an agent has exited.                                           *)
LEMMA TellFailsKeeps ==
  ASSUME AffInv, NEW c \in Coroutines, TellFails(c)
  PROVE  AffInv'
<1>0. AffType /\ NoAffectOutlasts BY DEF AffInv
<1>1. /\ c \in cut /\ Moves(c, Ended(c)) /\ UNCHANGED <<affects, refs>>
      /\ lost' = IF Inserts(run[c]) THEN lost + 1 ELSE lost
  BY DEF TellFails, Inserts
<1>2. Ended(c) \in Places /\ Ended(c).at # "tell" BY EndedIsPlace
<1>3. exited /\ exited' /\ lost \in Nat /\ lost' \in Nat BY <1>0, <1>1 DEF AffType, Moves
<1>4. /\ Cardinality(Coming) \in Nat /\ Cardinality(Coming') \in Nat
      /\ Cardinality(Coming') = Cardinality(Coming) - (IF Inserts(run[c]) THEN 1 ELSE 0)
  BY <1>0, <1>1, <1>2, ComingFollows DEF Inserts
<1>5. AffType' BY <1>0, <1>1, <1>2, <1>3 DEF AffType, Moves
<1>6. refs \in Int /\ Cardinality(InForce(affects)) \in Nat
  BY <1>0, ForceFinite DEF AffType
<1>7. NoAffectOutlasts' BY <1>0, <1>1, <1>3, <1>4, <1>6 DEF NoAffectOutlasts, InForce
<1>. QED BY <1>5, <1>7 DEF AffInv

(* An exit alone changes no count.                                          *)
LEMMA AgentExitsKeeps ==
  ASSUME AffInv, NEW late \in SUBSET Coroutines, AgentExits(late)
  PROVE  AffInv'
<1>1. exited' = TRUE /\ UNCHANGED <<affects, refs, run, lost>> BY DEF AgentExits
<1>2. AffType' BY <1>1 DEF AffInv, AffType
<1>3. NoAffectOutlasts' BY <1>1 DEF AffInv, NoAffectOutlasts, InForce, Coming
<1>. QED BY <1>2, <1>3 DEF AffInv

(* For any combination of the three kinds of affects, any coroutines and any *)
(* number of casts: while the players' agents are there the count of a        *)
(* controlled state never exceeds the control affects in force or about to be *)
(* inserted, so that a player is free when the last one has ended, however    *)
(* affects run out, replace each other, are removed through an index that     *)
(* went stale in a yield, or end with the player (AffectTable.lua:26-189,      *)
(* Ientity.lua:1067-1116); once an agent has exited it exceeds them by the     *)
(* affects whose telling failed after onEnter, and no more.                  *)
THEOREM AffectsEnd == AffSpec => []NoAffectOutlasts
<1>1. AffInv /\ [AffNext]_affVars => AffInv'
  <2> SUFFICES ASSUME AffInv, [AffNext]_affVars PROVE AffInv' OBVIOUS
  <2>1. CASE UNCHANGED affVars
    <3>1. UNCHANGED <<affects, refs, run, exited, cut, lost>> BY <2>1 DEF affVars
    <3>. QED BY <3>1 DEF AffInv, AffType, NoAffectOutlasts, InForce, Coming
  <2>2. ASSUME NEW c \in Coroutines, AddAffect(c) PROVE AffInv' BY <2>2, AddAffectKeeps
  <2>3. ASSUME NEW c \in Coroutines, Insert(c) PROVE AffInv' BY <2>3, InsertKeeps
  <2>4. ASSUME NEW c \in Coroutines, Undo(c) PROVE AffInv' BY <2>4, UndoKeeps
  <2>5. CASE UpdateOne BY <2>5, UpdateOneKeeps
  <2>6. ASSUME NEW c \in Coroutines,
               \/ \E s \in DOMAIN SkillData : BuildAffects(c, s) \/ RemoveBySkillId(c, s)
               \/ Built(c) \/ Scan(c) \/ IndexError(c) \/ Update \/ Died \/ Updated \/ Raise
        PROVE  AffInv'
    BY <2>6, WalksKeep
  <2>7. ASSUME NEW c \in Coroutines, TellFails(c) PROVE AffInv' BY <2>7, TellFailsKeeps
  <2>8. ASSUME NEW late \in SUBSET Coroutines, AgentExits(late) PROVE AffInv'
    BY <2>8, AgentExitsKeeps
  <2>9. "chain" \in Coroutines BY DEF Coroutines
  <2>. QED BY <2>1, <2>2, <2>3, <2>4, <2>5, <2>6, <2>7, <2>8, <2>9 DEF AffNext
<1>2. AffInv => NoAffectOutlasts BY DEF AffInv
<1>. QED BY AffInitInv, <1>1, <1>2, PTL DEF AffSpec
=============================================================================
