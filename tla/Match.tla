------------------------------- MODULE Match --------------------------------
(***************************************************************************)
(* The matchmaking service (game/service/match.lua, with useAI = true).    *)
(*                                                                         *)
(* A request joins the keep list, moves to the strict list when it has     *)
(* waited, is matched there with others of a similar rating, and is given  *)
(* to robots when it has waited too long.  Every request and every firing  *)
(* of the update timer is a coroutine; `co' holds where each one is, and   *)
(* `run' the one that is executing: the others only move when it yields.   *)
(* update arms its timer first, so several update coroutines overlap.      *)
(*                                                                         *)
(* The loose list is not a variable: addtoLooselist finds it empty, adds   *)
(* the player, takes it out again for the robots and only then yields, so  *)
(* it is empty whenever other code runs and updateLooselist does nothing.  *)
(* updateListTimeout keeps the first configuration while fewer than 20     *)
(* players wait.  Times are counted in update periods.                     *)
(***************************************************************************)
EXTENDS Integers, FiniteSets, SequencesExt

CONSTANTS
  Entries,       \* match requests: the tables getmatchinfo returns
  Updates,       \* bound: update coroutines alive at a time
  Account,       \* the account (and agent) of a request
  Elo, Level,    \* its eloValue and fightLevel
  MatchNum,      \* CMD.MATCH_NUM
  KeepTimeout, StrictTimeout, StrictStep,
  EloStrict, EloStep,
  MayCancel,     \* accounts that may cancel or go away
  MaxPicks       \* bound: pickHero services counted per request

Accounts == {Account[e] : e \in Entries}
Coroutines == Entries \cup Updates
Nobody == "nobody"

ASSUME MatchAssumption ==
  /\ MatchNum \in Nat /\ MatchNum > 1
  /\ {KeepTimeout, StrictTimeout, StrictStep, EloStrict, EloStep, MaxPicks} \subseteq Nat
  /\ Elo \in [Entries -> Nat] /\ Entries \cap Updates = {}
  /\ Nobody \notin Coroutines

VARIABLES
  keep_list, strict_list,
  nowInMatchers,
  ent,         \* time, stepTime, failNum of a request, and src_list ~= nil
  co, run,
  gone,        \* accounts whose agent has exited
  errors,      \* monitor messages about exited agents, not yet handled
  picks        \* pickHero services a request was put into

vars == <<keep_list, strict_list, nowInMatchers, ent, co, run, gone, errors, picks>>

queues == <<keep_list, strict_list>>
outside == <<gone, errors, picks>>

(* A coroutine: where it is; where handleMatch returns to (ret); its loop  *)
(* index; the relist of updateStictlist; the players handleMatch handles,  *)
(* and the one it is handling.                                             *)
Fresh == [at |-> "none", ret |-> "none", i |-> 0, relist |-> <<>>, group |-> <<>>, k |-> 0]
Ended == [Fresh EXCEPT !.at = "done"]

Loops == {"keep", "strict", "relist"}

(* c becomes r, and goes on without yielding if r is inside a loop.        *)
Become(c, r) == /\ co' = [co EXCEPT ![c] = r]
                /\ run' = IF r.at \in Loops THEN c ELSE Nobody

-----------------------------------------------------------------------------
(* The elements of a finite set in a strict total order on them, a set of  *)
(* pairs.                                                                  *)
InOrder(S, before) ==
  [j \in 1 .. Cardinality(S) |->
     CHOOSE x \in S : Cardinality({y \in S : <<y, x>> \in before}) = j - 1]

(* The elements of q at the indexes in I.                                  *)
Chosen(q, I) ==
  LET at == InOrder(I, {x \in I \X I : x[1] < x[2]}) IN [j \in DOMAIN at |-> q[at[j]]]

(* addtoStictlist's search.  Its places are the indexes of strict \o keep,  *)
(* in the order in which it looks at them; it finds those whose rating is  *)
(* within p's range: those of p's level first, the latest found foremost.  *)
InRange(p, v, failNum) ==
  LET range == failNum * EloStep + EloStrict
  IN  Elo[v] \in (Elo[p] - range) .. (Elo[p] + range)

Found(p, failNum, all) == {i \in DOMAIN all : InRange(p, all[i], failNum)}

(* Mutation of Search: the keep list is not searched.                      *)
SearchStrictOnly(p, failNum, keep, strict) ==
  LET found == Found(p, failNum, strict)
  IN  InOrder(found, {x \in found \X found : x[1] < x[2]})

Search(p, failNum, keep, strict) ==
  LET all == strict \o keep
      found == Found(p, failNum, all)
      Key(i) == IF Level[all[i]] = Level[p] THEN -i ELSE i
  IN  InOrder(found, {x \in found \X found : Key(x[1]) < Key(x[2])})

(* index_list of the place i, n being the strict list's length.            *)
Index(i, n) == IF i <= n THEN i ELSE i - n

(* Mutation of RemovalOrder: the smallest first.                           *)
SearchOrder(ms, n) ==
  InOrder(ms, {x \in ms \X ms : \/ Index(x[1], n) < Index(x[2], n)
                                \/ Index(x[1], n) = Index(x[2], n) /\ x[1] < x[2]})

(* The matched are removed by their index, the largest first.              *)
RemovalOrder(ms, n) ==
  InOrder(ms, {x \in ms \X ms : \/ Index(x[1], n) > Index(x[2], n)
                                \/ Index(x[1], n) = Index(x[2], n) /\ x[1] < x[2]})

(* table.remove of each of them that is in the list q, whose places come   *)
(* after the first n.                                                      *)
TakeOut(q, n, ms) ==
  LET left[k \in 0 .. Len(ms)] ==
        IF k = 0 THEN q
        ELSE IF ms[k] - n \in DOMAIN q THEN RemoveAt(left[k - 1], ms[k] - n)
        ELSE left[k - 1]
  IN  left[Len(ms)]

(* addtoStictlist(p) called by c, which goes on as r; keep, strict and en  *)
(* are the lists and requests as the caller has left them.  handleMatch    *)
(* clears src_list before it yields.                                       *)
addtoStictlist(c, p, keep, strict, en, r) ==
  LET tmp == Search(p, en[p].failNum, keep, strict)
      matchers == RemovalOrder({tmp[j] : j \in 1 .. MatchNum - 1}, Len(strict))
      group == Append([j \in DOMAIN matchers |-> (strict \o keep)[matchers[j]]], p)
  IN  IF Len(tmp) < MatchNum - 1
        THEN /\ keep_list' = keep /\ strict_list' = Append(strict, p)
             /\ ent' = [en EXCEPT ![p] = [en[p] EXCEPT !.failNum = @ + 1, !.stepTime = 0,
                                                       !.linked = TRUE]]
             /\ Become(c, r)
        ELSE /\ keep_list' = TakeOut(keep, Len(strict), matchers)
             /\ strict_list' = TakeOut(strict, 0, matchers)
             /\ ent' = [e \in Entries |-> IF e \in ToSet(group)
                                            THEN [en[e] EXCEPT !.linked = FALSE]
                                            ELSE en[e]]
             /\ Become(c, [r EXCEPT !.at = "new", !.ret = r.at, !.group = group])

-----------------------------------------------------------------------------
Init ==
  /\ keep_list = <<>> /\ strict_list = <<>>
  /\ nowInMatchers = [a \in Accounts |-> FALSE]
  /\ ent = [e \in Entries |-> [time |-> 0, stepTime |-> 0, failNum |-> 0, linked |-> FALSE]]
  /\ co = [c \in Coroutines |-> Fresh] /\ run = Nobody
  /\ gone = {} /\ errors = {}
  /\ picks = [e \in Entries |-> 0]

(* CMD.requestMatch, from getmatchinfo's answer to the monitor's watch.    *)
RequestMatch(e) ==
  /\ run = Nobody /\ co[e].at = "none" /\ Account[e] \notin gone
  /\ Become(e, IF nowInMatchers[Account[e]] THEN Ended ELSE [Fresh EXCEPT !.at = "watch"])
  /\ UNCHANGED <<queues, nowInMatchers, ent, outside>>

(* addtoKeeplist, after the watch.                                         *)
AddtoKeeplist(e) ==
  /\ run = Nobody /\ co[e].at = "watch"
  /\ nowInMatchers' = [nowInMatchers EXCEPT ![Account[e]] = TRUE]
  /\ IF strict_list = <<>>
       THEN /\ keep_list' = Append(keep_list, e)
            /\ ent' = [ent EXCEPT ![e].linked = TRUE]
            /\ Become(e, Ended) /\ UNCHANGED strict_list
       ELSE addtoStictlist(e, e, keep_list, strict_list, ent, Ended)
  /\ UNCHANGED outside

(* removePlayerFromMatch: the last request of the account in the keep      *)
(* list, or else in the strict list.                                       *)
LastOf(q, a) == {i \in DOMAIN q : /\ Account[q[i]] = a
                                  /\ \A j \in i + 1 .. Len(q) : Account[q[j]] # a}

Queued == ToSet(keep_list) \cup ToSet(strict_list)

removePlayerFromMatch(a) ==
  /\ nowInMatchers' = [nowInMatchers EXCEPT ![a] = FALSE]
  /\ \/ \E i \in LastOf(keep_list, a) :
          keep_list' = RemoveAt(keep_list, i) /\ UNCHANGED strict_list
     \/ /\ LastOf(keep_list, a) = {}
        /\ \E i \in LastOf(strict_list, a) :
             strict_list' = RemoveAt(strict_list, i) /\ UNCHANGED keep_list

(* CMD.cancelMatch that succeeds; otherwise nothing changes.               *)
CancelMatch(a) ==
  /\ run = Nobody /\ a \in MayCancel \ gone
  /\ removePlayerFromMatch(a)
  /\ UNCHANGED <<ent, co, run, gone, errors, picks>>

(* An agent exits; the monitor tells this service if it watches the agent. *)
AgentExits(a) ==
  /\ a \in MayCancel \ gone
  /\ gone' = gone \cup {a}
  /\ errors' = IF \E e \in Entries : Account[e] = a /\ co[e].at \notin {"none", "watch"}
                 THEN errors \cup {a} ELSE errors
  /\ UNCHANGED <<queues, nowInMatchers, ent, co, run, picks>>

ErrorMessage(a) ==
  /\ run = Nobody /\ a \in errors
  /\ errors' = errors \ {a}
  /\ IF \E e \in Queued : Account[e] = a
       THEN removePlayerFromMatch(a) ELSE UNCHANGED <<queues, nowInMatchers>>
  /\ UNCHANGED <<ent, co, run, gone, picks>>

-----------------------------------------------------------------------------
(* update fires.                                                           *)
Update(u) ==
  /\ run = Nobody /\ co[u].at = "none"
  /\ Become(u, [Fresh EXCEPT !.at = "keep", !.i = Len(keep_list)])
  /\ UNCHANGED <<queues, nowInMatchers, ent, outside>>

In(u, loop) == run = u /\ co[u].at = loop

(* An index past the end of a list that shrank during a yield: the element *)
(* is nil, and the error ends the coroutine.                               *)
OutOfBounds(u) ==
  /\ \/ In(u, "keep") /\ co[u].i > Len(keep_list)
     \/ In(u, "strict") /\ co[u].i > Len(strict_list)
  /\ Become(u, Fresh)
  /\ UNCHANGED <<queues, nowInMatchers, ent, outside>>

(* One iteration of updateKeeplist.                                        *)
UpdateKeeplist(u) ==
  /\ In(u, "keep") /\ co[u].i \in DOMAIN keep_list
  /\ LET i == co[u].i
         p == keep_list[i]
         next == [co[u] EXCEPT !.i = i - 1]
     IN  IF ent[p].time + 1 > KeepTimeout
           THEN addtoStictlist(u, p, RemoveAt(keep_list, i), strict_list,
                               [ent EXCEPT ![p].time = 0, ![p].failNum = 0], next)
           ELSE /\ ent' = [ent EXCEPT ![p].time = @ + 1]
                /\ Become(u, next) /\ UNCHANGED queues
  /\ UNCHANGED <<nowInMatchers, outside>>

(* Mutation of KeeplistDone: update forgets updateStictlist.               *)
KeeplistLast(u) ==
  /\ In(u, "keep") /\ co[u].i = 0
  /\ Become(u, Fresh)
  /\ UNCHANGED <<queues, nowInMatchers, ent, outside>>

KeeplistDone(u) ==
  /\ In(u, "keep") /\ co[u].i = 0
  /\ Become(u, [co[u] EXCEPT !.at = "strict", !.i = Len(strict_list)])
  /\ UNCHANGED <<queues, nowInMatchers, ent, outside>>

(* One iteration of updateStictlist's first loop.  addtoLooselist yields   *)
(* in handleMatchWithAi; the removal by index i comes after it.            *)
UpdateStictlist(u) ==
  /\ In(u, "strict") /\ co[u].i \in DOMAIN strict_list
  /\ LET i == co[u].i
         p == strict_list[i]
         time == ent[p].time + 1
         stepTime == ent[p].stepTime + 1
     IN  IF time > StrictTimeout
           THEN /\ ent' = [ent EXCEPT ![p] = [time |-> 0, stepTime |-> 0, failNum |-> 1,
                                              linked |-> TRUE]]
                /\ Become(u, [co[u] EXCEPT !.at = "ai", !.ret = "strict", !.group = <<p>>])
           ELSE /\ ent' = [ent EXCEPT ![p].time = time, ![p].stepTime = stepTime]
                /\ Become(u, [co[u] EXCEPT !.i = i - 1,
                                           !.relist = IF stepTime > StrictStep
                                                        THEN Append(@, p) ELSE @])
  /\ UNCHANGED <<queues, nowInMatchers, outside>>

StictlistDone(u) ==
  /\ In(u, "strict") /\ co[u].i = 0
  /\ Become(u, [co[u] EXCEPT !.at = "relist", !.i = 1])
  /\ UNCHANGED <<queues, nowInMatchers, ent, outside>>

(* Mutation of Relist: the player is not removed before it is added again. *)
RelistKeeping(u) ==
  /\ In(u, "relist") /\ co[u].i \in DOMAIN co[u].relist
  /\ LET v == co[u].relist[co[u].i]
         next == [co[u] EXCEPT !.i = @ + 1]
     IN  IF ent[v].linked
           THEN addtoStictlist(u, v, keep_list, strict_list, ent, next)
           ELSE Become(u, next) /\ UNCHANGED <<queues, ent>>
  /\ UNCHANGED <<nowInMatchers, outside>>

(* One iteration of its second loop: search again with a wider range.      *)
Relist(u) ==
  /\ In(u, "relist") /\ co[u].i \in DOMAIN co[u].relist
  /\ LET v == co[u].relist[co[u].i]
         next == [co[u] EXCEPT !.i = @ + 1]
         others == Chosen(strict_list, {i \in DOMAIN strict_list :
                                          Account[strict_list[i]] # Account[v]})
     IN  IF ent[v].linked
           THEN addtoStictlist(u, v, keep_list, others, ent, next)
           ELSE Become(u, next) /\ UNCHANGED <<queues, ent>>
  /\ UNCHANGED <<nowInMatchers, outside>>

RelistDone(u) ==
  /\ In(u, "relist") /\ co[u].i > Len(co[u].relist)
  /\ Become(u, Fresh)
  /\ UNCHANGED <<queues, nowInMatchers, ent, outside>>

-----------------------------------------------------------------------------
(* handleMatchWithAi has its robots; handleMatch clears src_list.          *)
HandleMatchWithAi(c) ==
  /\ run = Nobody /\ co[c].at = "ai"
  /\ ent' = [ent EXCEPT ![co[c].group[1]].linked = FALSE]
  /\ Become(c, [co[c] EXCEPT !.at = "new"])
  /\ UNCHANGED <<queues, nowInMatchers, outside>>

(* handleMatch: the k-th player stops being matched and is told to enter.  *)
EnterPickHero(c, k) ==
  /\ nowInMatchers' = [nowInMatchers EXCEPT ![Account[co[c].group[k]]] = FALSE]
  /\ Become(c, [co[c] EXCEPT !.at = "enter", !.k = k])

(* handleMatch: the pickHero service is initialised with the group.        *)
PickHeroReady(c) ==
  /\ run = Nobody /\ co[c].at = "new"
  /\ picks' = [e \in Entries |-> IF e \in ToSet(co[c].group) /\ picks[e] < MaxPicks
                                   THEN picks[e] + 1 ELSE picks[e]]
  /\ EnterPickHero(c, 1)
  /\ UNCHANGED <<queues, ent, gone, errors>>

Entered(c) ==
  /\ run = Nobody /\ co[c].at = "enter" /\ Account[co[c].group[co[c].k]] \notin gone
  /\ IF co[c].k < Len(co[c].group)
       THEN EnterPickHero(c, co[c].k + 1)
       ELSE Become(c, [co[c] EXCEPT !.at = "tell"]) /\ UNCHANGED nowInMatchers
  /\ UNCHANGED <<queues, ent, outside>>

(* Everyone is told of the group, and handleMatch returns to its caller.   *)
HandleMatchDone(c) ==
  /\ run = Nobody /\ co[c].at = "tell"
  /\ LET r == [co[c] EXCEPT !.at = co[c].ret, !.ret = "none", !.group = <<>>, !.k = 0]
         i == co[c].i
     IN  IF co[c].ret = "strict"   \* the rest of updateStictlist's iteration
           THEN IF i <= Len(strict_list) + 1
                  THEN /\ strict_list' = RemoveAt(strict_list, i)
                       /\ Become(c, [r EXCEPT !.i = i - 1])
                  ELSE Become(c, Fresh) /\ UNCHANGED strict_list
           ELSE Become(c, r) /\ UNCHANGED strict_list
  /\ UNCHANGED <<keep_list, nowInMatchers, ent, outside>>

(* A call to an exited agent fails and ends the coroutine.                 *)
CallFails(c) ==
  /\ run = Nobody
  /\ \/ co[c].at = "enter" /\ Account[co[c].group[co[c].k]] \in gone
     \/ co[c].at = "tell" /\ \E e \in ToSet(co[c].group) : Account[e] \in gone
  /\ Become(c, IF c \in Updates THEN Fresh ELSE Ended)
  /\ UNCHANGED <<queues, nowInMatchers, ent, outside>>

-----------------------------------------------------------------------------
HandleNext(c) == \/ HandleMatchWithAi(c) \/ PickHeroReady(c) \/ Entered(c)
                 \/ HandleMatchDone(c) \/ CallFails(c)

LoopNext(u) == \/ UpdateKeeplist(u) \/ KeeplistDone(u) \/ UpdateStictlist(u)
               \/ StictlistDone(u) \/ Relist(u) \/ RelistDone(u) \/ OutOfBounds(u)

Next ==
  \/ \E e \in Entries : RequestMatch(e) \/ AddtoKeeplist(e)
  \/ \E u \in Updates : Update(u) \/ LoopNext(u)
  \/ \E c \in Coroutines : HandleNext(c)
  \/ \E a \in Accounts : CancelMatch(a) \/ AgentExits(a) \/ ErrorMessage(a)

Spec == Init /\ [][Next]_vars

(* Calls are answered, the timer keeps firing (update arms it first) and   *)
(* the running coroutine runs on; nobody has to ask for a match.           *)
Fairness ==
  /\ \A e \in Entries : WF_vars(AddtoKeeplist(e))
  /\ \A c \in Coroutines : WF_vars(HandleNext(c))
  /\ \A u \in Updates : WF_vars(LoopNext(u))
  /\ WF_vars(\E u \in Updates : Update(u))

FairSpec == Spec /\ Fairness
-----------------------------------------------------------------------------
Waiting == keep_list \o strict_list

(* A request is in one place of one list, however often it is moved, taken out
   and searched again by overlapping updates (match.lua:152-153, 196-206). *)
QueuedOnce == IsInjective(Waiting)

(* A group is the robots' guest or has exactly MATCH_NUM different requests
   (match.lua:252-282, 140-141). *)
GroupsSound ==
  \A c \in Coroutines :
     LET g == co[c].group
     IN  co[c].at \in {"ai", "new", "enter", "tell"} =>
           /\ Len(g) \in {1, MatchNum} /\ IsInjective(g)

Near(e, f) == InRange(e, f, 0)

(* Players who could play each other do not wait side by side: once one of them
   is in the strict list, MATCH_NUM players within the basic range of each other
   never wait together, because whoever comes last has searched both lists
   (match.lua:168-174, 210-283). *)
NoMissedMatch ==
  \A S \in SUBSET ToSet(Waiting) :
     /\ Cardinality(S) = MatchNum
     /\ S \cap ToSet(strict_list) # {}
     => \E e, f \in S : ~Near(e, f)

OthersStay(group) ==
  /\ ToSet(Waiting') \subseteq ToSet(Waiting) \ group
  /\ \A e \in ToSet(Waiting) \ ToSet(Waiting') : \E m \in group : Account[e] = Account[m]

(* When addtoStictlist makes a group, its members leave the lists, and nobody
   else does but other requests of a member's account: removing by index in
   descending order never hits a bystander (match.lua:199-203, 271-281). *)
OnlyMatchedLeave ==
  [][\A c \in Coroutines :
       co[c].at # "new" /\ co'[c].at = "new" /\ Len(co'[c].group) > 1 =>
         OthersStay(ToSet(co'[c].group))]_vars

(* A player who is let wait is given a game: with robots after a while, when
   nobody else comes (match.lua:183-188, 314-317). *)
EventuallyPlays ==
  \A e \in Entries : (e \in ToSet(Waiting)) ~> (picks[e] > 0)

(* nowInMatchers holds the "players who are being matched" (match.lua:19): such a
   player is in a list, or some coroutine is at work on it. *)
BeingMatched ==
  \A a \in Accounts : nowInMatchers[a] =>
     \/ \E e \in Queued : Account[e] = a
     \/ \E c \in Coroutines, e \in Entries :
          /\ Account[e] = a
          /\ e \in ToSet(co[c].group) \cup ToSet(co[c].relist)
=============================================================================
