------------------------------ MODULE PickHero ------------------------------
(***************************************************************************)
(* The hero-selection service (game/service/pickHero.lua).                 *)
(*                                                                         *)
(* One skynet service per match.  Every message and every timer runs as a  *)
(* coroutine of its own; the service is single threaded, so the code       *)
(* between two yields (skynet.call, skynet.newservice) is one step.  The   *)
(* coroutines are the clients' confirmHero requests (`co', one slot per    *)
(* outstanding request) and the `update' timer (`pc', with co["update"]    *)
(* its position inside aiPickHero).  While pc = "loop" the timer coroutine *)
(* is running and no other coroutine of the service can: its iterations    *)
(* are separate steps of the model only to keep each of them small.        *)
(***************************************************************************)
EXTENDS Integers, FiniteSets

CONSTANTS
  Players,    \* the agents of the match
  AIs,        \* the agents that are server-side robots (isAI)
  Heroes,     \* the hero ids clients ask for: serial * 100 + grade
  Roles,      \* the ids the server picks from on a player's behalf
  PickTime,   \* initial max_pickTime, in centiseconds
  Slots,      \* bound: confirmHero requests in flight
  MaxExits    \* bound: agents that exit before or during the selection

ASSUME PlayersAssumption == AIs \subseteq Players
ASSUME HeroesAssumption == Heroes \cup Roles \subseteq {h \in Nat : h >= 100}
ASSUME SlotsAssumption == "update" \notin Slots
ASSUME PickTimeAssumption == PickTime \in Nat /\ PickTime % 100 = 0

Humans == Players \ AIs
NoHero == 0
Ids == Heroes \cup Roles
Picks == Ids \cup {NoHero}

Coroutines == Slots \cup {"update"}

VARIABLES
  picked,        \* players[p].pickedheroid
  confirmed,     \* players[p].confirmheroid
  max_pickTime,
  co,            \* coroutines inside confirmHero or aiPickHero
  pc,            \* where the update coroutine is
  loop,          \* which loop of update is being run: "tick" or "final"
  todo,          \* players that loop has still to visit
  dead,          \* agents that have exited
  unwatched,     \* those that had before CMD.init asked for them to be watched
  status,        \* of the service
  room           \* the players table the room was started with

vars == <<picked, confirmed, max_pickTime, co, pc, loop, todo, dead, unwatched, status, room>>

NoRoom == [picked |-> <<>>, confirmed |-> <<>>]
IdleCo == [at |-> "idle"]
Call(at, p, h) == [at |-> at, who |-> p, id |-> h]

(* Two ids are the same choice for pickHero when they agree up to the last *)
(* digit, and for confirmHero when they agree up to the last two.          *)
SamePick(h, g) == h \div 10 = g \div 10
Macro_GetCardSerialId(h) == h \div 100

(* Mutation of CanPick: only confirmed heroes are taken.                   *)
CanPickUnconfirmed(h) == \A p \in Players : ~SamePick(h, confirmed[p])

CanPick(h) == \A p \in Players : ~SamePick(h, picked[p])

CanConfirm(p, h) ==
  \A q \in Players \ {p} :
     Macro_GetCardSerialId(h) # Macro_GetCardSerialId(picked[q])

(* Mutation of AllConfirmed: having picked is enough.                      *)
AllPicked == \A p \in Players : picked[p] # NoHero

(* The tail of confirmHero: once everyone has confirmed, end the selection.*)
AllConfirmed == \A p \in Players : confirmed[p] # NoHero
CheckReady == max_pickTime' = IF AllConfirmed THEN -1 ELSE max_pickTime

Yielded == status = "running" /\ pc # "loop"  \* the service can take a message

(* Coroutine c leaves confirmHero: a client's is over, update's loops on.  *)
Return(c) == /\ co' = [co EXCEPT ![c] = IdleCo]
             /\ pc' = IF c = "update" THEN "loop" ELSE pc

-----------------------------------------------------------------------------
(* The state CMD.init leaves: the first update is still one second away    *)
(* and no client has been told of the service.  An agent may have exited   *)
(* by then, too early for the monitor: it answers that it cannot watch the *)
(* agent (or notes a watch that nothing will set off), CMD.init does not   *)
(* look at the answer, and no error message will ever come for that agent. *)
Init ==
  /\ picked = [p \in Players |-> NoHero]
  /\ confirmed = [p \in Players |-> NoHero]
  /\ max_pickTime = PickTime
  /\ co = [c \in Coroutines |-> IdleCo]
  /\ pc = "sleep" /\ loop = "tick" /\ todo = {}
  /\ dead \in SUBSET Players /\ Cardinality(dead) <= MaxExits
  /\ unwatched = dead
  /\ status = "running" /\ room = NoRoom

(* CMD.pickHero from a client.  A refused pick changes nothing; after an   *)
(* accepted one only the notifications follow.                             *)
PickHero(p, h) ==
  /\ Yielded /\ CanPick(h)
  /\ picked' = [picked EXCEPT ![p] = h]
  /\ UNCHANGED <<confirmed, max_pickTime, co, pc, loop, todo, dead, unwatched, status, room>>

(* Mutation of ConfirmHero: no test for an empty pick.                     *)
ConfirmHeroUnpicked(p, s) ==
  /\ Yielded /\ co[s] = IdleCo
  /\ co' = [co EXCEPT ![s] = Call("bind", p, picked[p])]
  /\ UNCHANGED <<picked, confirmed, max_pickTime, pc, loop, todo, dead, unwatched, status, room>>

(* CMD.confirmHero from a client, up to the isBindSkills call.             *)
ConfirmHero(p, s) ==
  /\ Yielded /\ co[s] = IdleCo
  /\ IF picked[p] = NoHero
       THEN CheckReady /\ UNCHANGED co
       ELSE /\ co' = [co EXCEPT ![s] = Call("bind", p, picked[p])]
            /\ UNCHANGED max_pickTime
  /\ UNCHANGED <<picked, confirmed, pc, loop, todo, dead, unwatched, status, room>>

(* isBindSkills has answered.  confirmid was read before the call; the     *)
(* other players' picks are read now.                                      *)
BindSkills(c, bind) ==
  /\ Yielded /\ co[c].at = "bind"
  /\ IF bind /\ CanConfirm(co[c].who, co[c].id)
       THEN /\ confirmed' = [confirmed EXCEPT ![co[c].who] = co[c].id]
            /\ co' = [co EXCEPT ![c].at = "notify"]
            /\ UNCHANGED <<max_pickTime, pc>>
       ELSE CheckReady /\ Return(c) /\ UNCHANGED confirmed
  /\ UNCHANGED <<picked, loop, todo, dead, unwatched, status, room>>

(* Everyone has been told of the confirmation.                             *)
ConfirmNotified(c) ==
  /\ Yielded /\ co[c].at = "notify"
  /\ CheckReady /\ Return(c)
  /\ UNCHANGED <<picked, confirmed, loop, todo, dead, unwatched, status, room>>

-----------------------------------------------------------------------------
(* Mutation of Update: the last second is not waited for.                  *)
UpdateTooEarly ==
  /\ status = "running" /\ pc = "sleep"
  /\ loop' = IF max_pickTime <= 0 THEN "final" ELSE "tick"
  /\ todo' = Players /\ pc' = "loop"
  /\ UNCHANGED <<picked, confirmed, max_pickTime, co, dead, unwatched, status, room>>

(* The update timer fires.                                                 *)
Update ==
  /\ status = "running" /\ pc = "sleep"
  /\ loop' = IF max_pickTime < 0 THEN "final" ELSE "tick"
  /\ todo' = Players /\ pc' = "loop"
  /\ UNCHANGED <<picked, confirmed, max_pickTime, co, dead, unwatched, status, room>>

NeedsPick(p) == /\ picked[p] = NoHero
                /\ IF loop = "final" THEN confirmed[p] = NoHero ELSE p \in AIs

NeedsConfirm(p) == /\ loop = "final"
                   /\ confirmed[p] = NoHero /\ picked[p] # NoHero

(* The loop visits a player it has to choose for: aiPickHero draws a role  *)
(* that nobody has picked; pickHero may still refuse it, and confirmHero   *)
(* then finds no pick.                                                     *)
AiPickHero(p) ==
  /\ status = "running" /\ pc = "loop" /\ p \in todo /\ NeedsPick(p)
  /\ todo' = todo \ {p}
  /\ \E r \in {r \in Roles : \A q \in Players : picked[q] # r} :
       IF CanPick(r)
         THEN /\ picked' = [picked EXCEPT ![p] = r]
              /\ co' = [co EXCEPT !["update"] = Call("picked", p, r)]
              /\ pc' = "ai" /\ UNCHANGED max_pickTime
         ELSE CheckReady /\ UNCHANGED <<picked, co, pc>>
  /\ UNCHANGED <<confirmed, loop, dead, unwatched, status, room>>

(* Everyone has been told of aiPickHero's pick; confirmHero reads the pick *)
(* again, which the player may have changed meanwhile.                     *)
AiPickNotified ==
  /\ Yielded /\ co["update"].at = "picked"
  /\ LET p == co["update"].who
     IN  co' = [co EXCEPT !["update"] = Call("bind", p, picked[p])]
  /\ UNCHANGED <<picked, confirmed, max_pickTime, pc, loop, todo, dead, unwatched, status, room>>

(* The loop visits a player it has nothing to pick for.                    *)
Visit(p) ==
  /\ status = "running" /\ pc = "loop" /\ p \in todo /\ ~NeedsPick(p)
  /\ todo' = todo \ {p}
  /\ confirmed' = IF NeedsConfirm(p) THEN [confirmed EXCEPT ![p] = picked[p]]
                                     ELSE confirmed
  /\ UNCHANGED <<picked, max_pickTime, co, pc, loop, dead, unwatched, status, room>>

(* The loop is over: sleep for a second, or go on to enterMap.             *)
LoopDone ==
  /\ status = "running" /\ pc = "loop" /\ todo = {}
  /\ IF loop = "tick"
       THEN pc' = "sleep" /\ max_pickTime' = max_pickTime - 100
       ELSE pc' = "newroom" /\ UNCHANGED max_pickTime
  /\ UNCHANGED <<picked, confirmed, co, loop, todo, dead, unwatched, status, room>>

(* enterMap: the room service exists; it is sent the players as they are.  *)
StartRoom ==
  /\ Yielded /\ pc = "newroom"
  /\ room' = [picked |-> picked, confirmed |-> confirmed]
  /\ pc' = "start"
  /\ UNCHANGED <<picked, confirmed, max_pickTime, co, loop, todo, dead, unwatched, status>>

(* enterMap: the room has answered; skynet.exit ends every coroutine.      *)
EnterMap ==
  /\ Yielded /\ pc = "start"
  /\ status' = "entered"
  /\ UNCHANGED <<picked, confirmed, max_pickTime, co, pc, loop, todo, dead, unwatched, room>>

-----------------------------------------------------------------------------
(* An agent service exits (its player is gone).                            *)
AgentExits(p) ==
  /\ status = "running" /\ p \notin dead /\ Cardinality(dead) < MaxExits
  /\ dead' = dead \cup {p}
  /\ UNCHANGED <<picked, confirmed, max_pickTime, co, pc, loop, todo, unwatched, status, room>>

(* A call to an exited agent raises an error and unwinds its coroutine:    *)
(* the request of a client, or update, which is then not armed again.      *)
CallFails(c) ==
  /\ Yielded
  /\ \/ co[c].at \in {"picked", "notify"} /\ dead # {}
     \/ co[c].at = "bind" /\ co[c].who \in dead
  /\ co' = [co EXCEPT ![c] = IdleCo]
  /\ pc' = IF c = "update" THEN "failed" ELSE pc
  /\ UNCHANGED <<picked, confirmed, max_pickTime, loop, todo, dead, unwatched, status, room>>

(* Mutation of QuitPick: the exit of a robot is ignored.                   *)
QuitPickHumansOnly ==
  /\ Yielded /\ (dead \ unwatched) \cap Humans # {}
  /\ status' = "quit"
  /\ UNCHANGED <<picked, confirmed, max_pickTime, co, pc, loop, todo, dead, unwatched, room>>

(* The monitor's error message for an exited agent it watched: quitPick.   *)
QuitPick ==
  /\ Yielded /\ dead \ unwatched # {}
  /\ status' = "quit"
  /\ UNCHANGED <<picked, confirmed, max_pickTime, co, pc, loop, todo, dead, unwatched, room>>

Over == status # "running" /\ UNCHANGED vars

-----------------------------------------------------------------------------
ClientNext ==
  \/ \E p \in Humans, h \in Heroes : PickHero(p, h)
  \/ \E p \in Humans, s \in Slots : ConfirmHero(p, s)

ConfirmNext(c) ==
  \/ \E bind \in BOOLEAN : BindSkills(c, bind)
  \/ ConfirmNotified(c)
  \/ CallFails(c)

UpdateNext ==
  \/ Update \/ AiPickNotified \/ LoopDone \/ StartRoom \/ EnterMap
  \/ \E p \in Players : AiPickHero(p) \/ Visit(p)

Next ==
  \/ ClientNext
  \/ \E c \in Coroutines : ConfirmNext(c)
  \/ UpdateNext
  \/ \E p \in Players : AgentExits(p)
  \/ QuitPick
  \/ Over

(* Timers fire, calls are answered (or fail), the monitor reports; nobody  *)
(* has to pick, confirm or leave.                                          *)
Fairness ==
  /\ WF_vars(UpdateNext)
  /\ WF_vars(QuitPick)
  /\ WF_vars(ConfirmNext("update"))

Spec == Init /\ [][Next]_vars
FairSpec == Spec /\ Fairness

-----------------------------------------------------------------------------
CallSet == [at : {"picked", "bind", "notify"}, who : Players, id : Ids]

TypeOK ==
  /\ picked \in [Players -> Picks]
  /\ confirmed \in [Players -> Picks]
  /\ max_pickTime \in Int
  /\ co \in [Coroutines -> {IdleCo} \cup CallSet]
  /\ pc \in {"sleep", "loop", "ai", "newroom", "start", "failed"}
  /\ loop \in {"tick", "final"}
  /\ todo \subseteq Players
  /\ dead \subseteq Players /\ unwatched \subseteq dead
  /\ status \in {"running", "entered", "quit"}
  /\ room \in {NoRoom} \cup [picked : [Players -> Picks],
                              confirmed : [Players -> Picks]]

(* No two players ever hold picks that pickHero regards as the same, however
   their requests, their re-picks and the server's own picks interleave
   (pickHero.lua:49-57, 130-136). *)
PickedDistinct ==
  \A p, q \in Players :
     p # q /\ picked[p] # NoHero => ~SamePick(picked[p], picked[q])

(* The selection is cut short (max_pickTime := -1, the only way the time left
   stops being a whole number of seconds) only when every player has confirmed,
   although each confirmation waits twice for other services
   (pickHero.lua:98-107). *)
EarlyEnd ==
  max_pickTime % 100 # 0 =>
     \A p \in Players : confirmed[p] # NoHero /\ picked[p] # NoHero

(* The room is started after the time is up, with heroes that are different
   choices, and with one for everybody who confirmed; neither the server's picks
   nor requests served while newservice runs can break that
   (pickHero.lua:10-14, 141-152). *)
RoomComplete ==
  room # NoRoom =>
     /\ max_pickTime < 0
     /\ \A p \in Players : room.confirmed[p] # NoHero => room.picked[p] # NoHero
     /\ \A p, q \in Players :
          p # q /\ room.picked[p] # NoHero => ~SamePick(room.picked[p], room.picked[q])

(* A call to an exited agent has killed the timer, and the monitor has
   nothing to report. *)
Stranded == pc = "failed" /\ dead \subseteq unwatched

(* The selection ends, in a room or in quitPick: update keeps being armed, and
   when a call to an exited agent kills it (the timer is armed on its last line)
   the monitor's message ends the service instead.  The one case in which nothing
   does is that all the agents that have exited did so before CMD.init had the
   monitor watch them (pickHero.lua:35-44, 140-170, 178-186,
   simplemonitor.lua:22-35). *)
Ends == <>(status # "running") \/ <>[]Stranded
=============================================================================
