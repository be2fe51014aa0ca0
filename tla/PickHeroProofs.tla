--------------------------- MODULE PickHeroProofs ---------------------------
(***************************************************************************)
(* The safety of hero selection, for any number of players, robots, heroes *)
(* and requests in flight.  PickedDistinct and EarlyEnd need to know that  *)
(* a pick, once made, is never taken back: of a confirmed player and of a  *)
(* player whose confirmation is waiting for another service.  RoomComplete *)
(* needs the update coroutine's control: it is in aiPickHero only while    *)
(* its loop waits there, and it starts the room from its last loop.        *)
(***************************************************************************)
EXTENDS PickHero, TLAPS

(* A player who has confirmed, or is in confirmHero, has picked.           *)
HasPicked ==
  /\ \A p \in Players : confirmed[p] # NoHero => picked[p] # NoHero
  /\ \A c \in Coroutines : co[c] # IdleCo => picked[co[c].who] # NoHero

(* Where update can be in each of its loops, and after them.               *)
UpdateControl ==
  /\ pc # "ai" => co["update"] = IdleCo
  /\ loop = "final" => max_pickTime < 0
  /\ pc \in {"newroom", "start"} => loop = "final"
  /\ room # NoRoom => pc = "start"

RoomPicks ==
  room # NoRoom =>
     /\ \A p \in Players : room.confirmed[p] # NoHero => room.picked[p] # NoHero
     /\ \A p, q \in Players :
          p # q /\ room.picked[p] # NoHero => ~SamePick(room.picked[p], room.picked[q])

IInv == TypeOK /\ PickedDistinct /\ HasPicked /\ EarlyEnd /\ UpdateControl /\ RoomPicks

-----------------------------------------------------------------------------
(* The empty pick is no player's hero: ids have at least three digits.     *)
LEMMA NoHeroIsNoChoice == \A h \in Ids : h \in Nat /\ h # NoHero /\ ~SamePick(h, NoHero)
  BY HeroesAssumption DEF Ids, NoHero, SamePick

(* A second less leaves the same number of odd centiseconds.               *)
LEMMA WholeSeconds == \A t \in Int : (t - 100) % 100 = t % 100
  OBVIOUS

(* Coroutines are told apart from idle ones by where they wait.            *)
LEMMA CallIsNotIdle ==
  ASSUME TypeOK, NEW c \in Coroutines, co[c].at \in {"picked", "bind", "notify"}
  PROVE  co[c] \in CallSet /\ co[c] # IdleCo
  BY DEF TypeOK, IdleCo, CallSet

(* A pick that pickHero accepts keeps the picks distinct.                  *)
LEMMA PickKeepsDistinct ==
  ASSUME TypeOK, PickedDistinct, NEW p \in Players, NEW h \in Ids, CanPick(h),
         picked' = [picked EXCEPT ![p] = h]
  PROVE  PickedDistinct' /\ picked' \in [Players -> Picks] /\ picked'[p] # NoHero
         /\ \A q \in Players : picked[q] # NoHero => picked'[q] # NoHero
  <1>1. picked' \in [Players -> Picks]
    BY DEF TypeOK, Picks
  <1>2. \A q \in Players : picked'[q] = IF q = p THEN h ELSE picked[q]
    BY DEF TypeOK
  <1>3. h # NoHero
    BY NoHeroIsNoChoice
  <1>4. ASSUME NEW a \in Players, NEW b \in Players, a # b, picked'[a] # NoHero
        PROVE  ~SamePick(picked'[a], picked'[b])
    BY <1>2, <1>4 DEF PickedDistinct, CanPick, SamePick
  <1> QED
    BY <1>1, <1>2, <1>3, <1>4 DEF PickedDistinct

(* The tail of confirmHero ends the selection early only if all confirmed. *)
LEMMA CheckReadySound ==
  ASSUME TypeOK, HasPicked, EarlyEnd, CheckReady, UNCHANGED confirmed,
         \A p \in Players : picked[p] # NoHero => picked'[p] # NoHero
  PROVE  max_pickTime' \in Int /\ EarlyEnd' /\ (max_pickTime < 0 => max_pickTime' < 0)
  <1>1. max_pickTime' \in Int /\ (max_pickTime < 0 => max_pickTime' < 0)
    BY DEF CheckReady, TypeOK
  <1>2. CASE AllConfirmed
    BY <1>1, <1>2 DEF AllConfirmed, HasPicked, EarlyEnd
  <1>3. CASE ~AllConfirmed
    BY <1>1, <1>3 DEF CheckReady, EarlyEnd
  <1> QED
    BY <1>1, <1>2, <1>3

-----------------------------------------------------------------------------
LEMMA InitIInv == Init => IInv
  <1> SUFFICES ASSUME Init PROVE IInv
    OBVIOUS
  <1>1. TypeOK
    BY PickTimeAssumption DEF Init, TypeOK, Picks, NoHero
  <1>2. max_pickTime % 100 = 0
    BY PickTimeAssumption DEF Init
  <1> QED
    BY <1>1, <1>2 DEF Init, IInv, PickedDistinct, HasPicked, EarlyEnd, UpdateControl,
                     RoomPicks, Coroutines, NoHero, IdleCo

(* Leaving confirmHero, successfully or not, keeps the invariant.          *)
LEMMA ReturnKeepsIInv ==
  ASSUME IInv, NEW c \in Coroutines, co[c] # IdleCo, CheckReady, Return(c),
         UNCHANGED <<picked, confirmed, loop, todo, dead, unwatched, status, room>>
  PROVE  IInv'
  <1>1. max_pickTime' \in Int /\ EarlyEnd' /\ (max_pickTime < 0 => max_pickTime' < 0)
    BY CheckReadySound DEF IInv
  <1>2. /\ co' \in [Coroutines -> {IdleCo} \cup CallSet]
        /\ \A d \in Coroutines : co'[d] = IF d = c THEN IdleCo ELSE co[d]
        /\ "update" \in Coroutines
    BY DEF IInv, TypeOK, Return, Coroutines
  <1>3. TypeOK'
    BY <1>1, <1>2 DEF IInv, TypeOK, Return
  <1>4. PickedDistinct' /\ HasPicked' /\ RoomPicks'
    BY <1>2 DEF IInv, PickedDistinct, HasPicked, RoomPicks
  <1>5. UpdateControl'
    BY <1>1, <1>2 DEF IInv, UpdateControl, Return
  <1> QED
    BY <1>1, <1>3, <1>4, <1>5 DEF IInv

LEMMA NextIInv == IInv /\ [Next]_vars => IInv'
  <1> SUFFICES ASSUME IInv, [Next]_vars PROVE IInv'
    OBVIOUS
  <1> USE DEF IInv
  <1>1. ASSUME NEW p \in Humans, NEW h \in Heroes, PickHero(p, h)
        PROVE  IInv'
    <2>1. p \in Players /\ h \in Ids
      BY DEF Humans, Ids
    <2>2. /\ PickedDistinct' /\ picked' \in [Players -> Picks]
          /\ \A q \in Players : picked[q] # NoHero => picked'[q] # NoHero
      BY <1>1, <2>1, PickKeepsDistinct DEF PickHero
    <2>3. TypeOK'
      BY <1>1, <2>2 DEF PickHero, TypeOK
    <2>4. HasPicked'
      BY <1>1, <2>2 DEF PickHero, HasPicked, TypeOK, CallSet, IdleCo
    <2>5. EarlyEnd'
      BY <1>1, <2>2 DEF PickHero, EarlyEnd
    <2>6. UpdateControl' /\ RoomPicks'
      BY <1>1 DEF PickHero, UpdateControl, RoomPicks
    <2> QED
      BY <2>2, <2>3, <2>4, <2>5, <2>6
  <1>2. ASSUME NEW p \in Humans, NEW s \in Slots, ConfirmHero(p, s)
        PROVE  IInv'
    <2>1. p \in Players /\ s \in Coroutines /\ s # "update" /\ "update" \in Coroutines
      BY SlotsAssumption DEF Humans, Coroutines
    <2>2. UNCHANGED <<picked, confirmed, pc, loop, todo, dead, unwatched, status, room>>
      BY <1>2 DEF ConfirmHero
    <2>3. PickedDistinct' /\ RoomPicks'
      BY <2>2 DEF PickedDistinct, RoomPicks
    <2>4. CASE picked[p] = NoHero
      <3>1. CheckReady /\ UNCHANGED co
        BY <1>2, <2>4 DEF ConfirmHero
      <3>2. max_pickTime' \in Int /\ EarlyEnd' /\ (max_pickTime < 0 => max_pickTime' < 0)
        BY <3>1, <2>2, CheckReadySound
      <3> QED
        BY <2>2, <2>3, <3>1, <3>2 DEF TypeOK, HasPicked, UpdateControl
    <2>5. CASE picked[p] # NoHero
      <3>1. /\ co' = [co EXCEPT ![s] = Call("bind", p, picked[p])]
            /\ UNCHANGED max_pickTime
        BY <1>2, <2>5 DEF ConfirmHero
      <3>2. picked[p] \in Ids
        BY <2>1, <2>5 DEF TypeOK, Picks
      <3>3. Call("bind", p, picked[p]) \in CallSet
        BY <2>1, <3>2 DEF Call, CallSet
      <3>4. TypeOK'
        BY <2>2, <3>1, <3>3 DEF TypeOK
      <3>5. HasPicked'
        BY <2>1, <2>2, <2>5, <3>1 DEF HasPicked, TypeOK, Call
      <3>6. co'["update"] = co["update"]
        BY <2>1, <3>1 DEF TypeOK
      <3> QED
        BY <2>2, <2>3, <3>1, <3>4, <3>5, <3>6 DEF UpdateControl, EarlyEnd
    <2> QED
      BY <2>4, <2>5
  <1>3. ASSUME NEW c \in Coroutines, NEW bind \in BOOLEAN, BindSkills(c, bind)
        PROVE  IInv'
    <2>1. /\ UNCHANGED <<picked, loop, todo, dead, unwatched, status, room>>
          /\ co[c].at = "bind" /\ pc # "loop"
      BY <1>3 DEF BindSkills, Yielded
    <2>2. co[c] \in CallSet /\ co[c] # IdleCo /\ "update" \in Coroutines
      BY <2>1, CallIsNotIdle DEF Coroutines
    <2>3. PickedDistinct' /\ RoomPicks'
      BY <2>1 DEF PickedDistinct, RoomPicks
    <2>4. CASE bind /\ CanConfirm(co[c].who, co[c].id)
      <3>1. /\ confirmed' = [confirmed EXCEPT ![co[c].who] = co[c].id]
            /\ co' = [co EXCEPT ![c].at = "notify"]
            /\ UNCHANGED <<max_pickTime, pc>>
        BY <1>3, <2>4 DEF BindSkills
      <3>2. co[c].who \in Players /\ co[c].id \in Ids /\ picked[co[c].who] # NoHero
        BY <2>2 DEF CallSet, HasPicked
      <3>3. /\ co' \in [Coroutines -> {IdleCo} \cup CallSet]
            /\ \A d \in Coroutines : d # c => co'[d] = co[d]
            /\ co'[c].who = co[c].who
        BY <2>2, <3>1 DEF TypeOK, CallSet
      <3>4. TypeOK'
        BY <2>1, <3>1, <3>2, <3>3 DEF TypeOK, Picks
      <3>5. /\ \A p \in Players : confirmed'[p] = IF p = co[c].who THEN co[c].id
                                                                  ELSE confirmed[p]
            /\ co[c].id # NoHero
        BY <3>1, <3>2, NoHeroIsNoChoice DEF TypeOK
      <3>6. HasPicked'
        BY <2>1, <2>2, <3>2, <3>3, <3>5 DEF HasPicked
      <3>7. EarlyEnd'
        BY <2>1, <3>1, <3>5 DEF EarlyEnd
      <3>8. UpdateControl'
        BY <2>1, <2>2, <3>1, <3>3 DEF UpdateControl
      <3> QED
        BY <2>3, <3>4, <3>6, <3>7, <3>8
    <2>5. CASE ~(bind /\ CanConfirm(co[c].who, co[c].id))
      <3>1. CheckReady /\ Return(c) /\ UNCHANGED confirmed
        BY <1>3, <2>5 DEF BindSkills
      <3> QED
        BY <2>1, <2>2, <2>3, <3>1, ReturnKeepsIInv
    <2> QED
      BY <2>4, <2>5
  <1>4. ASSUME NEW c \in Coroutines, ConfirmNotified(c)
        PROVE  IInv'
    <2>1. /\ UNCHANGED <<picked, confirmed, loop, todo, dead, unwatched, status, room>>
          /\ co[c].at = "notify" /\ CheckReady /\ Return(c) /\ pc # "loop"
      BY <1>4 DEF ConfirmNotified, Yielded
    <2> QED
      BY <2>1, CallIsNotIdle, ReturnKeepsIInv
  <1>5. ASSUME NEW c \in Coroutines, CallFails(c)
        PROVE  IInv'
    <2>1. /\ UNCHANGED <<picked, confirmed, max_pickTime, loop, todo, dead, unwatched, status, room>>
          /\ co' = [co EXCEPT ![c] = IdleCo]
          /\ pc' = IF c = "update" THEN "failed" ELSE pc
          /\ co[c].at \in {"picked", "bind", "notify"}
      BY <1>5 DEF CallFails
    <2>2. co[c] # IdleCo /\ "update" \in Coroutines
      BY <2>1, CallIsNotIdle DEF Coroutines
    <2>3. \A d \in Coroutines : co'[d] = IF d = c THEN IdleCo ELSE co[d]
      BY <2>1 DEF TypeOK
    <2>4. TypeOK'
      BY <2>1 DEF TypeOK
    <2>5. PickedDistinct' /\ HasPicked' /\ EarlyEnd' /\ RoomPicks'
      BY <2>1, <2>3 DEF PickedDistinct, HasPicked, EarlyEnd, RoomPicks
    <2>6. UpdateControl'
      BY <2>1, <2>2, <2>3 DEF UpdateControl
    <2> QED
      BY <2>4, <2>5, <2>6
  <1>6. CASE Update
    <2>1. UNCHANGED <<picked, confirmed, max_pickTime, co, dead, unwatched, status, room>>
      BY <1>6 DEF Update
    <2>2. TypeOK' /\ PickedDistinct' /\ HasPicked' /\ EarlyEnd' /\ RoomPicks'
      BY <1>6, <2>1 DEF Update, TypeOK, PickedDistinct, HasPicked, EarlyEnd, RoomPicks
    <2>3. UpdateControl'
      BY <1>6, <2>1 DEF Update, UpdateControl
    <2> QED
      BY <2>2, <2>3
  <1>7. ASSUME NEW p \in Players, AiPickHero(p)
        PROVE  IInv'
    <2>1. /\ UNCHANGED <<confirmed, loop, dead, unwatched, status, room>>
          /\ pc = "loop" /\ todo' = todo \ {p} /\ "update" \in Coroutines
      BY <1>7 DEF AiPickHero, Coroutines
    <2>2. PICK r \in Roles :
            IF CanPick(r)
              THEN /\ picked' = [picked EXCEPT ![p] = r]
                   /\ co' = [co EXCEPT !["update"] = Call("picked", p, r)]
                   /\ pc' = "ai" /\ UNCHANGED max_pickTime
              ELSE CheckReady /\ UNCHANGED <<picked, co, pc>>
      BY <1>7 DEF AiPickHero
    <2>3. CASE CanPick(r)
      <3>1. r \in Ids
        BY DEF Ids
      <3>2. /\ PickedDistinct' /\ picked' \in [Players -> Picks] /\ picked'[p] # NoHero
            /\ \A q \in Players : picked[q] # NoHero => picked'[q] # NoHero
        BY <2>2, <2>3, <3>1, PickKeepsDistinct
      <3>3. /\ co' \in [Coroutines -> {IdleCo} \cup CallSet]
            /\ \A d \in Coroutines : d # "update" => co'[d] = co[d]
            /\ co'["update"].who = p
        BY <2>1, <2>2, <2>3, <3>1 DEF TypeOK, Call, CallSet
      <3>4. TypeOK'
        BY <2>1, <2>2, <2>3, <3>2, <3>3 DEF TypeOK
      <3>5. HasPicked'
        BY <2>1, <3>2, <3>3 DEF HasPicked, TypeOK, CallSet, IdleCo
      <3>6. EarlyEnd'
        BY <2>1, <2>2, <2>3, <3>2 DEF EarlyEnd
      <3>7. UpdateControl' /\ RoomPicks'
        BY <2>1, <2>2, <2>3 DEF UpdateControl, RoomPicks
      <3> QED
        BY <3>2, <3>4, <3>5, <3>6, <3>7
    <2>4. CASE ~CanPick(r)
      <3>1. CheckReady /\ UNCHANGED <<picked, co, pc>>
        BY <2>2, <2>4
      <3>2. max_pickTime' \in Int /\ EarlyEnd' /\ (max_pickTime < 0 => max_pickTime' < 0)
        BY <2>1, <3>1, CheckReadySound
      <3>3. TypeOK'
        BY <2>1, <3>1, <3>2 DEF TypeOK
      <3> QED
        BY <2>1, <3>1, <3>2, <3>3 DEF PickedDistinct, HasPicked, UpdateControl, RoomPicks
    <2> QED
      BY <2>3, <2>4
  <1>8. CASE AiPickNotified
    <2> DEFINE p == co["update"].who
    <2>1. /\ UNCHANGED <<picked, confirmed, max_pickTime, pc, loop, todo, dead, unwatched, status, room>>
          /\ co["update"].at = "picked" /\ "update" \in Coroutines
          /\ co' = [co EXCEPT !["update"] = Call("bind", p, picked[p])]
      BY <1>8 DEF AiPickNotified, Coroutines
    <2>2. co["update"] \in CallSet /\ co["update"] # IdleCo
      BY <2>1, CallIsNotIdle
    <2>3. p \in Players /\ picked[p] # NoHero
      BY <2>1, <2>2 DEF CallSet, HasPicked
    <2>4. picked[p] \in Ids
      BY <2>3 DEF TypeOK, Picks
    <2>5. Call("bind", p, picked[p]) \in CallSet /\ Call("bind", p, picked[p]).who = p
      BY <2>3, <2>4 DEF Call, CallSet
    <2>6. TypeOK'
      BY <2>1, <2>5 DEF TypeOK
    <2>7. HasPicked'
      BY <2>1, <2>2, <2>3, <2>5 DEF HasPicked, TypeOK
    <2>8. PickedDistinct' /\ EarlyEnd' /\ RoomPicks'
      BY <2>1 DEF PickedDistinct, EarlyEnd, RoomPicks
    <2>9. UpdateControl'
      BY <2>1, <2>2 DEF UpdateControl
    <2> QED
      BY <2>6, <2>7, <2>8, <2>9
  <1>9. ASSUME NEW p \in Players, Visit(p)
        PROVE  IInv'
    <2>1. /\ UNCHANGED <<picked, max_pickTime, co, pc, loop, dead, unwatched, status, room>>
          /\ todo' = todo \ {p}
      BY <1>9 DEF Visit
    <2>2. CASE NeedsConfirm(p)
      <3>1. confirmed' = [confirmed EXCEPT ![p] = picked[p]] /\ picked[p] # NoHero
        BY <1>9, <2>2 DEF Visit, NeedsConfirm
      <3>2. TypeOK'
        BY <2>1, <3>1 DEF TypeOK
      <3>3. \A q \in Players : confirmed'[q] = IF q = p THEN picked[p] ELSE confirmed[q]
        BY <3>1 DEF TypeOK
      <3>4. HasPicked' /\ EarlyEnd'
        BY <2>1, <3>1, <3>3 DEF HasPicked, EarlyEnd
      <3> QED
        BY <2>1, <3>2, <3>4 DEF PickedDistinct, UpdateControl, RoomPicks
    <2>3. CASE ~NeedsConfirm(p)
      <3>1. confirmed' = confirmed
        BY <1>9, <2>3 DEF Visit
      <3>2. TypeOK'
        BY <2>1, <3>1 DEF TypeOK
      <3> QED
        BY <2>1, <3>1, <3>2 DEF PickedDistinct, HasPicked, EarlyEnd, UpdateControl, RoomPicks
    <2> QED
      BY <2>2, <2>3
  <1>10. CASE LoopDone
    <2>1. /\ UNCHANGED <<picked, confirmed, co, loop, todo, dead, unwatched, status, room>>
          /\ pc = "loop"
          /\ IF loop = "tick" THEN pc' = "sleep" /\ max_pickTime' = max_pickTime - 100
                              ELSE pc' = "newroom" /\ UNCHANGED max_pickTime
      BY <1>10 DEF LoopDone
    <2>2. max_pickTime' \in Int /\ max_pickTime' % 100 = max_pickTime % 100
      BY <2>1, WholeSeconds DEF TypeOK
    <2>3. TypeOK' /\ PickedDistinct' /\ HasPicked' /\ EarlyEnd' /\ RoomPicks'
      BY <2>1, <2>2 DEF TypeOK, PickedDistinct, HasPicked, EarlyEnd, RoomPicks
    <2>4. UpdateControl'
      BY <2>1 DEF UpdateControl, TypeOK
    <2> QED
      BY <2>3, <2>4
  <1>11. CASE StartRoom
    <2>1. /\ UNCHANGED <<picked, confirmed, max_pickTime, co, loop, todo, dead, unwatched, status>>
          /\ room' = [picked |-> picked, confirmed |-> confirmed]
          /\ pc = "newroom" /\ pc' = "start"
      BY <1>11 DEF StartRoom
    <2>2. TypeOK' /\ PickedDistinct' /\ HasPicked' /\ EarlyEnd' /\ UpdateControl'
      BY <2>1 DEF TypeOK, PickedDistinct, HasPicked, EarlyEnd, UpdateControl
    <2>3. RoomPicks'
      BY <2>1 DEF RoomPicks, PickedDistinct, HasPicked
    <2> QED
      BY <2>2, <2>3
  <1>12. CASE EnterMap
    BY <1>12 DEF EnterMap, TypeOK, PickedDistinct, HasPicked, EarlyEnd, UpdateControl,
                 RoomPicks
  <1>13. ASSUME NEW p \in Players, AgentExits(p)
         PROVE  IInv'
    BY <1>13 DEF AgentExits, TypeOK, PickedDistinct, HasPicked, EarlyEnd, UpdateControl,
                 RoomPicks
  <1>14. CASE QuitPick
    BY <1>14 DEF QuitPick, TypeOK, PickedDistinct, HasPicked, EarlyEnd, UpdateControl,
                 RoomPicks
  <1>15. CASE UNCHANGED vars
    BY <1>15 DEF vars, TypeOK, PickedDistinct, HasPicked, EarlyEnd, UpdateControl,
                 RoomPicks
  <1> QED
    BY <1>1, <1>2, <1>3, <1>4, <1>5, <1>6, <1>7, <1>8, <1>9, <1>10, <1>11, <1>12, <1>13,
       <1>14, <1>15 DEF Next, ClientNext, ConfirmNext, UpdateNext, Over

(* The service's state always has the shape the code gives it.             *)
THEOREM TypeCorrect == Spec => []TypeOK
  <1>1. IInv => TypeOK
    BY DEF IInv
  <1> QED
    BY <1>1, InitIInv, NextIInv, PTL DEF Spec

(* Whatever the interleaving, picks stay distinct (pickHero.lua:49-57).    *)
THEOREM PicksStayDistinct == Spec => []PickedDistinct
  <1>1. IInv => PickedDistinct
    BY DEF IInv
  <1> QED
    BY <1>1, InitIInv, NextIInv, PTL DEF Spec

(* Only a unanimous confirmation cuts the selection short                  *)
(* (pickHero.lua:98-107).                                                  *)
THEOREM EarlyEndIsUnanimous == Spec => []EarlyEnd
  <1>1. IInv => EarlyEnd
    BY DEF IInv
  <1> QED
    BY <1>1, InitIInv, NextIInv, PTL DEF Spec

(* The room gets distinct heroes, one for everyone who confirmed, and only *)
(* when the time is up (pickHero.lua:10-14, 141-152).                      *)
THEOREM RoomIsComplete == Spec => []RoomComplete
  <1>1. IInv => RoomComplete
    BY DEF IInv, RoomComplete, RoomPicks, UpdateControl
  <1> QED
    BY <1>1, InitIInv, NextIInv, PTL DEF Spec
=============================================================================
