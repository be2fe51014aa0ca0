----------------------------- MODULE EventStamp -----------------------------
(***************************************************************************)
(* How the clients follow an entity of a room (Ientity.lua,                 *)
(* EventStampHandle.lua, room.lua): a client asks with the stamp it has;    *)
(* the room answers at once when the entity has a newer one, and else keeps  *)
(* the question until the entity changes.  One answer serves everybody who   *)
(* waits.  Modelled for life and mana, where the answer also carries the     *)
(* reasons of the changes and then forgets them; the entity is a monster,    *)
(* which is taken out of the room some time after it has died.              *)
(***************************************************************************)
EXTENDS Integers, FiniteSets

CONSTANTS Watchers,     \* the clients
          Reasons,      \* HpMpMask
          MaxStamp      \* bound on the changes

ASSUME StampAssumption == MaxStamp \in Nat

VARIABLES stamp,            \* serverEventStamps[Hp_Mp]
          newClientReq,     \* somebody waits for a change
          waiting,          \* coroutine_response: the questions kept
          mask,             \* maskHpMpChange
          HpMpChange,       \* mana has changed since the last update
          known,            \* of each client: the stamp it has
          life,             \* of the entity
          told, done        \* history: reasons that were sent, and that occurred

stampVars == <<stamp, newClientReq, waiting, mask, HpMpChange, known, life, told, done>>

StampInit ==
  /\ stamp = 0 /\ newClientReq = FALSE /\ waiting = {} /\ mask = {}
  /\ HpMpChange = TRUE /\ known = [c \in Watchers |-> 0] /\ life = "alive"
  /\ told = {} /\ done = {}
-----------------------------------------------------------------------------
(* Fault: the reasons are forgotten before the answer is made.              *)
AnswerUnmasked(questions, now, reasons) ==
  /\ known' = [c \in Watchers |-> IF \E q \in questions : q.by = c THEN now ELSE known[c]]
  /\ waiting' = {} /\ newClientReq' = FALSE
  /\ mask' = {} /\ told' = told

(* respClientEventStamp and onRespClientEventStamp: everybody who waits gets *)
(* the same answer.                                                         *)
Answer(questions, now, reasons) ==
  /\ known' = [c \in Watchers |-> IF \E q \in questions : q.by = c THEN now ELSE known[c]]
  /\ waiting' = {} /\ newClientReq' = FALSE
  /\ mask' = {} /\ told' = IF questions = {} THEN told ELSE told \cup reasons

(* advanceEventStamp                                                        *)
AdvanceEventStamp(reasons) ==
  /\ stamp < MaxStamp /\ stamp' = stamp + 1
  /\ IF newClientReq THEN Answer(waiting, stamp + 1, reasons)
     ELSE mask' = reasons /\ UNCHANGED <<newClientReq, waiting, known, told>>

(* Fault: the question is kept after the stamps have been compared.         *)
QueryEventLate(c) ==
  LET q == [by |-> c, stamp |-> known[c]]
  IN
  /\ life # "gone"
  /\ IF stamp > known[c]
     THEN /\ known' = known /\ waiting' = {q} /\ newClientReq' = FALSE /\ mask' = {}
          /\ told' = told \cup mask
     ELSE newClientReq' = TRUE /\ waiting' = waiting \cup {q} /\ UNCHANGED <<known, mask, told>>
  /\ UNCHANGED <<stamp, HpMpChange, life, done>>

(* query_event_func, with createHandleCoroutine and checkeventStamp; for an  *)
(* entity that is gone the answer is empty.                                 *)
QueryEvent(c) ==
  LET asked == waiting \cup {[by |-> c, stamp |-> known[c]]}
  IN
  /\ life # "gone"
  /\ IF stamp > known[c] THEN Answer(asked, stamp, mask)
     ELSE newClientReq' = TRUE /\ waiting' = asked /\ UNCHANGED <<known, mask, told>>
  /\ UNCHANGED <<stamp, HpMpChange, life, done>>

(* A client loads the battle anew and knows nothing.                        *)
Reload(c) ==
  /\ known[c] # 0 /\ known' = [known EXCEPT ![c] = 0]
  /\ UNCHANGED <<stamp, newClientReq, waiting, mask, HpMpChange, life, told, done>>

(* addHp; the life may come to its end, for onDead.                         *)
AddHp(r, kills) ==
  /\ life = "alive"
  /\ AdvanceEventStamp(mask \cup {r})
  /\ done' = done \cup {r}
  /\ life' = IF kills THEN "dying" ELSE life
  /\ UNCHANGED HpMpChange

(* addMp: told with the next update.                                        *)
AddMp(r) ==
  /\ life = "alive"
  /\ mask' = mask \cup {r} /\ done' = done \cup {r} /\ HpMpChange' = TRUE
  /\ UNCHANGED <<stamp, newClientReq, waiting, known, life, told>>

(* Ientity:update                                                           *)
UpdateEntity ==
  /\ life = "alive" /\ HpMpChange
  /\ AdvanceEventStamp(mask) /\ HpMpChange' = FALSE
  /\ UNCHANGED <<life, done>>

(* clear_coroutine: whoever waits gets an empty answer.                     *)
ClearCoroutine ==
  /\ life = "dying" /\ life' = "dead" /\ waiting' = {}
  /\ UNCHANGED <<stamp, newClientReq, mask, HpMpChange, known, told, done>>

(* EntityManager:update comes to the dead entity and takes it out.          *)
RemoveEntity ==
  /\ life = "dead" /\ life' = "gone"
  /\ UNCHANGED <<stamp, newClientReq, waiting, mask, HpMpChange, known, told, done>>

StampNext ==
  \/ \E c \in Watchers : QueryEvent(c) \/ Reload(c)
  \/ \E r \in Reasons : AddMp(r) \/ \E kills \in BOOLEAN : AddHp(r, kills)
  \/ UpdateEntity \/ ClearCoroutine \/ RemoveEntity

StampSpec == StampInit /\ [][StampNext]_stampVars
-----------------------------------------------------------------------------
(* Nobody waits for what has already happened: a question that is kept was   *)
(* asked with the newest stamp, and the next change will answer it, whoever  *)
(* asked or was answered in between (Ientity.lua:192-219).                  *)
WaitersUpToDate ==
  /\ \A q \in waiting : q.stamp >= stamp
  /\ waiting # {} => newClientReq

(* Every reason for a change reaches a client or is kept for the next        *)
(* answer; forgetting them after an answer loses none (Ientity.lua:221-225). *)
ReasonsReported == done \subseteq told \cup mask
=============================================================================
