------------------------------ MODULE Affects -------------------------------
(***************************************************************************)
(* The affects on one player (AffectTable.lua): control affects, which      *)
(* count in affectStateRefs while they last, damage that recurs, and         *)
(* damage at once.  The update chain of the room updates the table, applies  *)
(* skills and takes passive skills back; so do requests (learning a skill).  *)
(* They take turns where they tell the clients, which yields: before an      *)
(* affect is inserted, before one is removed, and when the player dies.      *)
(* Telling the clients calls the agents of all players: it raises an error   *)
(* once one of them has exited (EntityManager.lua:9-12), which ends the      *)
(* coroutine where it stands.                                               *)
(*                                                                         *)
(* All affects come from one source.  Damage kills or does not.             *)
(***************************************************************************)
EXTENDS Integers, Sequences, FiniteSets, SequencesExt

CONSTANTS SkillData,    \* of each skill: the kinds of its affects
          Duration,     \* effectTime, in updates
          Requests,     \* the coroutines besides the update chain
          MaxCasts      \* bound on the skills applied

Kinds == {"ctrl", "dot", "hit"}

ASSUME AffectAssumption ==
  /\ Duration \in Nat \ {0} /\ MaxCasts \in Nat
  /\ "chain" \notin Requests /\ IsFiniteSet(Requests)
  /\ \A s \in DOMAIN SkillData : SkillData[s] \in Seq(Kinds)

VARIABLES affects,      \* self.affects, oldest first
          refs,         \* affectStateRefs of the controlled state
          alive,        \* getHp() > 0
          run,          \* of each coroutine: where it is
          casts,        \* the skills applied so far
          exited,       \* the agent of a player has exited
          cut,          \* the coroutines whose call to the agents meets it
          lost          \* the control affects counted and never inserted

affVars == <<affects, refs, alive, run, casts, exited, cut, lost>>

Coroutines == Requests \cup {"chain"}
Idle == [at |-> "idle", i |-> 0, skill |-> "", todo |-> <<>>]

AffInit ==
  /\ affects = <<>> /\ refs = 0 /\ alive = TRUE /\ casts = 0
  /\ exited = FALSE /\ cut = {} /\ lost = 0
  /\ run = [c \in Coroutines |-> Idle]

(* Only one coroutine is between two yields.                                *)
Turn(c) == \A d \in Coroutines \ {c} : run[d].at \notin {"add", "update", "scan"}
At(c, where) == run[c].at = where /\ Turn(c)
Telling == {"tell", "dying", "undo"}

(* A coroutine moves; what it tells the agents from now on meets the one     *)
(* that has exited.                                                         *)
Moves(c, r) ==
  /\ run' = [run EXCEPT ![c] = r]
  /\ cut' = IF exited /\ r.at \in Telling THEN cut \cup {c} ELSE cut \ {c}
  /\ UNCHANGED exited
Goes(c, r) == Moves(c, r) /\ UNCHANGED lost

(* An error ends a coroutine, and with the update chain its timer.          *)
Ended(c) == IF c = "chain" THEN [Idle EXCEPT !.at = "failed"] ELSE Idle

Counted(s) == Cardinality({i \in DOMAIN s : s[i].kind = "ctrl"})

(* AffectTable:clear, in onDead: everything in the table is undone.         *)
Die == alive' = FALSE /\ affects' = <<>> /\ refs' = refs - Counted(affects)
-----------------------------------------------------------------------------
(* buildAffects: a skill hits the living; a passive skill is for its owner. *)
BuildAffects(c, skill) ==
  /\ At(c, "idle") /\ (alive \/ c \in Requests)
  /\ casts < MaxCasts
  /\ casts' = casts + 1
  /\ Goes(c, [at |-> "add", i |-> 0, skill |-> skill, todo |-> SkillData[skill]])
  /\ UNCHANGED <<affects, refs, alive>>

Affect(k, skill) ==
  [kind |-> k, skill |-> skill, status |-> IF k = "hit" THEN "exit" ELSE "exec", left |-> Duration]

(* replaceAdd: an affect that lasts takes the place of those of its name.   *)
Like(aff, other) ==
  aff.kind # "hit" /\ aff.skill = other.skill /\ (aff.kind = "ctrl") = (other.kind = "ctrl")

(* Fault: the replaced affects are not undone.                              *)
ReplacedKept(aff) == 0

(* What undoing the replaced affects takes back.                            *)
Replaced(aff) ==
  Cardinality({i \in DOMAIN affects : Like(aff, affects[i]) /\ affects[i].kind = "ctrl"})

(* What table.remove leaves when only the indexes in `left` stay: the j-th    *)
(* is the one with j - 1 of them before it.                                 *)
Remaining(s, left) ==
  [j \in 1 .. Cardinality(left) |->
     s[CHOOSE i \in left : Cardinality({k \in left : k < i}) = j - 1]]

(* addAffect: onEnter, which may kill, then replaceAdd up to synClient.     *)
AddAffect(c) ==
  /\ At(c, "add") /\ run[c].todo # <<>>
  /\ LET aff == Affect(Head(run[c].todo), run[c].skill)
     IN /\ \/ /\ affects' = Remaining(affects, {i \in DOMAIN affects : ~Like(aff, affects[i])})
              /\ refs' = refs + Counted(<<aff>>) - Replaced(aff)
              /\ UNCHANGED alive
           \/ aff.kind = "hit" /\ alive /\ Die
        /\ Goes(c, [run[c] EXCEPT !.at = "tell"])
  /\ UNCHANGED casts

(* replaceAdd: the clients know, the affect is inserted.                    *)
Insert(c) ==
  /\ At(c, "tell") /\ c \notin cut
  /\ affects' = Append(affects, Affect(Head(run[c].todo), run[c].skill))
  /\ Goes(c, [run[c] EXCEPT !.at = "add", !.todo = Tail(@)])
  /\ UNCHANGED <<refs, alive, casts>>

Built(c) ==
  /\ At(c, "add") /\ run[c].todo = <<>>
  /\ Goes(c, Idle) /\ UNCHANGED <<affects, refs, alive, casts>>
-----------------------------------------------------------------------------
(* AffectTable:update, from the newest affect to the oldest.                *)
Update ==
  /\ At("chain", "idle") /\ alive
  /\ Goes("chain", [Idle EXCEPT !.at = "update", !.i = Len(affects)])
  /\ UNCHANGED <<affects, refs, alive, casts>>

Onward == Goes("chain", [run["chain"] EXCEPT !.i = @ - 1])

(* onExec: the time runs out, or damage recurs and may kill.                *)
OnExec(i) ==
  LET aff == affects[i] IN
  IF aff.left = 1
  THEN /\ affects' = [affects EXCEPT ![i].left = 0, ![i].status = "exit"]
       /\ refs' = refs - Counted(<<aff>>)
       /\ Onward /\ UNCHANGED alive
  ELSE \/ /\ affects' = [affects EXCEPT ![i].left = @ - 1]
          /\ Onward /\ UNCHANGED <<refs, alive>>
       \/ /\ aff.kind = "dot" /\ alive /\ Die
          /\ Goes("chain", [run["chain"] EXCEPT !.at = "dying", !.i = @ - 1])

UpdateOne ==
  LET i == run["chain"].i IN
  /\ At("chain", "update") /\ i \in DOMAIN affects
  /\ IF affects[i].status = "exec" THEN OnExec(i)
     ELSE affects' = RemoveAt(affects, i) /\ Onward /\ UNCHANGED <<refs, alive>>
  /\ UNCHANGED casts

(* onDead has told the clients; the loop goes on.                           *)
Died ==
  /\ At("chain", "dying") /\ "chain" \notin cut
  /\ Goes("chain", [run["chain"] EXCEPT !.at = "update"])
  /\ UNCHANGED <<affects, refs, alive, casts>>

Updated ==
  /\ At("chain", "update") /\ run["chain"].i = 0
  /\ Goes("chain", Idle) /\ UNCHANGED <<affects, refs, alive, casts>>

(* onRaise, which tells the clients last.                                   *)
Raise ==
  /\ At("chain", "idle") /\ ~alive /\ alive' = TRUE
  /\ Goes("chain", IF exited THEN Ended("chain") ELSE Idle)
  /\ UNCHANGED <<affects, refs, casts>>
-----------------------------------------------------------------------------
(* removeBySkillId, when a passive skill ends or is left behind.            *)
RemoveBySkillId(c, skill) ==
  /\ At(c, "idle")
  /\ \E i \in DOMAIN affects : affects[i].skill = skill
  /\ Goes(c, [at |-> "scan", i |-> Len(affects), skill |-> skill, todo |-> <<>>])
  /\ UNCHANGED <<affects, refs, alive, casts>>

Scan(c) ==
  /\ At(c, "scan") /\ run[c].i \in DOMAIN affects \cup {0}
  /\ Goes(c, IF run[c].i = 0 THEN Idle
             ELSE IF affects[run[c].i].skill = run[c].skill THEN [run[c] EXCEPT !.at = "undo"]
             ELSE [run[c] EXCEPT !.i = @ - 1])
  /\ UNCHANGED <<affects, refs, alive, casts>>

(* The clients know; what is now at the index is undone and removed.        *)
Undo(c) ==
  LET i == run[c].i IN
  /\ At(c, "undo") /\ c \notin cut /\ i \in DOMAIN affects
  /\ refs' = refs - Counted(<<affects[i]>>) /\ affects' = RemoveAt(affects, i)
  /\ Goes(c, [run[c] EXCEPT !.at = "scan", !.i = @ - 1])
  /\ UNCHANGED <<alive, casts>>

(* An index beyond the table is an error.                                   *)
IndexError(c) ==
  /\ At(c, "update") \/ At(c, "scan") \/ (At(c, "undo") /\ c \notin cut)
  /\ run[c].i \notin DOMAIN affects \cup {0}
  /\ Goes(c, Ended(c))
  /\ UNCHANGED <<affects, refs, alive, casts>>
-----------------------------------------------------------------------------
(* The agent of a player exits; of the calls under way, `late` have not got   *)
(* its answer.                                                              *)
AgentExits(late) ==
  /\ ~exited /\ exited' = TRUE
  /\ cut' = late /\ late \subseteq {c \in Coroutines : run[c].at \in Telling}
  /\ UNCHANGED <<affects, refs, alive, run, casts, lost>>

(* The call to the exited agent raises: what was to follow the telling does   *)
(* not.  An affect about to be inserted has been counted by onEnter.         *)
TellFails(c) ==
  /\ c \in cut /\ Turn(c)
  /\ lost' = IF run[c].at = "tell" /\ Head(run[c].todo) = "ctrl" THEN lost + 1 ELSE lost
  /\ Moves(c, Ended(c))
  /\ UNCHANGED <<affects, refs, alive, casts>>

AffNext ==
  \/ \E c \in Coroutines :
       \/ \E s \in DOMAIN SkillData : BuildAffects(c, s) \/ RemoveBySkillId(c, s)
       \/ AddAffect(c) \/ Insert(c) \/ Built(c) \/ Scan(c) \/ Undo(c)
       \/ IndexError(c) \/ TellFails(c)
  \/ \E late \in SUBSET Coroutines : AgentExits(late)
  \/ Update \/ UpdateOne \/ Died \/ Updated \/ Raise

AffSpec == AffInit /\ [][AffNext]_affVars
-----------------------------------------------------------------------------
(* The control affects in force, and those about to be inserted.            *)
InForce(s) == {i \in DOMAIN s : s[i].kind = "ctrl" /\ s[i].status = "exec"}
Coming == {c \in Coroutines : run[c].at = "tell" /\ Head(run[c].todo) = "ctrl"}

(* A control affect never outlasts itself while the players' agents are      *)
(* there: the count in affectStateRefs is at most the affects in force, in   *)
(* the table or about to be inserted, although affects are undone by running *)
(* out, replacement, removal through a stale index and death                 *)
(* (AffectTable.lua:26-189).  When an agent has exited the count stays too    *)
(* high by the affects whose telling (AffectTable.lua:140) failed after       *)
(* onEnter (:124), and by nothing else.                                     *)
NoAffectOutlasts ==
  /\ refs <= Cardinality(InForce(affects)) + Cardinality(Coming) + lost
  /\ lost > 0 => exited

(* The room updates its entities every 0.03 s (room.lua:193): the chain of   *)
(* updates does not end while the agents are there.                         *)
UpdatesGoOn == run["chain"].at = "failed" => exited
=============================================================================
