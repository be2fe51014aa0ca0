------------------------------- MODULE Timer --------------------------------
(***************************************************************************)
(* The timing wheel of skynet_timer.c: a list for each of the next ticks    *)
(* and four levels of coarser lists, whose nodes come down as time comes    *)
(* near.  The timer thread works through the ticks; while it hands over the *)
(* messages of a list it does not hold the lock, and other threads add      *)
(* timers.                                                                  *)
(*                                                                         *)
(* The time is an unsigned number of as many bits as the wheel has, and it  *)
(* wraps around.                                                           *)
(***************************************************************************)
EXTENDS Integers, Sequences, SequencesExt

CONSTANTS NearShift,    \* TIME_NEAR_SHIFT
          LevelShift,   \* TIME_LEVEL_SHIFT
          Timers,       \* the timers that may be pending together
          MaxTicks      \* bound on the ticks of one skynet_updatetime

ASSUME WheelAssumption ==
  NearShift \in Nat \ {0} /\ LevelShift \in Nat \ {0} /\ MaxTicks \in Nat \ {0}

VARIABLES time,         \* T->time
          wheel,        \* near (level -1) and t[0..3]
          dispatching,  \* the list that dispatch_list works on
          tpc,          \* where the timer thread is
          ticks,        \* timer_update calls left in this skynet_updatetime
          remaining     \* of each timer: the ticks to wait, -1 if not pending

timerVars == <<time, wheel, dispatching, tpc, ticks, remaining>>

TimeBits == NearShift + 4 * LevelShift
Bits(i) == NearShift + i * LevelShift
Positions == ({-1} \X (0 .. 2 ^ NearShift - 1)) \cup ((0 .. 3) \X (0 .. 2 ^ LevelShift - 1))

(* Arithmetic of powers, which the provers do not know.                      *)
ASSUME PowersAssumption ==
  /\ 2 ^ NearShift \in Nat \ {0, 1} /\ 2 ^ LevelShift \in Nat \ {0, 1}
  /\ \A i \in 0 .. 3 : 2 ^ Bits(i + 1) = 2 ^ Bits(i) * 2 ^ LevelShift
  /\ 2 ^ (TimeBits - 1) \in Nat /\ 2 ^ TimeBits = 2 * 2 ^ (TimeBits - 1)

(* A timeout is a positive int, half of the range of the time.              *)
Timeouts == 1 .. 2 ^ (TimeBits - 1) - 1

TimerInit ==
  /\ time \in {0, 2 ^ TimeBits - 2}
  /\ wheel = [p \in Positions |-> <<>>]
  /\ dispatching = <<>> /\ tpc = "out" /\ ticks = 0
  /\ remaining = [n \in Timers |-> -1]
-----------------------------------------------------------------------------
(* add_node: into a tick's list when only the last bits differ from now,    *)
(* else into the lowest level above which all bits agree.                   *)
Place(expire, now) ==
  IF expire \div 2 ^ NearShift = now \div 2 ^ NearShift
  THEN <<-1, expire % 2 ^ NearShift>>
  ELSE LET agree == {i \in 0 .. 2 : expire \div 2 ^ Bits(i + 1) = now \div 2 ^ Bits(i + 1)}
           level == IF agree = {} THEN 3 ELSE CHOOSE i \in agree : \A j \in agree : i <= j
       IN <<level, (expire \div 2 ^ Bits(level)) % 2 ^ LevelShift>>

AddNode(w, node, now) == [w EXCEPT ![Place(node.expire, now)] = Append(@, node)]

(* move_list: the nodes of a list are added anew, in their order.           *)
MoveList(p, now) ==
  LET added[k \in 0 .. Len(wheel[p])] ==
        IF k = 0 THEN [wheel EXCEPT ![p] = <<>>]
        ELSE AddNode(added[k - 1], wheel[p][k], now)
  IN added[Len(wheel[p])]

(* Fault: the wrapped time is not treated.                                  *)
ShiftedNoWrap(now) ==
  LET index(i) == (now \div 2 ^ Bits(i)) % 2 ^ LevelShift
      levels == {i \in 0 .. 3 : index(i) # 0}
  IN IF now % 2 ^ NearShift # 0 \/ levels = {} THEN wheel
     ELSE LET i == CHOOSE i \in levels : \A j \in levels : i <= j IN MoveList(<<i, index(i)>>, now)

(* timer_shift: when the last bits have become zero, the list of the lowest *)
(* level whose number is not zero comes down; at time 0 the first of the    *)
(* top level.                                                               *)
Shifted(now) ==
  LET index(i) == (now \div 2 ^ Bits(i)) % 2 ^ LevelShift
      levels == {i \in 0 .. 3 : index(i) # 0}
  IN IF now = 0 THEN MoveList(<<3, 0>>, now)
     ELSE IF now % 2 ^ NearShift # 0 THEN wheel
     ELSE LET i == CHOOSE i \in levels : \A j \in levels : i <= j IN MoveList(<<i, index(i)>>, now)
-----------------------------------------------------------------------------
(* The timer thread has the lock except outside timer_update and while it   *)
(* hands over messages.                                                     *)
Unlocked == tpc \in {"out", "hand0", "hand1"}

(* skynet_timeout, timer_add                                                *)
TimerAdd(n, wait) ==
  /\ Unlocked /\ remaining[n] = -1
  /\ wheel' = AddNode(wheel, [id |-> n, expire |-> (time + wait) % 2 ^ TimeBits], time)
  /\ remaining' = [remaining EXCEPT ![n] = wait]
  /\ UNCHANGED <<time, dispatching, tpc, ticks>>

(* skynet_updatetime: the clock has gone on by some ticks since it was last *)
(* read, or by none, or it has been set back, which is no tick.             *)
UpdateTime(d) ==
  /\ tpc = "out" /\ ticks = 0
  /\ ticks' = d
  /\ UNCHANGED <<time, wheel, dispatching, tpc, remaining>>

(* timer_update: what is due before the shift, the shift, what is due then. *)
TimerUpdate ==
  /\ tpc = "out" /\ ticks > 0
  /\ tpc' = "exec0"
  /\ UNCHANGED <<time, wheel, dispatching, ticks, remaining>>

Due == <<-1, time % 2 ^ NearShift>>

(* timer_execute: the list is taken and the lock released.                  *)
Execute ==
  /\ tpc \in {"exec0", "exec1"} /\ wheel[Due] # <<>>
  /\ dispatching' = wheel[Due]
  /\ wheel' = [wheel EXCEPT ![Due] = <<>>]
  /\ tpc' = IF tpc = "exec0" THEN "hand0" ELSE "hand1"
  /\ UNCHANGED <<time, ticks, remaining>>

(* dispatch_list: one message after the other; the service may set its      *)
(* timer again at once.                                                     *)
DispatchNode ==
  /\ tpc \in {"hand0", "hand1"}
  /\ IF dispatching = <<>>
     THEN /\ tpc' = IF tpc = "hand0" THEN "exec0" ELSE "exec1"
          /\ UNCHANGED <<dispatching, remaining>>
     ELSE /\ remaining' = [remaining EXCEPT ![Head(dispatching).id] = -1]
          /\ dispatching' = Tail(dispatching) /\ UNCHANGED tpc
  /\ UNCHANGED <<time, wheel, ticks>>

TimerShift ==
  /\ tpc = "exec0" /\ wheel[Due] = <<>>
  /\ time' = (time + 1) % 2 ^ TimeBits
  /\ wheel' = Shifted(time')
  /\ remaining' = [n \in Timers |-> IF remaining[n] = -1 THEN -1 ELSE remaining[n] - 1]
  /\ tpc' = "exec1"
  /\ UNCHANGED <<dispatching, ticks>>

UpdateDone ==
  /\ tpc = "exec1" /\ wheel[Due] = <<>>
  /\ tpc' = "out" /\ ticks' = ticks - 1
  /\ UNCHANGED <<time, wheel, dispatching, remaining>>

TimerNext ==
  \/ \E n \in Timers, wait \in Timeouts : TimerAdd(n, wait)
  \/ \E d \in 0 .. MaxTicks : UpdateTime(d)
  \/ TimerUpdate \/ Execute \/ DispatchNode \/ TimerShift \/ UpdateDone

TimerSpec == TimerInit /\ [][TimerNext]_timerVars
-----------------------------------------------------------------------------
(* A timer fires at the tick it asked for, never earlier and never later     *)
(* (skynet_timer.c:73-90, 115-136); until then it is where add_node would    *)
(* put it now: no shift skips a list or moves one too late, at any level and *)
(* across the wrap of the time.                                             *)
OnTime ==
  /\ \A i \in DOMAIN dispatching : remaining[dispatching[i].id] = 0
  /\ tpc \in {"out", "exec0"} => \A n \in Timers : remaining[n] # 0
  /\ \A n \in Timers : remaining[n] >= -1
  /\ \A p \in Positions : \A i \in DOMAIN wheel[p] :
       Place(wheel[p][i].expire, time) = p
=============================================================================
