---------------------------- MODULE SkynetProofs ----------------------------
(***************************************************************************)
(* What skynet's processes share.  The lock of the table of handles keeps    *)
(* writers alone, and the contexts that the table holds or a thread has      *)
(* found are not freed, for any number of threads, contexts and slots.  The  *)
(* ring of skynet_mq.c is a queue, whatever its first size and however often  *)
(* it has doubled.  What the gate and its splitter of packages keep of a      *)
(* connection is gone with the connection, and its packages are handed over  *)
(* whole and in order, whatever the peers send and however the bytes are cut. *)
(* And the timing wheel fires a timer at its tick, whatever its size.         *)
(***************************************************************************)
EXTENDS HandleStorage, MessageQueue, Gate, Timer, FiniteSetTheorems,
        SequenceTheorems, WellFoundedInduction, TLAPS
-----------------------------------------------------------------------------
(* The table of handles.                                                    *)

(* The numbers of the table, and what a thread knows.                       *)
Thread ==
  [todo : {"idle", "register", "assign", "find", "count", "release", "retire", "visit", "walk"},
   lock : {"none", "read?", "clear", "counted", "read", "write?", "drain", "write"},
   h : Nat, c : Contexts \cup {Null}, i : Int, n : Nat]

TableType ==
  /\ write \in BOOLEAN /\ slot_size \in Nat \ {0} /\ handle_index \in Nat
  /\ slot \in [0 .. slot_size - 1 -> Contexts \cup {Null}]
  /\ handle \in [Contexts -> Nat]
  /\ th \in [Callers -> Thread]

(* What a thread is about says how it may stand to the lock.                *)
Phase(r, size) ==
  /\ r.todo \in {"idle", "assign", "release", "walk"} => r.lock = "none"
  /\ r.todo = "count" => r.lock = "read"
  /\ r.todo \in {"find", "visit"} => r.lock \in {"read?", "clear", "counted", "read"}
  /\ r.todo \in {"register", "retire"} => r.lock \in {"write?", "drain", "write"}
  /\ r.todo = "visit" => r.i \in 0 .. size - 1
  /\ r.i >= -1

Phases == \A t \in Callers : Phase(th[t], slot_size)

Reading == {"counted", "read"}
Writing == {"drain", "write"}
Readers == {t \in Callers : th[t].lock \in Reading}

(* `read` is the number of threads that have counted themselves, so that a   *)
(* writer that finds it 0 knows that none reads; `write` is set from before   *)
(* a writer waits until it is done, so that no second one comes.            *)
LockInv ==
  /\ read = Cardinality(Readers)
  /\ \A t \in Callers : th[t].lock \in Writing => write
  /\ \A t, u \in Callers : th[t].lock \in Writing /\ th[u].lock \in Writing => t = u
  /\ \A t, u \in Callers : th[t].lock = "write" => th[u].lock # "read"

HandleInv == TableType /\ Phases /\ LockInv

(* A thread counts for `read` while it is a reader.                         *)
Counts(r) == IF r.lock \in Reading THEN 1 ELSE 0
-----------------------------------------------------------------------------
(* What a step of one thread must do to keep the lock sound.                *)
LEMMA OneMoves ==
  ASSUME TableType, LockInv, NEW t \in Callers, NEW r \in Thread, Set(t, r),
         read' = read + Counts(r) - Counts(th[t]),
         \/ write' = write /\ (r.lock \in Writing => th[t].lock \in Writing)
         \/ ~write /\ write' = TRUE
         \/ th[t].lock = "write" /\ r.lock \notin Writing,
         r.lock = "write" => th[t].lock = "write" \/ read = 0,
         r.lock = "read" => th[t].lock = "read" \/ ~write
  PROVE  LockInv'
<1>1. th'[t] = r /\ \A u \in Callers : u # t => th'[u] = th[u]
  BY DEF Set, TableType
<1>2. IsFiniteSet(Readers) /\ Cardinality(Readers) \in Nat
  BY TableAssumption, FS_Subset, FS_CardinalityType DEF Readers, TableAssumption
<1>3. read' = Cardinality(Readers')
  <2>1. Counts(th[t]) = IF t \in Readers THEN 1 ELSE 0 BY DEF Counts, Readers
  <2>2. read = Cardinality(Readers) BY DEF LockInv
  <2>3. CASE r.lock \in Reading
    <3>1. Readers' = Readers \cup {t} BY <1>1, <2>3 DEF Readers
    <3>2. Cardinality(Readers \cup {t}) = IF t \in Readers THEN read ELSE read + 1
      BY <1>2, <2>2, FS_AddElement
    <3>3. Counts(r) = 1 BY <2>3 DEF Counts
    <3>4. QED BY <1>2, <2>1, <2>2, <3>1, <3>2, <3>3
  <2>4. CASE r.lock \notin Reading
    <3>1. Readers' = Readers \ {t} BY <1>1, <2>4 DEF Readers
    <3>2. Cardinality(Readers \ {t}) = IF t \in Readers THEN read - 1 ELSE read
      BY <1>2, <2>2, FS_RemoveElement
    <3>3. Counts(r) = 0 BY <2>4 DEF Counts
    <3>4. QED BY <1>2, <2>1, <2>2, <3>1, <3>2, <3>3
  <2>5. QED BY <2>3, <2>4
<1>4. \A u \in Callers : th'[u].lock \in Writing => write'
  BY <1>1 DEF LockInv, Writing
<1>5. \A u, v \in Callers : th'[u].lock \in Writing /\ th'[v].lock \in Writing => u = v
  BY <1>1 DEF LockInv, Writing
<1>6. \A u, v \in Callers : th'[u].lock = "write" => th'[v].lock # "read"
  <2>1. read = 0 => \A u \in Callers : th[u].lock # "read"
    BY <1>2, FS_EmptySet DEF LockInv, Readers, Reading
  <2>2. ~write => \A u \in Callers : th[u].lock # "write"
    BY DEF LockInv, Writing
  <2>3. QED BY <1>1, <2>1, <2>2 DEF LockInv
<1>7. QED BY <1>3, <1>4, <1>5, <1>6 DEF LockInv

(* The types and phases, when one thread moves and the table may grow.      *)
LEMMA OneThread ==
  ASSUME TableType, Phases, NEW t \in Callers, NEW r \in Thread, Set(t, r),
         slot_size' \in Nat, slot_size' >= slot_size, Phase(r, slot_size')
  PROVE  th' \in [Callers -> Thread] /\ Phases'
<1>1. th'[t] = r /\ (\A u \in Callers : u # t => th'[u] = th[u]) /\ th' \in [Callers -> Thread]
  BY DEF Set, TableType
<1>2. \A u \in Callers : Phase(th[u], slot_size')
  BY DEF Phases, Phase, TableType, Thread
<1>3. QED BY <1>1, <1>2 DEF Phases
-----------------------------------------------------------------------------
(* The steps of the lock itself.                                            *)
LEMMA LockStepKeeps ==
  ASSUME HandleInv, NEW t \in Callers, LockStep(t)
  PROVE  HandleInv'
<1> USE DEF HandleInv
<1>0. th[t] \in Thread /\ Phase(th[t], slot_size) BY DEF TableType, Phases
<1>r. read \in Int
  BY TableAssumption, FS_Subset, FS_CardinalityType DEF LockInv, Readers, TableAssumption
<1> DEFINE at(l) == [th[t] EXCEPT !.lock = l]
<1>a. ASSUME NEW l \in {"read?", "clear", "counted", "read"}, th[t].lock \in {"read?", "clear", "counted"}
      PROVE  at(l) \in Thread /\ at(l).lock = l /\ (th[t].todo # "count" => Phase(at(l), slot_size))
  BY <1>0, <1>a DEF Thread, Phase
<1>b. ASSUME NEW l \in {"write?", "drain", "write"}, th[t].lock \in {"write?", "drain"}
      PROVE  at(l) \in Thread /\ at(l).lock = l /\ Phase(at(l), slot_size)
  BY <1>0, <1>b DEF Thread, Phase
<1>c. th[t].lock # "read" => th[t].todo # "count" BY <1>0 DEF Phase
<1> HIDE DEF at
<1>1. CASE ReadWaits(t)
  <2>1. Set(t, at("clear")) /\ read' = read /\ write' = write /\ th[t].lock = "read?"
        /\ UNCHANGED tableVars
    BY <1>1 DEF at, ReadWaits, lockVars
  <2>2. at("clear") \in Thread /\ at("clear").lock = "clear" BY <1>a, <2>1
  <2>3. read' = read + Counts(at("clear")) - Counts(th[t]) BY <1>r, <2>1, <2>2 DEF Counts, Reading
  <2>4. LockInv' BY <2>1, <2>2, <2>3, OneMoves DEF Writing
  <2>5. TableType' /\ Phases' BY <1>a, <1>c, <2>1, OneThread DEF tableVars, TableType
  <2>6. QED BY <2>4, <2>5
<1>2. CASE ReadCounts(t)
  <2>1. Set(t, at("counted")) /\ read' = read + 1 /\ write' = write /\ th[t].lock = "clear"
        /\ UNCHANGED tableVars
    BY <1>2 DEF at, ReadCounts
  <2>2. at("counted") \in Thread /\ at("counted").lock = "counted" BY <1>a, <2>1
  <2>3. read' = read + Counts(at("counted")) - Counts(th[t]) BY <1>r, <2>1, <2>2 DEF Counts, Reading
  <2>4. LockInv' BY <2>1, <2>2, <2>3, OneMoves DEF Writing
  <2>5. TableType' /\ Phases' BY <1>a, <1>c, <2>1, OneThread DEF tableVars, TableType
  <2>6. QED BY <2>4, <2>5
<1>3. CASE ReadChecked(t) /\ write
  <2>1. Set(t, at("read?")) /\ read' = read - 1 /\ write' = write /\ th[t].lock = "counted"
        /\ UNCHANGED tableVars
    BY <1>3 DEF at, ReadChecked
  <2>2. at("read?") \in Thread /\ at("read?").lock = "read?" BY <1>a, <2>1
  <2>3. read' = read + Counts(at("read?")) - Counts(th[t]) BY <1>r, <2>1, <2>2 DEF Counts, Reading
  <2>4. LockInv' BY <2>1, <2>2, <2>3, OneMoves DEF Writing
  <2>5. TableType' /\ Phases' BY <1>a, <1>c, <2>1, OneThread DEF tableVars, TableType
  <2>6. QED BY <2>4, <2>5
<1>4. CASE ReadChecked(t) /\ ~write
  <2>1. Set(t, at("read")) /\ read' = read /\ write' = write /\ th[t].lock = "counted"
        /\ UNCHANGED tableVars
    BY <1>4 DEF at, ReadChecked
  <2>2. at("read") \in Thread /\ at("read").lock = "read" BY <1>a, <2>1
  <2>3. read' = read + Counts(at("read")) - Counts(th[t]) BY <1>r, <2>1, <2>2 DEF Counts, Reading
  <2>4. LockInv' BY <1>4, <2>1, <2>2, <2>3, OneMoves DEF Writing
  <2>5. TableType' /\ Phases' BY <1>a, <1>c, <2>1, OneThread DEF tableVars, TableType
  <2>6. QED BY <2>4, <2>5
<1>5. CASE WriteLock(t)
  <2>1. Set(t, at("drain")) /\ read' = read /\ ~write /\ write' = TRUE /\ th[t].lock = "write?"
        /\ UNCHANGED tableVars
    BY <1>5 DEF at, WriteLock
  <2>2. at("drain") \in Thread /\ at("drain").lock = "drain" BY <1>b, <2>1
  <2>3. read' = read + Counts(at("drain")) - Counts(th[t]) BY <1>r, <2>1, <2>2 DEF Counts, Reading
  <2>4. LockInv' BY <2>1, <2>2, <2>3, OneMoves DEF Writing
  <2>5. TableType' /\ Phases' BY <1>b, <2>1, OneThread DEF tableVars, TableType
  <2>6. QED BY <2>4, <2>5
<1>6. CASE Drained(t)
  <2>1. Set(t, at("write")) /\ read' = read /\ read = 0 /\ write' = write /\ th[t].lock = "drain"
        /\ UNCHANGED tableVars
    BY <1>6 DEF at, Drained, lockVars
  <2>2. at("write") \in Thread /\ at("write").lock = "write" BY <1>b, <2>1
  <2>3. read' = read + Counts(at("write")) - Counts(th[t]) BY <1>r, <2>1, <2>2 DEF Counts, Reading
  <2>4. LockInv' BY <2>1, <2>2, <2>3, OneMoves DEF Writing
  <2>5. TableType' /\ Phases' BY <1>b, <2>1, OneThread DEF tableVars, TableType
  <2>6. QED BY <2>4, <2>5
<1>7. QED BY <1>1, <1>2, <1>3, <1>4, <1>5, <1>6 DEF LockStep
-----------------------------------------------------------------------------
(* The other steps leave the size of the table, but for Expand.             *)
TableKept ==
  /\ slot_size' = slot_size /\ handle_index' \in Nat
  /\ slot' \in [0 .. slot_size - 1 -> Contexts \cup {Null}]
  /\ handle' \in [Contexts -> Nat]

(* Among them those that do not touch it.                                   *)
LEMMA TableUnchanged ==
  ASSUME TableType, UNCHANGED <<slot_size, slot, handle_index, handle>> PROVE TableKept
  BY DEF TableType, TableKept

(* A thread that has not got the lock does something else.                  *)
LEMMA Quiet ==
  ASSUME HandleInv, NEW t \in Callers, NEW r \in Thread, Set(t, r), Phase(r, slot_size),
         r.lock \notin Reading \cup Writing, th[t].lock \notin Reading \cup Writing,
         UNCHANGED lockVars, TableKept
  PROVE  HandleInv'
<1>1. TableType /\ Phases /\ LockInv /\ read' = read /\ write' = write BY DEF HandleInv, lockVars
<1>2. read \in Int
  BY <1>1, TableAssumption, FS_Subset, FS_CardinalityType DEF LockInv, Readers, TableAssumption
<1>3. read' = read + Counts(r) - Counts(th[t]) BY <1>1, <1>2 DEF Counts
<1>4. LockInv' BY <1>1, <1>3, OneMoves DEF Reading, Writing
<1>5. TableType' /\ Phases' BY <1>1, OneThread DEF TableType, TableKept
<1>6. QED BY <1>4, <1>5 DEF HandleInv

(* A reader gives the lock up.                                              *)
LEMMA ReadUnlock ==
  ASSUME HandleInv, NEW t \in Callers, NEW r \in Thread, Set(t, r), Phase(r, slot_size),
         r.lock \notin Reading \cup Writing, th[t].lock = "read",
         read' = read - 1, write' = write, TableKept
  PROVE  HandleInv'
<1>1. TableType /\ Phases /\ LockInv BY DEF HandleInv
<1>2. read \in Int
  BY <1>1, TableAssumption, FS_Subset, FS_CardinalityType DEF LockInv, Readers, TableAssumption
<1>3. read' = read + Counts(r) - Counts(th[t]) BY <1>2 DEF Counts, Reading
<1>4. LockInv' BY <1>1, <1>3, OneMoves DEF Reading, Writing
<1>5. TableType' /\ Phases' BY <1>1, OneThread DEF TableType, TableKept
<1>6. QED BY <1>4, <1>5 DEF HandleInv

(* A writer gives the lock up.                                              *)
LEMMA WriteUnlock ==
  ASSUME HandleInv, NEW t \in Callers, NEW r \in Thread, Set(t, r), Phase(r, slot_size),
         r.lock \notin Reading \cup Writing, th[t].lock = "write",
         read' = read, write' = FALSE, TableKept
  PROVE  HandleInv'
<1>1. TableType /\ Phases /\ LockInv BY DEF HandleInv
<1>2. read \in Int
  BY <1>1, TableAssumption, FS_Subset, FS_CardinalityType DEF LockInv, Readers, TableAssumption
<1>3. read' = read + Counts(r) - Counts(th[t]) BY <1>2 DEF Counts, Reading
<1>4. LockInv' BY <1>1, <1>3, OneMoves DEF Reading, Writing
<1>5. th' \in [Callers -> Thread] /\ Phases' BY <1>1, OneThread DEF TableType, TableKept
<1>6. write' \in BOOLEAN OBVIOUS
<1>7. TableType' BY <1>1, <1>5, <1>6 DEF TableType, TableKept
<1>8. QED BY <1>4, <1>5, <1>7 DEF HandleInv
-----------------------------------------------------------------------------
(* What a handler asks for begins outside the lock.                         *)
LEMMA AskKeeps ==
  ASSUME HandleInv, NEW t \in Callers, th[t].todo = "idle",
         \/ RetireAll(t)
         \/ \E c \in Contexts : NewContext(t, c)
         \/ \E h \in 1 .. HandleMask : Lookup(t, h) \/ RetireOne(t, h)
  PROVE  HandleInv'
<1>0. th[t] \in Thread /\ TableType /\ Phase(th[t], slot_size)
  BY DEF HandleInv, TableType, Phases
<1>1. /\ th[t].lock \notin Reading \cup Writing
      /\ IdleThread \in Thread /\ IdleThread.i = 0
  BY <1>0 DEF Phase, Reading, Writing, IdleThread, Thread
<1>2. CASE RetireAll(t)
  <2> DEFINE r == [IdleThread EXCEPT !.todo = "visit", !.lock = "read?"]
  <2>a. ASSUME NEW x \in Thread, x.i = 0
        PROVE  [x EXCEPT !.todo = "visit", !.lock = "read?"] \in Thread
    BY <2>a DEF Thread
  <2>b. ASSUME NEW x \in Thread, x.i = 0
        PROVE  LET q == [x EXCEPT !.todo = "visit", !.lock = "read?"]
               IN Phase(q, slot_size) /\ q.lock \notin Reading \cup Writing
    BY <1>0, <2>b DEF Thread, Phase, Reading, Writing, TableType
  <2>1. r \in Thread /\ Phase(r, slot_size) /\ r.lock \notin Reading \cup Writing
    BY <1>1, <2>a, <2>b, Zenon
  <2>2. Set(t, r) /\ UNCHANGED lockVars /\ UNCHANGED <<slot_size, slot, handle_index, handle>>
    BY <1>2 DEF RetireAll, tableVars
  <2> HIDE DEF r
  <2>3. QED BY <1>0, <1>1, <2>1, <2>2, Quiet, TableUnchanged
<1>3. ASSUME NEW c \in Contexts, NewContext(t, c) PROVE HandleInv'
  <2> DEFINE r == [IdleThread EXCEPT !.todo = "register", !.lock = "write?", !.c = c]
  <2>a. ASSUME NEW x \in Thread, x.i = 0
        PROVE  [x EXCEPT !.todo = "register", !.lock = "write?", !.c = c] \in Thread
    BY <2>a DEF Thread
  <2>b. ASSUME NEW x \in Thread, x.i = 0
        PROVE  LET q == [x EXCEPT !.todo = "register", !.lock = "write?", !.c = c]
               IN Phase(q, slot_size) /\ q.lock \notin Reading \cup Writing
    BY <1>0, <2>b DEF Thread, Phase, Reading, Writing
  <2>1. r \in Thread /\ Phase(r, slot_size) /\ r.lock \notin Reading \cup Writing
    BY <1>1, <2>a, <2>b, Zenon
  <2>2. Set(t, r) /\ UNCHANGED lockVars BY <1>3 DEF NewContext
  <2>3. TableKept BY <1>0, <1>3 DEF NewContext, TableType, TableKept
  <2> HIDE DEF r
  <2>4. QED BY <1>1, <2>1, <2>2, <2>3, Quiet
<1>4. ASSUME NEW h \in 1 .. HandleMask, Lookup(t, h) PROVE HandleInv'
  <2> DEFINE r == [IdleThread EXCEPT !.todo = "find", !.lock = "read?", !.h = h]
  <2>h. h \in Nat BY TableAssumption DEF TableAssumption
  <2>a. ASSUME NEW x \in Thread, x.i = 0
        PROVE  [x EXCEPT !.todo = "find", !.lock = "read?", !.h = h] \in Thread
    BY <2>h, <2>a DEF Thread
  <2>b. ASSUME NEW x \in Thread, x.i = 0
        PROVE  LET q == [x EXCEPT !.todo = "find", !.lock = "read?", !.h = h]
               IN Phase(q, slot_size) /\ q.lock \notin Reading \cup Writing
    BY <1>0, <2>h, <2>b DEF Thread, Phase, Reading, Writing
  <2>1. r \in Thread /\ Phase(r, slot_size) /\ r.lock \notin Reading \cup Writing
    BY <1>1, <2>a, <2>b, Zenon
  <2>2. Set(t, r) /\ UNCHANGED lockVars /\ UNCHANGED <<slot_size, slot, handle_index, handle>>
    BY <1>4 DEF Lookup, tableVars
  <2> HIDE DEF r
  <2>3. QED BY <1>0, <1>1, <2>1, <2>2, Quiet, TableUnchanged
<1>5. ASSUME NEW h \in 1 .. HandleMask, RetireOne(t, h) PROVE HandleInv'
  <2> DEFINE r == [IdleThread EXCEPT !.todo = "retire", !.lock = "write?", !.h = h, !.i = -1]
  <2>m. -1 \in Int OBVIOUS
  <2>h. h \in Nat BY TableAssumption DEF TableAssumption
  <2>a. ASSUME NEW x \in Thread, x.i = 0, NEW m \in Int, m = -1
        PROVE  [x EXCEPT !.todo = "retire", !.lock = "write?", !.h = h, !.i = m] \in Thread
    BY <2>h, <2>a DEF Thread
  <2>b. ASSUME NEW x \in Thread, x.i = 0, NEW m \in Int, m = -1
        PROVE  LET q == [x EXCEPT !.todo = "retire", !.lock = "write?", !.h = h, !.i = m]
               IN Phase(q, slot_size) /\ q.lock \notin Reading \cup Writing
    BY <1>0, <2>h, <2>b DEF Thread, Phase, Reading, Writing
  <2>1. r \in Thread /\ Phase(r, slot_size) /\ r.lock \notin Reading \cup Writing
    BY <1>1, <2>a, <2>b, <2>m, Zenon
  <2>2. Set(t, r) /\ UNCHANGED lockVars /\ UNCHANGED <<slot_size, slot, handle_index, handle>>
    BY <1>5 DEF RetireOne, tableVars
  <2> HIDE DEF r
  <2>3. QED BY <1>0, <1>1, <2>1, <2>2, Quiet, TableUnchanged
<1>6. QED BY <1>2, <1>3, <1>4, <1>5
-----------------------------------------------------------------------------
(* A number below the size of the table.                                    *)
LEMMA SlotOf ==
  ASSUME TableType, NEW h \in Nat
  PROVE  h % slot_size \in 0 .. slot_size - 1 /\ slot[h % slot_size] \in Contexts \cup {Null}
  BY DEF TableType

(* Among the free slots there is a first one.                               *)
LEMMA FirstFree ==
  ASSUME TableType, FreeAt # {}
  PROVE  LET k == CHOOSE i \in FreeAt : \A j \in FreeAt : i <= j
         IN k \in FreeAt /\ Number(k) \in Nat
<1>1. FreeAt \subseteq Nat BY DEF FreeAt, TableType
<1> DEFINE R == OpToRel(<, Nat)
<1>a. \A j, i \in Nat : j < i => <<j, i>> \in R BY DEF OpToRel
<1>b. IsWellFoundedOn(R, Nat) BY NatLessThanWellFounded
<1> HIDE DEF R
<1>2. PICK i \in FreeAt : \A j \in FreeAt : ~(<<j, i>> \in R) BY <1>1, <1>b, WFMin
<1>c. \A j \in FreeAt : ~(j < i) BY <1>1, <1>2, <1>a, Zenon
<1>3. \A j \in FreeAt : i <= j BY <1>1, <1>c
<1>4. (CHOOSE k \in FreeAt : \A j \in FreeAt : k <= j) \in FreeAt BY <1>3
<1>5. ASSUME NEW k \in Nat PROVE Number(k) \in Nat
  <2>1. HandleMask + 1 \in Nat \ {0} BY TableAssumption DEF TableAssumption
  <2>2. k + handle_index \in Nat BY DEF TableType
  <2>3. QED BY <2>1, <2>2 DEF Number
<1>6. QED BY <1>1, <1>4, <1>5

(* The steps of registering.                                                *)
LEMMA RegisterKeeps ==
  ASSUME HandleInv, NEW t \in Callers, TakeSlot(t) \/ Expand(t) \/ AssignHandle(t)
  PROVE  HandleInv'
<1>0. th[t] \in Thread /\ TableType /\ Phases /\ LockInv /\ Phase(th[t], slot_size)
  BY DEF HandleInv, TableType, Phases
<1>1. CASE TakeSlot(t)
  <2> DEFINE h == Number(CHOOSE i \in FreeAt : \A j \in FreeAt : i <= j)
             r == [th[t] EXCEPT !.todo = "assign", !.lock = "none", !.h = h]
  <2>1. h \in Nat BY <1>0, <1>1, FirstFree DEF TakeSlot
  <2>2. /\ Set(t, r) /\ th[t].lock = "write" /\ write' = FALSE /\ read' = read
        /\ slot' = [slot EXCEPT ![h % slot_size] = th[t].c]
        /\ handle_index' = h + 1 /\ slot_size' = slot_size /\ handle' = handle
    BY <1>1 DEF TakeSlot
  <2> HIDE DEF h
  <2>3. r \in Thread /\ r.lock = "none" /\ Phase(r, slot_size) BY <1>0, <2>1 DEF Thread, Phase
  <2>4. TableKept BY <1>0, <2>1, <2>2 DEF TableType, TableKept, Thread
  <2> HIDE DEF r
  <2>5. QED BY <2>2, <2>3, <2>4, WriteUnlock DEF Reading, Writing
<1>2. CASE Expand(t)
  <2>1. read' = read /\ write' = write /\ th' = th /\ handle_index' = handle_index /\ handle' = handle
    BY <1>2 DEF Expand, lockVars
  <2>2. LockInv' BY <1>0, <2>1 DEF LockInv, Readers
  <2>3. CASE slot' = slot /\ slot_size' = slot_size
    BY <1>0, <2>1, <2>2, <2>3 DEF HandleInv, TableType, Phases
  <2>4. CASE slot' = Rehash /\ slot_size' = 2 * slot_size
    <3>1. slot_size' \in Nat \ {0} /\ slot_size' >= slot_size BY <1>0, <2>4 DEF TableType
    <3>2. Rehash \in [0 .. 2 * slot_size - 1 -> Contexts \cup {Null}]
      BY <1>0 DEF Rehash, TableType
    <3>3. TableType' BY <1>0, <2>1, <2>4, <3>1, <3>2 DEF TableType
    <3>4. Phases' BY <1>0, <2>1, <3>1 DEF Phases, Phase, TableType, Thread
    <3>5. QED BY <2>2, <3>3, <3>4 DEF HandleInv
  <2>5. QED BY <1>2, <2>3, <2>4 DEF Expand
<1>3. CASE AssignHandle(t)
  <2> DEFINE r == [th[t] EXCEPT !.todo = "release", !.i = -1]
  <2>0. th[t].lock = "none" BY <1>0, <1>3 DEF AssignHandle, Todo, Phase
  <2>m. -1 \in Int OBVIOUS
  <2>a. ASSUME NEW m \in Int, m = -1
        PROVE  [th[t] EXCEPT !.todo = "release", !.i = m] \in Thread
    BY <1>0, <2>a DEF Thread
  <2>b. ASSUME NEW m \in Int, m = -1
        PROVE  LET q == [th[t] EXCEPT !.todo = "release", !.i = m]
               IN q.lock = "none" /\ Phase(q, slot_size)
    BY <1>0, <2>0, <2>b DEF Thread, Phase
  <2>1. r \in Thread /\ r.lock = "none" /\ Phase(r, slot_size)
    BY <2>a, <2>b, <2>m, Zenon
  <2>2. Set(t, r) /\ UNCHANGED lockVars BY <1>3 DEF AssignHandle
  <2>3. TableKept BY <1>0, <1>3 DEF AssignHandle, TableType, TableKept, Thread
  <2> HIDE DEF r
  <2>4. QED BY <2>0, <2>1, <2>2, <2>3, Quiet DEF Reading, Writing
<1>4. QED BY <1>1, <1>2, <1>3

(* The steps of looking up.                                                 *)
LEMMA GrabKeeps ==
  ASSUME HandleInv, NEW t \in Callers, Find(t) \/ Count(t)
  PROVE  HandleInv'
<1>0. th[t] \in Thread /\ TableType /\ Phases /\ LockInv /\ Phase(th[t], slot_size)
  BY DEF HandleInv, TableType, Phases
<1>1. CASE Find(t) /\ Found(th[t].h)
  <2> DEFINE r == [th[t] EXCEPT !.todo = "count", !.c = slot[th[t].h % slot_size]]
  <2>0. slot[th[t].h % slot_size] \in Contexts \cup {Null} BY <1>0, SlotOf DEF Thread
  <2>1. /\ r \in Thread /\ r.lock = "read" /\ th[t].lock = "read" /\ Phase(r, slot_size)
    BY <1>0, <1>1, <2>0 DEF Find, Todo, Thread, Phase
  <2>2. Set(t, r) /\ read' = read /\ write' = write /\ UNCHANGED tableVars
    BY <1>1 DEF Find
  <2> HIDE DEF r
  <2>3. read \in Int
    BY <1>0, TableAssumption, FS_Subset, FS_CardinalityType DEF LockInv, Readers, TableAssumption
  <2>4. read' = read + Counts(r) - Counts(th[t]) BY <2>1, <2>2, <2>3 DEF Counts
  <2>5. LockInv' BY <1>0, <2>1, <2>2, <2>4, OneMoves DEF Writing
  <2>6. TableType' /\ Phases' BY <1>0, <2>1, <2>2, OneThread DEF tableVars, TableType
  <2>7. QED BY <2>5, <2>6 DEF HandleInv
<1>2. CASE Find(t) /\ ~Found(th[t].h)
  <2>1. IdleThread \in Thread /\ IdleThread.lock = "none" /\ Phase(IdleThread, slot_size)
    BY DEF IdleThread, Thread, Phase
  <2>2. /\ Set(t, IdleThread) /\ th[t].lock = "read" /\ read' = read - 1 /\ write' = write
        /\ UNCHANGED <<slot_size, slot, handle_index, handle>>
    BY <1>2 DEF Find, tableVars
  <2>3. QED BY <1>0, <2>1, <2>2, ReadUnlock, TableUnchanged DEF Reading, Writing
<1>3. CASE Count(t)
  <2> DEFINE r == [th[t] EXCEPT !.todo = "release", !.lock = "none", !.i = -1]
  <2>0. th[t].lock = "read" BY <1>0, <1>3 DEF Count, Todo, Phase
  <2>m. -1 \in Int OBVIOUS
  <2>a. ASSUME NEW m \in Int, m = -1
        PROVE  [th[t] EXCEPT !.todo = "release", !.lock = "none", !.i = m] \in Thread
    BY <1>0, <2>a DEF Thread
  <2>b. ASSUME NEW m \in Int, m = -1
        PROVE  LET q == [th[t] EXCEPT !.todo = "release", !.lock = "none", !.i = m]
               IN q.lock = "none" /\ Phase(q, slot_size)
    BY <1>0, <2>b DEF Thread, Phase
  <2>1. r \in Thread /\ r.lock = "none" /\ Phase(r, slot_size)
    BY <2>a, <2>b, <2>m, Zenon
  <2>2. /\ Set(t, r) /\ read' = read - 1 /\ write' = write
        /\ UNCHANGED <<slot_size, slot, handle_index, handle>>
    BY <1>3 DEF Count
  <2> HIDE DEF r
  <2>3. QED BY <1>0, <2>0, <2>1, <2>2, ReadUnlock, TableUnchanged DEF Reading, Writing
<1>4. QED BY <1>1, <1>2, <1>3

(* The steps of retiring, one by one or all.                                *)
LEMMA RetireKeeps ==
  ASSUME HandleInv, NEW t \in Callers, TakeOut(t) \/ LetGo(t) \/ Visit(t) \/ Walk(t)
  PROVE  HandleInv'
<1>0. th[t] \in Thread /\ TableType /\ Phases /\ LockInv /\ Phase(th[t], slot_size)
  BY DEF HandleInv, TableType, Phases
<1>i. IdleThread \in Thread /\ IdleThread.lock = "none" /\ IdleThread.i = 0 /\ Phase(IdleThread, slot_size)
  BY DEF IdleThread, Thread, Phase
<1>1. CASE TakeOut(t)
  <2>0. slot[th[t].h % slot_size] \in Contexts \cup {Null} /\ th[t].h % slot_size \in 0 .. slot_size - 1
    BY <1>0, SlotOf DEF Thread
  <2>1. /\ th[t].lock = "write" /\ write' = FALSE /\ read' = read
        /\ slot_size' = slot_size /\ handle_index' = handle_index /\ handle' = handle
    BY <1>1 DEF TakeOut
  <2>2. TableKept BY <1>0, <1>1, <2>0, <2>1 DEF TakeOut, TableType, TableKept
  <2> DEFINE r == [th[t] EXCEPT !.todo = "release", !.lock = "none", !.n = 1,
                                !.c = slot[th[t].h % slot_size]]
             q == [th[t] EXCEPT !.todo = "walk", !.lock = "none"]
  <2>3. r \in Thread /\ r.lock = "none" /\ Phase(r, slot_size) BY <1>0, <2>0 DEF Thread, Phase
  <2>4. q \in Thread /\ q.lock = "none" /\ Phase(q, slot_size) BY <1>0 DEF Thread, Phase
  <2>5. Set(t, r) \/ Set(t, q) \/ Set(t, IdleThread) BY <1>1 DEF TakeOut, Set
  <2> HIDE DEF r, q
  <2>6. QED BY <1>i, <2>1, <2>2, <2>3, <2>4, <2>5, WriteUnlock DEF Reading, Writing
<1>2. CASE LetGo(t)
  <2> DEFINE q == [th[t] EXCEPT !.todo = "walk", !.c = Null]
  <2>1. q \in Thread /\ q.lock = th[t].lock /\ th[t].lock = "none" /\ Phase(q, slot_size)
    BY <1>0, <1>2 DEF LetGo, Todo, Thread, Phase
  <2>2. Set(t, q) \/ Set(t, IdleThread) BY <1>2 DEF LetGo, Set
  <2>3. UNCHANGED lockVars /\ UNCHANGED <<slot_size, slot, handle_index, handle>>
    BY <1>2 DEF LetGo
  <2> HIDE DEF q
  <2>4. QED BY <1>0, <1>i, <2>1, <2>2, <2>3, Quiet, TableUnchanged DEF Reading, Writing
<1>3. CASE Visit(t)
  <2> DEFINE c == slot[th[t].i]
             h == IF c = Null THEN 0 ELSE handle[c]
             q == [th[t] EXCEPT !.todo = "walk", !.lock = "none"]
             r == [th[t] EXCEPT !.todo = "retire", !.lock = "write?", !.h = h]
  <2>0. h \in Nat BY <1>0, <1>3 DEF Visit, Todo, Phase, TableType
  <2>1. Set(t, IF h = 0 THEN q ELSE r) BY <1>3 DEF Visit
  <2> HIDE DEF h
  <2>2. r \in Thread /\ r.lock = "write?" /\ Phase(r, slot_size) BY <1>0, <2>0 DEF Thread, Phase
  <2>3. q \in Thread /\ q.lock = "none" /\ Phase(q, slot_size) BY <1>0 DEF Thread, Phase
  <2>4. /\ th[t].lock = "read" /\ read' = read - 1 /\ write' = write
        /\ UNCHANGED <<slot_size, slot, handle_index, handle>>
    BY <1>3 DEF Visit, tableVars
  <2> HIDE DEF r, q
  <2>5. Set(t, q) \/ Set(t, r) BY <2>1
  <2>6. QED BY <1>0, <2>2, <2>3, <2>4, <2>5, ReadUnlock, TableUnchanged DEF Reading, Writing
<1>4. CASE Walk(t)
  <2> DEFINE q == [th[t] EXCEPT !.todo = "visit", !.lock = "read?", !.i = th[t].i + 1]
             r == [IdleThread EXCEPT !.todo = "visit", !.lock = "read?"]
  <2>0. th[t].i + 1 \in Int /\ th[t].i + 1 >= -1 /\ th[t].i + 1 >= 0 BY <1>0 DEF Thread, Phase
  <2>1. /\ q \in Thread /\ q.lock = "read?" /\ q.todo = "visit" /\ q.i = th[t].i + 1
    BY <1>0, <2>0 DEF Thread
  <2>a. ASSUME NEW x \in Thread, x.i = 0
        PROVE  [x EXCEPT !.todo = "visit", !.lock = "read?"] \in Thread
    BY <2>a DEF Thread
  <2>b. ASSUME NEW x \in Thread, x.i = 0
        PROVE  LET y == [x EXCEPT !.todo = "visit", !.lock = "read?"]
               IN y.lock = "read?" /\ Phase(y, slot_size)
    BY <1>0, <2>b DEF Thread, Phase, TableType
  <2>2. r \in Thread /\ r.lock = "read?" /\ Phase(r, slot_size) BY <1>i, <2>a, <2>b, Zenon
  <2>3. (Set(t, q) /\ th[t].i + 1 < slot_size) \/ Set(t, IdleThread) \/ Set(t, r)
    BY <1>4 DEF Walk, Set
  <2>4. /\ th[t].lock = "none" /\ UNCHANGED lockVars
        /\ UNCHANGED <<slot_size, slot, handle_index, handle>>
    BY <1>0, <1>4 DEF Walk, Todo, Phase, tableVars
  <2> HIDE DEF r, q
  <2>5. th[t].i + 1 < slot_size => Phase(q, slot_size) BY <1>0, <2>0, <2>1 DEF Phase, TableType
  <2>6. QED BY <1>0, <1>i, <2>1, <2>2, <2>3, <2>4, <2>5, Quiet, TableUnchanged DEF Reading, Writing
<1>5. QED BY <1>1, <1>2, <1>3, <1>4
-----------------------------------------------------------------------------
(* At first nobody has the lock.                                            *)
LEMMA HandleInitInv == HandleInit => HandleInv
<1> SUFFICES ASSUME HandleInit PROVE HandleInv OBVIOUS
<1>0. IdleThread \in Thread BY DEF IdleThread, Thread
<1>1. TableType
  <2>1. write \in BOOLEAN BY DEF HandleInit
  <2>2. SlotSize \in Nat \ {0} BY TableAssumption DEF TableAssumption
  <2>3. QED BY <1>0, <2>1, <2>2 DEF HandleInit, TableType
<1>2. Phases BY DEF HandleInit, Phases, Phase, IdleThread
<1>3. Readers = {} BY DEF HandleInit, Readers, Reading, IdleThread
<1>4. LockInv BY <1>3, FS_EmptySet DEF HandleInit, LockInv, IdleThread, Writing
<1>5. QED BY <1>1, <1>2, <1>4 DEF HandleInv

(* Every step keeps the invariant.                                          *)
LEMMA HandleNextInv == HandleInv /\ [HandleNext]_handleVars => HandleInv'
<1> SUFFICES ASSUME HandleInv, [HandleNext]_handleVars PROVE HandleInv' OBVIOUS
<1>1. CASE UNCHANGED handleVars
  BY <1>1 DEF handleVars, lockVars, tableVars, HandleInv, TableType, Phases, LockInv, Readers
<1>2. CASE HandleNext
  <2>1. PICK t \in Callers :
          \/ LockStep(t)
          \/ TakeSlot(t) \/ Expand(t) \/ AssignHandle(t) \/ Find(t) \/ Count(t)
          \/ TakeOut(t) \/ LetGo(t) \/ Visit(t) \/ Walk(t) \/ RetireAll(t)
          \/ \E c \in Contexts : NewContext(t, c)
          \/ \E h \in 1 .. HandleMask : Lookup(t, h) \/ RetireOne(t, h)
    BY <1>2 DEF HandleNext
  <2>2. RetireAll(t) => th[t].todo = "idle" BY DEF RetireAll, Todo
  <2>3. \A c \in Contexts : NewContext(t, c) => th[t].todo = "idle" BY DEF NewContext, Todo
  <2>4. \A h \in 1 .. HandleMask : Lookup(t, h) \/ RetireOne(t, h) => th[t].todo = "idle"
    BY DEF Lookup, RetireOne, Todo
  <2>5. QED BY <2>1, <2>2, <2>3, <2>4, LockStepKeeps, AskKeeps, RegisterKeeps, GrabKeeps, RetireKeeps
<1>3. QED BY <1>1, <1>2

(* For any number of threads a writer has the table to itself (rwlock.h).   *)
THEOREM LockIsExclusive == HandleSpec => []LockExcludes
<1>1. HandleInv => LockExcludes
  BY DEF HandleInv, LockInv, LockExcludes, Writing
<1>2. QED BY <1>1, HandleInitInv, HandleNextInv, PTL DEF HandleSpec
-----------------------------------------------------------------------------
(* The references to a context: the table has one, or will have when the     *)
(* thread that made the context registers it; so has every thread that made  *)
(* it, counted it or took it out and has not let go.  A thread that has found *)
(* a context and not counted it has none: it relies on the table's.          *)
Owning == {"register", "assign", "release"}
Owners(c) == {t \in Callers : th[t].todo \in Owning /\ th[t].c = c}
Owns(r, c) == IF r.todo \in Owning /\ r.c = c THEN 1 ELSE 0
InTable(c) == \E i \in 0 .. slot_size - 1 : slot[i] = c
Fresh(c) == \E t \in Callers : th[t].todo = "register" /\ th[t].c = c
Listed(c) == IF InTable(c) \/ Fresh(c) THEN 1 ELSE 0

RefsCounted == \A c \in Contexts : ctxref[c] = Cardinality(Owners(c)) + Listed(c)

(* No context is in two slots.                                              *)
OneSlot == \A i, j \in 0 .. slot_size - 1 : slot[i] # Null /\ slot[i] = slot[j] => i = j

(* Nobody else knows a context that is not registered yet.                  *)
Secret ==
  \A t \in Callers : th[t].todo = "register" =>
    ~InTable(th[t].c) /\ \A u \in Callers : th[u].c = th[t].c => u = t

(* What a thread holds is a context, and what it has found is in the table.  *)
Known ==
  \A t \in Callers :
    /\ th[t].todo \in Owning \cup {"count"} => th[t].c \in Contexts
    /\ th[t].todo = "count" => InTable(th[t].c)

RefInv == ctxref \in [Contexts -> Int] /\ RefsCounted /\ OneSlot /\ Secret /\ Known

(* A thread comes to own a context, or lets go of it.                       *)
LEMMA OwnersCount ==
  ASSUME NEW t \in Callers, \A u \in Callers : u # t => th'[u] = th[u], NEW c
  PROVE  /\ Cardinality(Owners(c)) \in Nat
         /\ Cardinality(Owners(c)') = Cardinality(Owners(c)) + Owns(th'[t], c) - Owns(th[t], c)
<1> DEFINE S == Owners(c)  T == Owners(c)'
<1>1. S \subseteq Callers /\ T \subseteq Callers /\ \A u \in Callers : u # t => (u \in S <=> u \in T)
  BY DEF Owners
<1>2. Owns(th'[t], c) = (IF t \in T THEN 1 ELSE 0) /\ Owns(th[t], c) = IF t \in S THEN 1 ELSE 0
  BY DEF Owns, Owners
<1> HIDE DEF S, T
<1>3. IsFiniteSet(S) /\ IsFiniteSet(T) BY <1>1, TableAssumption, FS_Subset DEF TableAssumption
<1>4. Cardinality(S) \in Nat /\ Cardinality(T) \in Nat BY <1>3, FS_CardinalityType
<1>5. (t \in S <=> t \in T) => S = T BY <1>1
<1>6. ASSUME t \in T, t \notin S PROVE Cardinality(T) = Cardinality(S) + 1
  <2>1. T = S \cup {t} BY <1>1, <1>6
  <2>2. QED BY <1>3, <1>6, <2>1, FS_AddElement
<1>7. ASSUME t \in S, t \notin T PROVE Cardinality(T) = Cardinality(S) - 1
  <2>1. T = S \ {t} BY <1>1, <1>7
  <2>2. QED BY <1>3, <1>7, <2>1, FS_RemoveElement
<1>8. Cardinality(T) = Cardinality(S) + (IF t \in T THEN 1 ELSE 0) - (IF t \in S THEN 1 ELSE 0)
  BY <1>4, <1>5, <1>6, <1>7
<1>9. QED BY <1>2, <1>4, <1>8 DEF S, T

(* The counts stay right when what a thread owns and what is listed change   *)
(* together with the count.                                                 *)
LEMMA CountsFollow ==
  ASSUME RefsCounted, NEW t \in Callers, \A u \in Callers : u # t => th'[u] = th[u],
         ctxref \in [Contexts -> Int],
         \A c \in Contexts :
           ctxref'[c] = ctxref[c] + Owns(th'[t], c) - Owns(th[t], c) + Listed(c)' - Listed(c)
  PROVE  RefsCounted'
<1> SUFFICES ASSUME NEW c \in Contexts
             PROVE  ctxref'[c] = Cardinality(Owners(c)') + Listed(c)'
  BY DEF RefsCounted
<1>1. ctxref[c] = Cardinality(Owners(c)) + Listed(c) BY DEF RefsCounted
<1>2. Listed(c) \in Int /\ Listed(c)' \in Int BY DEF Listed
<1>3. Owns(th[t], c) \in Int /\ Owns(th'[t], c) \in Int BY DEF Owns
<1>4. QED BY <1>1, <1>2, <1>3, OwnersCount

(* A step that neither takes nor gives references: the thread goes on with   *)
(* what it holds, or it held nothing and knows at most what is in the table. *)
LEMMA NothingCounted ==
  ASSUME RefInv, NEW t \in Callers, \A u \in Callers : u # t => th'[u] = th[u],
         UNCHANGED <<slot_size, slot, ctxref>>,
         \/ /\ th'[t].c = th[t].c
            /\ \/ th'[t].todo = th[t].todo
               \/ th'[t].todo = "release" /\ th[t].todo = "assign"
               \/ th'[t].todo \notin Owning \cup {"count"} /\ th[t].todo \notin Owning
         \/ /\ th[t].todo \notin Owning /\ th'[t].todo \notin Owning
            /\ (th'[t].c = Null /\ th'[t].todo # "count")
               \/ (th'[t].c \in Contexts /\ InTable(th'[t].c))
  PROVE  RefInv'
<1>0. RefsCounted /\ OneSlot /\ Secret /\ Known /\ ctxref \in [Contexts -> Int] BY DEF RefInv
<1>1. \A c : InTable(c)' <=> InTable(c) BY DEF InTable
<1>2. \A c : Owns(th'[t], c) = Owns(th[t], c) BY DEF Owns, Owning
<1>3. \A c : Fresh(c)' <=> Fresh(c) BY DEF Fresh, Owning
<1>4. \A c : Listed(c)' = Listed(c) BY <1>1, <1>3 DEF Listed
<1>5. \A c \in Contexts :
        ctxref'[c] = ctxref[c] + Owns(th'[t], c) - Owns(th[t], c) + Listed(c)' - Listed(c)
  <2> SUFFICES ASSUME NEW c \in Contexts
               PROVE  ctxref[c] = ctxref[c] + Owns(th'[t], c) - Owns(th[t], c) + Listed(c)' - Listed(c)
    OBVIOUS
  <2>1. ctxref[c] \in Int /\ Listed(c) \in Int /\ Owns(th[t], c) \in Int BY <1>0 DEF Listed, Owns
  <2>2. QED BY <1>2, <1>4, <2>1
<1>6. RefsCounted' BY <1>0, <1>5, CountsFollow
<1>7. OneSlot' BY <1>0 DEF OneSlot
<1>8. Secret'
  <2> SUFFICES ASSUME NEW u \in Callers, th'[u].todo = "register"
               PROVE  ~InTable(th[u].c)' /\ \A v \in Callers : th'[v].c = th'[u].c => v = u
    BY DEF Secret
  <2>1. th[u].todo = "register" /\ th'[u].c = th[u].c BY DEF Owning
  <2>2. th[u].c \in Contexts BY <1>0, <2>1 DEF Known, Owning
  <2>3. ~InTable(th[u].c) /\ \A v \in Callers : th[v].c = th[u].c => v = u BY <1>0, <2>1 DEF Secret
  <2>4. ASSUME NEW v \in Callers, th'[v].c = th'[u].c PROVE v = u
    BY <2>1, <2>2, <2>3, <2>4, TableAssumption DEF TableAssumption
  <2>5. QED BY <1>1, <2>1, <2>3, <2>4
<1>9. Known'
  <2> SUFFICES ASSUME NEW u \in Callers
               PROVE  /\ th'[u].todo \in Owning \cup {"count"} => th'[u].c \in Contexts
                      /\ th'[u].todo = "count" => InTable(th[u].c)'
    BY DEF Known
  <2>1. QED BY <1>0, <1>1 DEF Known, Owning
<1>10. QED BY <1>0, <1>6, <1>7, <1>8, <1>9 DEF RefInv
-----------------------------------------------------------------------------
(* The steps of the lock take no references.                                *)
LEMMA LockStepRefs ==
  ASSUME HandleInv, RefInv, NEW t \in Callers, LockStep(t)
  PROVE  RefInv'
<1>0. th[t] \in Thread /\ TableType BY DEF HandleInv, TableType
<1>1. PICK l \in {"clear", "counted", "read?", "read", "drain", "write"} :
        Set(t, [th[t] EXCEPT !.lock = l])
  BY DEF LockStep, ReadWaits, ReadCounts, ReadChecked, WriteLock, Drained
<1>2. /\ \A u \in Callers : u # t => th'[u] = th[u]
      /\ th'[t].todo = th[t].todo /\ th'[t].c = th[t].c
  BY <1>0, <1>1 DEF Set, TableType, Thread
<1>3. UNCHANGED <<slot_size, slot, ctxref>>
  BY DEF LockStep, ReadWaits, ReadCounts, ReadChecked, WriteLock, Drained, tableVars
<1>4. QED BY <1>2, <1>3, NothingCounted

(* What a handler asks for: only a new context has references, the table's   *)
(* and its maker's.                                                         *)
LEMMA AskRefs ==
  ASSUME HandleInv, RefInv, NEW t \in Callers, th[t].todo = "idle",
         \/ RetireAll(t)
         \/ \E c \in Contexts : NewContext(t, c)
         \/ \E h \in 1 .. HandleMask : Lookup(t, h) \/ RetireOne(t, h)
  PROVE  RefInv'
<1>0. th[t] \in Thread /\ TableType BY DEF HandleInv, TableType
<1>i. IdleThread \in Thread /\ IdleThread.c = Null BY DEF IdleThread, Thread
<1>1. ASSUME NEW r \in Thread, r.todo \in {"visit", "find", "retire"}, r.c = Null, Set(t, r),
             UNCHANGED tableVars
      PROVE  RefInv'
  <2>1. th'[t] = r /\ \A u \in Callers : u # t => th'[u] = th[u] BY <1>0, <1>1 DEF Set, TableType
  <2>2. UNCHANGED <<slot_size, slot, ctxref>> BY <1>1 DEF tableVars
  <2>3. QED BY <1>1, <2>1, <2>2, NothingCounted DEF Owning
<1>2. CASE RetireAll(t)
  <2> DEFINE r == [IdleThread EXCEPT !.todo = "visit", !.lock = "read?"]
  <2>a. ASSUME NEW x \in Thread, x.c = Null
        PROVE  LET q == [x EXCEPT !.todo = "visit", !.lock = "read?"]
               IN q \in Thread /\ q.todo = "visit" /\ q.c = Null
    BY <2>a DEF Thread
  <2>1. r \in Thread /\ r.todo = "visit" /\ r.c = Null BY <1>i, <2>a, Zenon
  <2>2. Set(t, r) /\ UNCHANGED tableVars BY <1>2 DEF RetireAll
  <2> HIDE DEF r
  <2>3. QED BY <1>1, <2>1, <2>2
<1>3. ASSUME NEW h \in 1 .. HandleMask, Lookup(t, h) PROVE RefInv'
  <2> DEFINE r == [IdleThread EXCEPT !.todo = "find", !.lock = "read?", !.h = h]
  <2>h. h \in Nat BY TableAssumption DEF TableAssumption
  <2>a. ASSUME NEW x \in Thread, x.c = Null
        PROVE  LET q == [x EXCEPT !.todo = "find", !.lock = "read?", !.h = h]
               IN q \in Thread /\ q.todo = "find" /\ q.c = Null
    BY <2>h, <2>a DEF Thread
  <2>1. r \in Thread /\ r.todo = "find" /\ r.c = Null BY <1>i, <2>a, Zenon
  <2>2. Set(t, r) /\ UNCHANGED tableVars BY <1>3 DEF Lookup
  <2> HIDE DEF r
  <2>3. QED BY <1>1, <2>1, <2>2
<1>4. ASSUME NEW h \in 1 .. HandleMask, RetireOne(t, h) PROVE RefInv'
  <2> DEFINE r == [IdleThread EXCEPT !.todo = "retire", !.lock = "write?", !.h = h, !.i = -1]
  <2>h. h \in Nat BY TableAssumption DEF TableAssumption
  <2>m. -1 \in Int OBVIOUS
  <2>a. ASSUME NEW x \in Thread, x.c = Null, NEW m \in Int
        PROVE  LET q == [x EXCEPT !.todo = "retire", !.lock = "write?", !.h = h, !.i = m]
               IN q \in Thread /\ q.todo = "retire" /\ q.c = Null
    BY <2>h, <2>a DEF Thread
  <2>1. r \in Thread /\ r.todo = "retire" /\ r.c = Null BY <1>i, <2>a, <2>m, Zenon
  <2>2. Set(t, r) /\ UNCHANGED tableVars BY <1>4 DEF RetireOne
  <2> HIDE DEF r
  <2>3. QED BY <1>1, <2>1, <2>2
<1>5. ASSUME NEW c \in Contexts, NewContext(t, c) PROVE RefInv'
  <2> DEFINE r == [IdleThread EXCEPT !.todo = "register", !.lock = "write?", !.c = c]
  <2>a. ASSUME NEW x \in Thread
        PROVE  LET q == [x EXCEPT !.todo = "register", !.lock = "write?", !.c = c]
               IN q \in Thread /\ q.todo = "register" /\ q.c = c
    BY <2>a DEF Thread
  <2>1. r \in Thread /\ r.todo = "register" /\ r.c = c BY <1>i, <2>a, Zenon
  <2>2. /\ Set(t, r) /\ ctxref[c] = 0 /\ ctxref' = [ctxref EXCEPT ![c] = 2]
        /\ slot' = slot /\ slot_size' = slot_size /\ \A u \in Callers : th[u].c # c
    BY <1>5 DEF NewContext
  <2> HIDE DEF r
  <2>3. th'[t] = r /\ \A u \in Callers : u # t => th'[u] = th[u] BY <1>0, <2>1, <2>2 DEF Set, TableType
  <2>4. RefsCounted /\ OneSlot /\ Secret /\ Known /\ ctxref \in [Contexts -> Int] BY DEF RefInv
  <2>5. Listed(c) = 0
    <3>1. Cardinality(Owners(c)) \in Nat BY <2>3, OwnersCount
    <3>2. Listed(c) \in 0 .. 1 /\ 0 = Cardinality(Owners(c)) + Listed(c)
      BY <2>2, <2>4 DEF RefsCounted, Listed
    <3>3. QED BY <3>1, <3>2
  <2>6. ~InTable(c) BY <2>5 DEF Listed
  <2>7. \A d : InTable(d)' <=> InTable(d) BY <2>2 DEF InTable
  <2>8. Fresh(c)' BY <2>1, <2>3 DEF Fresh
  <2>9. \A d : d # c => (Fresh(d)' <=> Fresh(d)) BY <2>1, <2>3 DEF Fresh
  <2>10. Listed(c)' = 1 BY <2>8 DEF Listed
  <2>11. \A d : d # c => Listed(d)' = Listed(d) BY <2>7, <2>9 DEF Listed
  <2>12. Owns(th'[t], c) = 1 /\ Owns(th[t], c) = 0 BY <2>1, <2>3 DEF Owns, Owning
  <2>13. \A d : d # c => Owns(th'[t], d) = 0 /\ Owns(th[t], d) = 0 BY <2>1, <2>3 DEF Owns, Owning
  <2>14. \A d \in Contexts :
          ctxref'[d] = ctxref[d] + Owns(th'[t], d) - Owns(th[t], d) + Listed(d)' - Listed(d)
    <3> SUFFICES ASSUME NEW d \in Contexts
                 PROVE  ctxref'[d] = ctxref[d] + Owns(th'[t], d) - Owns(th[t], d) + Listed(d)' - Listed(d)
      OBVIOUS
    <3>1. Listed(d) \in Int /\ ctxref[d] \in Int BY <2>4 DEF Listed
    <3>2. CASE d = c BY <2>2, <2>4, <2>5, <2>10, <2>12, <3>2
    <3>3. CASE d # c BY <2>2, <2>4, <2>11, <2>13, <3>1, <3>3
    <3>4. QED BY <3>2, <3>3
  <2>15. RefsCounted' BY <2>3, <2>4, <2>14, CountsFollow
  <2>16. OneSlot' BY <2>2, <2>4 DEF OneSlot
  <2>17. Secret'
    BY <2>1, <2>2, <2>3, <2>4, <2>6, <2>7 DEF Secret
  <2>18. Known' BY <2>1, <2>3, <2>4, <2>7 DEF Known
  <2>19. ctxref' \in [Contexts -> Int] BY <2>2, <2>4
  <2>20. QED BY <2>15, <2>16, <2>17, <2>18, <2>19 DEF RefInv
<1>6. QED BY <1>2, <1>3, <1>4, <1>5

(* The first free slot is free.                                             *)
LEMMA FirstIsFree ==
  ASSUME TableType, FreeAt # {}
  PROVE  LET h == Number(CHOOSE i \in FreeAt : \A j \in FreeAt : i <= j)
         IN h \in Nat /\ h % slot_size \in 0 .. slot_size - 1 /\ slot[h % slot_size] = Null
<1> DEFINE k == CHOOSE i \in FreeAt : \A j \in FreeAt : i <= j
<1>1. k \in FreeAt /\ Number(k) \in Nat BY FirstFree
<1> HIDE DEF k
<1>2. slot[Number(k) % slot_size] = Null BY <1>1 DEF FreeAt
<1>3. Number(k) % slot_size \in 0 .. slot_size - 1 BY <1>1, SlotOf
<1>4. QED BY <1>1, <1>2, <1>3 DEF k

(* Doubling the table keeps every context in it, each in one slot: when the  *)
(* assertion holds no two slots go to the same place.                       *)
LEMMA RehashKeeps ==
  ASSUME TableType, OneSlot, ~Collision, slot' = Rehash, slot_size' = 2 * slot_size
  PROVE  OneSlot' /\ \A c \in Contexts : InTable(c)' <=> InTable(c)
<1> DEFINE place(i) == handle[slot[i]] % (2 * slot_size)
           from(k) == {i \in 0 .. slot_size - 1 : place(i) = k}
<1>1. ASSUME NEW k \in 0 .. 2 * slot_size - 1
      PROVE  slot'[k] = IF from(k) = {} THEN Null ELSE slot[CHOOSE i \in from(k) : TRUE]
  BY DEF Rehash
<1>2. \A i, j \in 0 .. slot_size - 1 : place(i) = place(j) => i = j BY DEF Collision
<1>3. ASSUME NEW i \in 0 .. slot_size - 1, slot[i] \in Contexts
      PROVE  place(i) \in 0 .. 2 * slot_size - 1
  <2>1. handle[slot[i]] \in Nat /\ 2 * slot_size \in Nat \ {0} BY <1>3 DEF TableType
  <2>2. QED BY <2>1
<1> HIDE DEF place
<1>4. ASSUME NEW k \in 0 .. 2 * slot_size - 1, NEW i \in from(k) PROVE slot'[k] = slot[i]
  <2>1. from(k) # {} OBVIOUS
  <2>2. (CHOOSE j \in from(k) : TRUE) \in from(k) BY <2>1
  <2>3. (CHOOSE j \in from(k) : TRUE) = i BY <1>2, <2>2
  <2>4. QED BY <1>1, <2>1, <2>3
<1>5. ASSUME NEW k \in 0 .. 2 * slot_size - 1, slot'[k] # Null
      PROVE  \E i \in from(k) : slot'[k] = slot[i]
  <2>1. from(k) # {} BY <1>1, <1>5
  <2>2. QED BY <1>4, <2>1
<1>n. 0 .. slot_size' - 1 = 0 .. 2 * slot_size - 1 /\ Null \notin Contexts
  BY TableAssumption DEF TableAssumption
<1>6. OneSlot'
  <2> SUFFICES ASSUME NEW k \in 0 .. 2 * slot_size - 1, NEW l \in 0 .. 2 * slot_size - 1,
                      slot'[k] # Null, slot'[k] = slot'[l]
               PROVE  k = l
    BY <1>n DEF OneSlot
  <2>1. PICK i \in from(k) : slot'[k] = slot[i] BY <1>5
  <2>2. PICK j \in from(l) : slot'[l] = slot[j] BY <1>5
  <2>3. i = j BY <2>1, <2>2 DEF OneSlot
  <2>4. QED BY <2>1, <2>2, <2>3
<1>7. ASSUME NEW c \in Contexts, InTable(c) PROVE InTable(c)'
  <2>1. PICK i \in 0 .. slot_size - 1 : slot[i] = c BY <1>7 DEF InTable
  <2>2. place(i) \in 0 .. 2 * slot_size - 1 /\ i \in from(place(i)) BY <1>3, <2>1
  <2>3. slot'[place(i)] = c BY <1>4, <2>1, <2>2
  <2>4. QED BY <1>n, <2>2, <2>3 DEF InTable
<1>8. ASSUME NEW c \in Contexts, InTable(c)' PROVE InTable(c)
  <2>1. PICK k \in 0 .. 2 * slot_size - 1 : slot'[k] = c BY <1>8, <1>n DEF InTable
  <2>2. PICK i \in from(k) : slot'[k] = slot[i] BY <1>5, <1>n, <2>1
  <2>3. QED BY <2>1, <2>2 DEF InTable
<1>9. QED BY <1>6, <1>7, <1>8

(* Registering: the reference of the table, made with the context, becomes   *)
(* the slot's.                                                              *)
LEMMA RegisterRefs ==
  ASSUME HandleInv, RefInv, NEW t \in Callers, TakeSlot(t) \/ Expand(t) \/ AssignHandle(t)
  PROVE  RefInv'
<1>0. th[t] \in Thread /\ TableType /\ Null \notin Contexts
  BY TableAssumption DEF HandleInv, TableType, TableAssumption
<1>r. RefsCounted /\ OneSlot /\ Secret /\ Known /\ ctxref \in [Contexts -> Int] BY DEF RefInv
<1>1. CASE TakeSlot(t)
  <2> DEFINE h == Number(CHOOSE i \in FreeAt : \A j \in FreeAt : i <= j)
             r == [th[t] EXCEPT !.todo = "assign", !.lock = "none", !.h = h]
  <2>1. h \in Nat /\ h % slot_size \in 0 .. slot_size - 1 /\ slot[h % slot_size] = Null
    BY <1>0, <1>1, FirstIsFree DEF TakeSlot
  <2>2. /\ Set(t, r) /\ th[t].todo = "register" /\ slot' = [slot EXCEPT ![h % slot_size] = th[t].c]
        /\ slot_size' = slot_size /\ ctxref' = ctxref
        /\ th[t].lock = "write"
    BY <1>1 DEF TakeSlot, Todo
  <2> HIDE DEF h
  <2>3. r \in Thread /\ r.todo = "assign" /\ r.c = th[t].c BY <1>0, <2>1 DEF Thread
  <2> HIDE DEF r
  <2>4. th'[t] = r /\ \A u \in Callers : u # t => th'[u] = th[u] BY <1>0, <2>2, <2>3 DEF Set, TableType
  <2>5. PICK c \in Contexts : th[t].c = c BY <1>r, <2>2 DEF Known, Owning
  <2>6. PICK k \in 0 .. slot_size - 1 : k = h % slot_size BY <2>1
  <2>7. /\ slot'[k] = c /\ slot[k] = Null
        /\ \A i \in 0 .. slot_size - 1 : i # k => slot'[i] = slot[i]
    BY <1>0, <2>1, <2>2, <2>5, <2>6 DEF TableType
  <2>8. InTable(c)' BY <2>2, <2>7 DEF InTable
  <2>9. \A d \in Contexts : d # c => (InTable(d)' <=> InTable(d)) BY <1>0, <2>2, <2>7 DEF InTable
  <2>10. Fresh(c) BY <2>2, <2>5 DEF Fresh
  <2>11. \A d : d # c => (Fresh(d)' <=> Fresh(d)) BY <2>3, <2>4, <2>5 DEF Fresh
  <2>12. ~InTable(c) /\ \A u \in Callers : th[u].c = c => u = t BY <1>r, <2>2, <2>5 DEF Secret
  <2>13. \A d \in Contexts : Listed(d)' = Listed(d) BY <2>8, <2>9, <2>10, <2>11 DEF Listed
  <2>14. \A d : Owns(th'[t], d) = Owns(th[t], d) BY <2>2, <2>3, <2>4 DEF Owns, Owning
  <2>15. \A d \in Contexts :
          ctxref'[d] = ctxref[d] + Owns(th'[t], d) - Owns(th[t], d) + Listed(d)' - Listed(d)
    <3> SUFFICES ASSUME NEW d \in Contexts
                 PROVE  ctxref[d] = ctxref[d] + Owns(th'[t], d) - Owns(th[t], d) + Listed(d)' - Listed(d)
      BY <2>2
    <3>1. ctxref[d] \in Int /\ Listed(d) \in Int /\ Owns(th[t], d) \in Int BY <1>r DEF Listed, Owns
    <3>2. QED BY <2>13, <2>14, <3>1
  <2>16. RefsCounted' BY <1>r, <2>4, <2>15, CountsFollow
  <2>17. OneSlot'
    <3>1. \A i \in 0 .. slot_size - 1 : slot[i] # c BY <2>12 DEF InTable
    <3>2. QED BY <1>r, <2>2, <2>7, <3>1 DEF OneSlot
  <2>18. Secret'
    <3> SUFFICES ASSUME NEW u \in Callers, th'[u].todo = "register"
                 PROVE  ~InTable(th[u].c)' /\ \A v \in Callers : th'[v].c = th'[u].c => v = u
      BY DEF Secret
    <3>1. u # t /\ th'[u] = th[u] BY <2>3, <2>4
    <3>2. ~InTable(th[u].c) /\ th[u].c # c /\ th[u].c \in Contexts
      BY <1>r, <2>12, <3>1 DEF Secret, Known, Owning
    <3>3. ~InTable(th[u].c)' BY <2>9, <3>1, <3>2
    <3>4. \A v \in Callers : th'[v].c = th[v].c BY <2>3, <2>4
    <3>5. QED BY <1>r, <3>1, <3>3, <3>4 DEF Secret
  <2>19. Known'
    <3> SUFFICES ASSUME NEW u \in Callers
                 PROVE  /\ th'[u].todo \in Owning \cup {"count"} => th'[u].c \in Contexts
                        /\ th'[u].todo = "count" => InTable(th[u].c)'
      BY DEF Known
    <3>1. CASE u = t BY <2>3, <2>4, <2>5, <3>1
    <3>2. CASE u # t
      <4>1. th'[u] = th[u] BY <2>4, <3>2
      <4>2. th[u].todo = "count" => InTable(th[u].c) /\ th[u].c \in Contexts BY <1>r DEF Known
      <4>3. QED BY <1>r, <2>8, <2>9, <4>1, <4>2 DEF Known
    <3>3. QED BY <3>1, <3>2
  <2>20. QED BY <1>r, <2>2, <2>16, <2>17, <2>18, <2>19 DEF RefInv
<1>2. CASE Expand(t)
  <2>1. th' = th /\ ctxref' = ctxref BY <1>2 DEF Expand
  <2>2. OneSlot' /\ \A c \in Contexts : InTable(c)' <=> InTable(c)
    <3>1. CASE slot' = slot /\ slot_size' = slot_size BY <1>r, <3>1 DEF OneSlot, InTable
    <3>2. CASE ~Collision /\ slot' = Rehash /\ slot_size' = 2 * slot_size
      BY <1>0, <1>r, <3>2, RehashKeeps
    <3>3. QED BY <1>2, <3>1, <3>2 DEF Expand
  <2>3. \A c : Fresh(c)' <=> Fresh(c) BY <2>1 DEF Fresh
  <2>4. \A c : Owners(c)' = Owners(c) BY <2>1 DEF Owners
  <2>5. RefsCounted' BY <1>r, <2>1, <2>2, <2>3, <2>4 DEF RefsCounted, Listed
  <2>6. Known' BY <1>r, <2>1, <2>2 DEF Known
  <2>7. Secret' BY <1>r, <2>1, <2>2 DEF Secret, Known, Owning
  <2>8. QED BY <1>r, <2>1, <2>2, <2>5, <2>6, <2>7 DEF RefInv
<1>3. CASE AssignHandle(t)
  <2> DEFINE r == [th[t] EXCEPT !.todo = "release", !.i = -1]
  <2>m. -1 \in Int OBVIOUS
  <2>a. ASSUME NEW m \in Int
        PROVE  LET q == [th[t] EXCEPT !.todo = "release", !.i = m]
               IN q \in Thread /\ q.todo = "release" /\ q.c = th[t].c
    BY <1>0, <2>a DEF Thread
  <2>1. r \in Thread /\ r.todo = "release" /\ r.c = th[t].c BY <2>a, <2>m, Zenon
  <2>2. Set(t, r) /\ th[t].todo = "assign" /\ UNCHANGED <<slot_size, slot, ctxref>>
    BY <1>3 DEF AssignHandle, Todo
  <2> HIDE DEF r
  <2>3. th'[t] = r /\ \A u \in Callers : u # t => th'[u] = th[u] BY <1>0, <2>1, <2>2 DEF Set, TableType
  <2>4. QED BY <2>1, <2>2, <2>3, NothingCounted
<1>4. QED BY <1>1, <1>2, <1>3

(* Looking up: the context found is in the table until it is counted.        *)
LEMMA GrabRefs ==
  ASSUME HandleInv, RefInv, NEW t \in Callers, Find(t) \/ Count(t)
  PROVE  RefInv'
<1>0. th[t] \in Thread /\ TableType /\ Null \notin Contexts
  BY TableAssumption DEF HandleInv, TableType, TableAssumption
<1>r. RefsCounted /\ OneSlot /\ Secret /\ Known /\ ctxref \in [Contexts -> Int] BY DEF RefInv
<1>1. CASE Find(t) /\ Found(th[t].h)
  <2>0. th[t].h \in Nat BY <1>0 DEF Thread
  <2>1. PICK k \in 0 .. slot_size - 1 : k = th[t].h % slot_size BY <1>0, <2>0, SlotOf
  <2>2. slot[k] \in Contexts BY <1>0, <1>1, <2>1 DEF Found, TableType
  <2> DEFINE r == [th[t] EXCEPT !.todo = "count", !.c = slot[k]]
  <2>3. Set(t, r) /\ th[t].todo = "find" /\ UNCHANGED <<slot_size, slot, ctxref>>
    BY <1>1, <2>1 DEF Find, Todo, tableVars
  <2>4. r \in Thread /\ r.todo = "count" /\ r.c = slot[k] BY <1>0, <2>2 DEF Thread
  <2> HIDE DEF r
  <2>5. th'[t] = r /\ \A u \in Callers : u # t => th'[u] = th[u] BY <1>0, <2>3, <2>4 DEF Set, TableType
  <2>6. InTable(slot[k]) BY DEF InTable
  <2>7. th'[t].c \in Contexts /\ InTable(th'[t].c) BY <2>2, <2>4, <2>5, <2>6
  <2>8. QED BY <2>3, <2>4, <2>5, <2>7, NothingCounted DEF Owning
<1>2. CASE Find(t) /\ ~Found(th[t].h)
  <2>1. Set(t, IdleThread) /\ th[t].todo = "find" /\ UNCHANGED <<slot_size, slot, ctxref>>
    BY <1>2 DEF Find, Todo, tableVars
  <2>2. th'[t] = IdleThread /\ \A u \in Callers : u # t => th'[u] = th[u]
    BY <1>0, <2>1 DEF Set, TableType
  <2>3. IdleThread.todo = "idle" /\ IdleThread.c = Null BY DEF IdleThread
  <2>4. QED BY <2>1, <2>2, <2>3, NothingCounted DEF Owning
<1>3. CASE Count(t)
  <2> DEFINE r == [th[t] EXCEPT !.todo = "release", !.lock = "none", !.i = -1]
  <2>m. -1 \in Int OBVIOUS
  <2>a. ASSUME NEW m \in Int
        PROVE  LET q == [th[t] EXCEPT !.todo = "release", !.lock = "none", !.i = m]
               IN q \in Thread /\ q.todo = "release" /\ q.c = th[t].c
    BY <1>0, <2>a DEF Thread
  <2>1. r \in Thread /\ r.todo = "release" /\ r.c = th[t].c BY <2>a, <2>m, Zenon
  <2>2. /\ Set(t, r) /\ th[t].todo = "count" /\ slot' = slot /\ slot_size' = slot_size
        /\ ctxref' = [ctxref EXCEPT ![th[t].c] = @ + 1]
    BY <1>3 DEF Count, Todo
  <2> HIDE DEF r
  <2>3. th'[t] = r /\ \A u \in Callers : u # t => th'[u] = th[u] BY <1>0, <2>1, <2>2 DEF Set, TableType
  <2>4. PICK c \in Contexts : th[t].c = c BY <1>r, <2>2 DEF Known
  <2>5. \A d : InTable(d)' <=> InTable(d) BY <2>2 DEF InTable
  <2>6. \A d : Fresh(d)' <=> Fresh(d) BY <2>1, <2>2, <2>3 DEF Fresh
  <2>7. \A d : Listed(d)' = Listed(d) BY <2>5, <2>6 DEF Listed
  <2>8. \A d : Owns(th'[t], d) = (IF d = c THEN 1 ELSE 0) /\ Owns(th[t], d) = 0
    BY <2>1, <2>2, <2>3, <2>4 DEF Owns, Owning
  <2>9. \A d \in Contexts :
          ctxref'[d] = ctxref[d] + Owns(th'[t], d) - Owns(th[t], d) + Listed(d)' - Listed(d)
    <3> SUFFICES ASSUME NEW d \in Contexts
                 PROVE  ctxref'[d] = ctxref[d] + Owns(th'[t], d) - Owns(th[t], d) + Listed(d)' - Listed(d)
      OBVIOUS
    <3>1. Listed(d) \in Int /\ ctxref[d] \in Int BY <1>r DEF Listed
    <3>2. ctxref'[d] = IF d = c THEN ctxref[d] + 1 ELSE ctxref[d] BY <1>r, <2>2, <2>4
    <3>3. QED BY <2>7, <2>8, <3>1, <3>2
  <2>10. RefsCounted' BY <1>r, <2>3, <2>9, CountsFollow
  <2>11. OneSlot' BY <1>r, <2>2 DEF OneSlot
  <2>12. Secret' BY <1>r, <2>1, <2>2, <2>3, <2>5 DEF Secret
  <2>13. Known' BY <1>r, <2>1, <2>3, <2>4, <2>5 DEF Known
  <2>14. ctxref' \in [Contexts -> Int] BY <1>r, <2>2, <2>4
  <2>15. QED BY <2>10, <2>11, <2>12, <2>13, <2>14 DEF RefInv
<1>4. QED BY <1>1, <1>2, <1>3

(* Retiring: the reference of the slot becomes the thread's, which lets go   *)
(* of it.  No thread has found the context and not counted it, for none      *)
(* reads while this one writes.                                             *)
LEMMA RetireRefs ==
  ASSUME HandleInv, RefInv, NEW t \in Callers, TakeOut(t) \/ LetGo(t) \/ Visit(t) \/ Walk(t)
  PROVE  RefInv'
<1>0. th[t] \in Thread /\ TableType /\ Null \notin Contexts
  BY TableAssumption DEF HandleInv, TableType, TableAssumption
<1>r. RefsCounted /\ OneSlot /\ Secret /\ Known /\ ctxref \in [Contexts -> Int] BY DEF RefInv
<1>i. IdleThread.todo = "idle" /\ IdleThread.c = Null /\ IdleThread \in Thread BY DEF IdleThread, Thread
<1>1. CASE TakeOut(t) /\ Found(th[t].h)
  <2>0. th[t].h \in Nat BY <1>0 DEF Thread
  <2>1. PICK k \in 0 .. slot_size - 1 : k = th[t].h % slot_size BY <1>0, <2>0, SlotOf
  <2>2. PICK c \in Contexts : slot[k] = c BY <1>0, <1>1, <2>1 DEF Found, TableType
  <2> DEFINE r == [th[t] EXCEPT !.todo = "release", !.lock = "none", !.n = 1, !.c = slot[k]]
  <2>3. /\ Set(t, r) /\ th[t].todo = "retire" /\ th[t].lock = "write"
        /\ slot' = [slot EXCEPT ![k] = Null] /\ slot_size' = slot_size /\ ctxref' = ctxref
    BY <1>1, <2>1 DEF TakeOut, Todo
  <2>4. r \in Thread /\ r.todo = "release" /\ r.c = c BY <1>0, <2>2 DEF Thread
  <2> HIDE DEF r
  <2>5. th'[t] = r /\ \A u \in Callers : u # t => th'[u] = th[u] BY <1>0, <2>3, <2>4 DEF Set, TableType
  <2>6. slot'[k] = Null /\ \A i \in 0 .. slot_size - 1 : i # k => slot'[i] = slot[i]
    BY <1>0, <2>3 DEF TableType
  <2>7. InTable(c) BY <2>2 DEF InTable
  <2>8. ~InTable(c)'
    <3>1. \A i \in 0 .. slot_size - 1 : slot[i] = c => i = k BY <1>0, <1>r, <2>2 DEF OneSlot
    <3>2. QED BY <1>0, <2>3, <2>6, <3>1 DEF InTable
  <2>9. \A d \in Contexts : d # c => (InTable(d)' <=> InTable(d)) BY <1>0, <2>2, <2>3, <2>6 DEF InTable
  <2>10. ~Fresh(c) BY <1>r, <2>7 DEF Fresh, Secret
  <2>11. \A d : Fresh(d)' <=> Fresh(d) BY <2>3, <2>4, <2>5 DEF Fresh
  <2>12. Listed(c)' = 0 /\ Listed(c) = 1 BY <2>7, <2>8, <2>10, <2>11 DEF Listed
  <2>13. \A d \in Contexts : d # c => Listed(d)' = Listed(d) BY <2>9, <2>11 DEF Listed
  <2>14. \A d : Owns(th'[t], d) = (IF d = c THEN 1 ELSE 0) /\ Owns(th[t], d) = 0
    BY <2>3, <2>4, <2>5 DEF Owns, Owning
  <2>15. \A d \in Contexts :
          ctxref'[d] = ctxref[d] + Owns(th'[t], d) - Owns(th[t], d) + Listed(d)' - Listed(d)
    <3> SUFFICES ASSUME NEW d \in Contexts
                 PROVE  ctxref[d] = ctxref[d] + Owns(th'[t], d) - Owns(th[t], d) + Listed(d)' - Listed(d)
      BY <2>3
    <3>1. Listed(d) \in Int /\ ctxref[d] \in Int BY <1>r DEF Listed
    <3>2. CASE d = c BY <2>12, <2>14, <3>1, <3>2
    <3>3. CASE d # c BY <2>13, <2>14, <3>1, <3>3
    <3>4. QED BY <3>2, <3>3
  <2>16. RefsCounted' BY <1>r, <2>5, <2>15, CountsFollow
  <2>17. OneSlot' BY <1>r, <2>3, <2>6 DEF OneSlot
  <2>18. Secret'
    <3> SUFFICES ASSUME NEW u \in Callers, th'[u].todo = "register"
                 PROVE  ~InTable(th[u].c)' /\ \A v \in Callers : th'[v].c = th'[u].c => v = u
      BY DEF Secret
    <3>1. u # t /\ th'[u] = th[u] BY <2>4, <2>5
    <3>2. PICK d \in Contexts : th[u].c = d BY <1>r, <3>1 DEF Known, Owning
    <3>3. ~InTable(d) /\ d # c BY <1>r, <2>7, <3>1, <3>2 DEF Secret
    <3>4. ~InTable(d)' BY <2>9, <3>3
    <3>5. \A v \in Callers : th'[v].c = d => th[v].c = d BY <2>4, <2>5, <3>3
    <3>6. QED BY <1>r, <3>1, <3>2, <3>4, <3>5 DEF Secret
  <2>19. Known'
    <3>1. \A u \in Callers : th[u].todo # "count"
      BY <2>3 DEF HandleInv, LockInv, Phases, Phase
    <3>2. QED BY <1>r, <2>4, <2>5, <3>1 DEF Known
  <2>20. QED BY <1>r, <2>3, <2>16, <2>17, <2>18, <2>19 DEF RefInv
<1>2. CASE TakeOut(t) /\ ~Found(th[t].h)
  <2> DEFINE q == [th[t] EXCEPT !.todo = "walk", !.lock = "none"]
  <2>1. q.todo = "walk" /\ q.c = th[t].c /\ q \in Thread BY <1>0 DEF Thread
  <2>2. /\ Set(t, q) \/ Set(t, IdleThread)
        /\ th[t].todo = "retire" /\ UNCHANGED <<slot_size, slot, ctxref>>
    BY <1>2 DEF TakeOut, Todo, Set
  <2> HIDE DEF q
  <2>3. (th'[t] = q \/ th'[t] = IdleThread) /\ \A u \in Callers : u # t => th'[u] = th[u]
    BY <1>0, <1>i, <2>1, <2>2 DEF Set, TableType
  <2>4. QED BY <1>i, <2>1, <2>2, <2>3, NothingCounted DEF Owning
<1>3. CASE LetGo(t)
  <2> DEFINE q == [th[t] EXCEPT !.todo = "walk", !.c = Null]
  <2>1. q.todo = "walk" /\ q.c = Null /\ q \in Thread BY <1>0 DEF Thread
  <2>2. /\ Set(t, q) \/ Set(t, IdleThread)
        /\ th[t].todo = "release" /\ slot' = slot /\ slot_size' = slot_size
        /\ ctxref' = [ctxref EXCEPT ![th[t].c] = @ - 1]
    BY <1>3 DEF LetGo, Todo, Set
  <2> HIDE DEF q
  <2>3. (th'[t] = q \/ th'[t] = IdleThread) /\ \A u \in Callers : u # t => th'[u] = th[u]
    BY <1>0, <1>i, <2>1, <2>2 DEF Set, TableType
  <2>4. th'[t].todo \in {"walk", "idle"} /\ th'[t].c = Null BY <1>i, <2>1, <2>3
  <2>5. PICK c \in Contexts : th[t].c = c BY <1>r, <2>2 DEF Known, Owning
  <2>6. \A d : InTable(d)' <=> InTable(d) BY <2>2 DEF InTable
  <2>7. \A d : Fresh(d)' <=> Fresh(d) BY <2>2, <2>3, <2>4 DEF Fresh
  <2>8. \A d : Listed(d)' = Listed(d) BY <2>6, <2>7 DEF Listed
  <2>9. \A d : Owns(th'[t], d) = 0 /\ Owns(th[t], d) = IF d = c THEN 1 ELSE 0
    BY <2>2, <2>4, <2>5 DEF Owns, Owning
  <2>10. \A d \in Contexts :
          ctxref'[d] = ctxref[d] + Owns(th'[t], d) - Owns(th[t], d) + Listed(d)' - Listed(d)
    <3> SUFFICES ASSUME NEW d \in Contexts
                 PROVE  ctxref'[d] = ctxref[d] + Owns(th'[t], d) - Owns(th[t], d) + Listed(d)' - Listed(d)
      OBVIOUS
    <3>1. Listed(d) \in Int /\ ctxref[d] \in Int BY <1>r DEF Listed
    <3>2. ctxref'[d] = IF d = c THEN ctxref[d] - 1 ELSE ctxref[d] BY <1>r, <2>2, <2>5
    <3>3. QED BY <2>8, <2>9, <3>1, <3>2
  <2>11. RefsCounted' BY <1>r, <2>3, <2>10, CountsFollow
  <2>12. OneSlot' BY <1>r, <2>2 DEF OneSlot
  <2>13. Secret'
    <3> SUFFICES ASSUME NEW u \in Callers, th'[u].todo = "register"
                 PROVE  ~InTable(th[u].c)' /\ \A v \in Callers : th'[v].c = th'[u].c => v = u
      BY DEF Secret
    <3>1. u # t /\ th'[u] = th[u] BY <2>3, <2>4
    <3>2. PICK d \in Contexts : th[u].c = d BY <1>r, <3>1 DEF Known, Owning
    <3>3. ~InTable(d)' BY <1>r, <2>6, <3>1, <3>2 DEF Secret
    <3>4. \A v \in Callers : th'[v].c = d => th[v].c = d BY <1>0, <2>3, <2>4
    <3>5. QED BY <1>r, <3>1, <3>2, <3>3, <3>4 DEF Secret
  <2>14. Known' BY <1>r, <2>3, <2>4, <2>6 DEF Known, Owning
  <2>15. ctxref' \in [Contexts -> Int] BY <1>r, <2>2, <2>5
  <2>16. QED BY <2>11, <2>12, <2>13, <2>14, <2>15 DEF RefInv
<1>4. CASE Visit(t)
  <2> DEFINE c == slot[th[t].i]
             h == IF c = Null THEN 0 ELSE handle[c]
             q == [th[t] EXCEPT !.todo = "walk", !.lock = "none"]
             r == [th[t] EXCEPT !.todo = "retire", !.lock = "write?", !.h = h]
  <2>1. Set(t, IF h = 0 THEN q ELSE r) /\ th[t].todo = "visit" /\ UNCHANGED <<slot_size, slot, ctxref>>
    BY <1>4 DEF Visit, Todo, tableVars
  <2>2. q.todo = "walk" /\ q.c = th[t].c BY <1>0 DEF Thread
  <2>3. h \in Nat BY <1>0, <1>4 DEF Visit, Todo, HandleInv, Phases, Phase, TableType
  <2> HIDE DEF h
  <2>4. r.todo = "retire" /\ r.c = th[t].c BY <1>0, <2>3 DEF Thread
  <2> HIDE DEF q, r
  <2>5. (th'[t] = q \/ th'[t] = r) /\ \A u \in Callers : u # t => th'[u] = th[u]
    BY <1>0, <2>1 DEF Set, TableType
  <2>6. QED BY <2>1, <2>2, <2>4, <2>5, NothingCounted DEF Owning
<1>5. CASE Walk(t)
  <2> DEFINE q == [th[t] EXCEPT !.todo = "visit", !.lock = "read?", !.i = th[t].i + 1]
             r == [IdleThread EXCEPT !.todo = "visit", !.lock = "read?"]
  <2>1. q.todo = "visit" /\ q.c = th[t].c BY <1>0 DEF Thread
  <2>a. ASSUME NEW x \in Thread, x.c = Null
        PROVE  LET y == [x EXCEPT !.todo = "visit", !.lock = "read?"]
               IN y.todo = "visit" /\ y.c = Null
    BY <2>a DEF Thread
  <2>2. r.todo = "visit" /\ r.c = Null BY <1>i, <2>a, Zenon
  <2>3. /\ Set(t, q) \/ Set(t, IdleThread) \/ Set(t, r)
        /\ th[t].todo = "walk" /\ UNCHANGED <<slot_size, slot, ctxref>>
    BY <1>5 DEF Walk, Set, Todo, tableVars
  <2> HIDE DEF q, r
  <2>4. /\ th'[t] = q \/ th'[t] = IdleThread \/ th'[t] = r
        /\ \A u \in Callers : u # t => th'[u] = th[u]
    BY <1>0, <2>3 DEF Set, TableType
  <2>5. QED BY <1>i, <2>1, <2>2, <2>3, <2>4, NothingCounted DEF Owning
<1>6. QED BY <1>1, <1>2, <1>3, <1>4, <1>5
-----------------------------------------------------------------------------
(* At first there are no contexts.                                          *)
LEMMA HandleInitRefs == HandleInit => RefInv
<1> SUFFICES ASSUME HandleInit PROVE RefInv OBVIOUS
<1>0. Null \notin Contexts /\ SlotSize \in Nat \ {0} BY TableAssumption DEF TableAssumption
<1>1. \A t \in Callers : th[t].todo = "idle" BY DEF HandleInit, IdleThread
<1>2. \A i \in 0 .. slot_size - 1 : slot[i] = Null BY <1>0 DEF HandleInit
<1>3. \A c \in Contexts : Owners(c) = {} /\ Listed(c) = 0
  BY <1>0, <1>1, <1>2 DEF Owners, Owning, Listed, InTable, Fresh
<1>4. \A c \in Contexts : ctxref[c] = 0 BY DEF HandleInit
<1>5. RefsCounted BY <1>3, <1>4, FS_EmptySet DEF RefsCounted
<1>6. OneSlot /\ Secret /\ Known BY <1>1, <1>2 DEF OneSlot, Secret, Known, Owning
<1>7. ctxref \in [Contexts -> Int] BY DEF HandleInit
<1>8. QED BY <1>5, <1>6, <1>7 DEF RefInv

(* Every step keeps the counts right.                                       *)
LEMMA HandleNextRefs == HandleInv /\ RefInv /\ [HandleNext]_handleVars => RefInv'
<1> SUFFICES ASSUME HandleInv, RefInv, [HandleNext]_handleVars PROVE RefInv' OBVIOUS
<1>1. CASE UNCHANGED handleVars
  <2>1. th' = th /\ slot' = slot /\ slot_size' = slot_size /\ ctxref' = ctxref
    BY <1>1 DEF handleVars, tableVars
  <2>2. QED BY <2>1 DEF RefInv, RefsCounted, OneSlot, Secret, Known, Owners, Listed, InTable, Fresh
<1>2. CASE HandleNext
  <2>1. PICK t \in Callers :
          \/ LockStep(t)
          \/ TakeSlot(t) \/ Expand(t) \/ AssignHandle(t) \/ Find(t) \/ Count(t)
          \/ TakeOut(t) \/ LetGo(t) \/ Visit(t) \/ Walk(t) \/ RetireAll(t)
          \/ \E c \in Contexts : NewContext(t, c)
          \/ \E h \in 1 .. HandleMask : Lookup(t, h) \/ RetireOne(t, h)
    BY <1>2 DEF HandleNext
  <2>2. RetireAll(t) => th[t].todo = "idle" BY DEF RetireAll, Todo
  <2>3. \A c \in Contexts : NewContext(t, c) => th[t].todo = "idle" BY DEF NewContext, Todo
  <2>4. \A h \in 1 .. HandleMask : Lookup(t, h) \/ RetireOne(t, h) => th[t].todo = "idle"
    BY DEF Lookup, RetireOne, Todo
  <2>5. QED BY <2>1, <2>2, <2>3, <2>4, LockStepRefs, AskRefs, RegisterRefs, GrabRefs, RetireRefs
<1>3. QED BY <1>1, <1>2

(* What is in the table or known to a thread has references left.           *)
LEMMA RefsAlive == HandleInv /\ RefInv => FoundAlive
<1> SUFFICES ASSUME HandleInv, RefInv PROVE FoundAlive OBVIOUS
<1>r. RefsCounted /\ Known BY DEF RefInv
<1>1. ASSUME NEW c \in Contexts
      PROVE  /\ IsFiniteSet(Owners(c)) /\ Cardinality(Owners(c)) \in Nat
             /\ Listed(c) \in 0 .. 1 /\ ctxref[c] = Cardinality(Owners(c)) + Listed(c)
  <2>1. Owners(c) \subseteq Callers BY DEF Owners
  <2>2. IsFiniteSet(Owners(c)) BY <2>1, TableAssumption, FS_Subset DEF TableAssumption
  <2>3. Cardinality(Owners(c)) \in Nat BY <2>2, FS_CardinalityType
  <2>4. Listed(c) \in 0 .. 1 /\ ctxref[c] = Cardinality(Owners(c)) + Listed(c)
    BY <1>r DEF RefsCounted, Listed
  <2>5. QED BY <2>2, <2>3, <2>4
<1>2. ASSUME NEW c \in Contexts, InTable(c) PROVE ctxref[c] > 0
  <2>1. Listed(c) = 1 BY <1>2 DEF Listed
  <2>2. QED BY <1>1, <2>1
<1>3. ASSUME NEW t \in Callers, th[t].todo = "release" PROVE ctxref[th[t].c] > 0
  <2>1. PICK c \in Contexts : th[t].c = c BY <1>r, <1>3 DEF Known, Owning
  <2>2. t \in Owners(c) BY <1>3, <2>1 DEF Owners, Owning
  <2>3. Cardinality(Owners(c)) # 0 BY <1>1, <2>2, FS_EmptySet
  <2>4. QED BY <1>1, <2>1, <2>3
<1>4. ASSUME NEW t \in Callers, th[t].todo = "count" PROVE ctxref[th[t].c] > 0
  BY <1>r, <1>2, <1>4 DEF Known
<1>5. ASSUME NEW i \in 0 .. slot_size - 1, slot[i] # Null PROVE ctxref[slot[i]] > 0
  <2>1. slot[i] \in Contexts BY <1>5 DEF HandleInv, TableType
  <2>2. InTable(slot[i]) BY DEF InTable
  <2>3. QED BY <1>2, <2>1, <2>2
<1>6. QED BY <1>3, <1>4, <1>5 DEF FoundAlive

(* For any number of threads, contexts and slots, what a look-up finds and   *)
(* what the table holds is never freed before it is counted or taken out     *)
(* (skynet_handle.c:142-144).                                               *)
THEOREM FoundIsAlive == HandleSpec => []FoundAlive
<1>1. HandleInit => HandleInv /\ RefInv BY HandleInitInv, HandleInitRefs
<1>2. HandleInv /\ RefInv /\ [HandleNext]_handleVars => (HandleInv /\ RefInv)'
  BY HandleNextInv, HandleNextRefs
<1>3. QED BY <1>1, <1>2, RefsAlive, PTL DEF HandleSpec

-----------------------------------------------------------------------------
(* The ring of a message queue, and the gate.                               *)

(* head and tail lie in the array.                                          *)
RingType ==
  /\ cap \in Nat \ {0, 1} /\ head \in 0 .. cap - 1 /\ tail \in 0 .. cap - 1
  /\ ring \in [0 .. cap - 1 -> MqMessages] /\ fifo \in Seq(MqMessages)

RingInv == RingType /\ RingIsFifo

(* An index that runs over the end begins anew.                             *)
LEMMA AroundInside ==
  ASSUME RingType, NEW i \in 0 .. 2 * cap - 1
  PROVE  /\ Around(i) \in 0 .. cap - 1
         /\ Around(i) = IF i >= cap THEN i - cap ELSE i
  BY DEF RingType, Around

(* A new queue is empty.                                                    *)
LEMMA RingInitInv == MqInit => RingInv
  BY RingAssumption DEF MqInit, RingInv, RingType, RingIsFifo, MqLength, RingAssumption

(* The tail is one step behind the messages that wait.                      *)
LEMMA TailBehind ==
  ASSUME RingInv
  PROVE  /\ tail = Around(head + Len(fifo))
         /\ \A i \in DOMAIN fifo : Around(head + i - 1) # tail
  BY DEF RingInv, RingType, RingIsFifo, MqLength, Around

(* Pushing appends, also when the array is full and doubles.                *)
LEMMA PushKeeps ==
  ASSUME RingInv, NEW m \in MqMessages, MqPush(m)
  PROVE  RingInv'
<1> DEFINE r == [ring EXCEPT ![tail] = m]
           t == Around(tail + 1)
<1> USE DEF RingInv
<1>0. /\ cap \in Nat \ {0, 1} /\ head \in 0 .. cap - 1 /\ tail \in 0 .. cap - 1
      /\ ring \in [0 .. cap - 1 -> MqMessages] /\ fifo \in Seq(MqMessages)
      /\ Len(fifo) \in Nat /\ Len(fifo) < cap /\ DOMAIN fifo = 1 .. Len(fifo)
      /\ MqLength = Len(fifo)
  BY DEF RingType, RingIsFifo
<1>1. /\ fifo' = Append(fifo, m) /\ fifo' \in Seq(MqMessages)
      /\ Len(fifo') = Len(fifo) + 1 /\ DOMAIN fifo' = 1 .. Len(fifo) + 1
      /\ \A i \in 1 .. Len(fifo) : fifo'[i] = fifo[i]
      /\ fifo'[Len(fifo) + 1] = m
  BY <1>0 DEF MqPush
<1>2. /\ r \in [0 .. cap - 1 -> MqMessages] /\ r[tail] = m
      /\ \A j \in 0 .. cap - 1 : j # tail => r[j] = ring[j]
  BY <1>0
<1>3. tail = Around(head + Len(fifo)) /\ \A i \in DOMAIN fifo : Around(head + i - 1) # tail
  BY TailBehind
(* What the ring with the new message holds, place by place.                *)
<1>4. \A i \in 1 .. Len(fifo) + 1 : r[Around(head + i - 1)] = fifo'[i]
  <2>1. ASSUME NEW i \in 1 .. Len(fifo) PROVE r[Around(head + i - 1)] = fifo'[i]
    <3>1. Around(head + i - 1) \in 0 .. cap - 1 BY <1>0 DEF Around
    <3>2. ring[Around(head + i - 1)] = fifo[i] BY <1>0 DEF RingIsFifo
    <3>3. QED BY <1>0, <1>1, <1>2, <1>3, <3>1, <3>2
  <2>2. r[Around(head + (Len(fifo) + 1) - 1)] = fifo'[Len(fifo) + 1]
    <3>1. head + (Len(fifo) + 1) - 1 = head + Len(fifo) BY <1>0
    <3>2. QED BY <1>1, <1>2, <1>3, <3>1
  <2>3. SUFFICES ASSUME NEW i \in 1 .. Len(fifo) + 1 PROVE r[Around(head + i - 1)] = fifo'[i]
    OBVIOUS
  <2>4. CASE i = Len(fifo) + 1 BY <2>2, <2>4
  <2>5. CASE i # Len(fifo) + 1
    <3>1. i \in 1 .. Len(fifo) BY <1>0, <2>5
    <3>2. QED BY <2>1, <3>1
  <2>6. QED BY <2>4, <2>5
<1>5. CASE t # head
  <2>1. ring' = r /\ tail' = t /\ head' = head /\ cap' = cap
    BY <1>5 DEF MqPush
  <2>2. t \in 0 .. cap - 1 BY <1>0 DEF Around
  <2>3. RingType' BY <1>0, <1>1, <1>2, <2>1, <2>2 DEF RingType
  <2>4. MqLength' = Len(fifo') /\ Len(fifo') < cap'
    <3>1. t = IF tail = cap - 1 THEN 0 ELSE tail + 1 BY <1>0 DEF Around
    <3>2. Len(fifo) = IF head <= tail THEN tail - head ELSE tail + cap - head
      BY <1>0 DEF MqLength
    <3>3. MqLength' = IF head <= t THEN t - head ELSE t + cap - head
      BY <2>1 DEF MqLength
    <3>4. (IF head <= t THEN t - head ELSE t + cap - head) = Len(fifo) + 1
      BY <1>0, <1>5, <3>1, <3>2
    <3>5. Len(fifo) + 1 < cap BY <1>0, <1>5, <3>1, <3>2
    <3>6. QED BY <1>1, <2>1, <3>3, <3>4, <3>5
  <2>5. \A i \in DOMAIN fifo' : ring'[Around(head + i - 1)'] = fifo'[i]
    BY <1>1, <1>4, <2>1 DEF Around
  <2>6. QED BY <2>3, <2>4, <2>1, <2>5 DEF RingIsFifo
<1>6. CASE t = head
  <2>1. ring' = Expanded(r) /\ head' = 0 /\ tail' = cap /\ cap' = 2 * cap
    BY <1>6 DEF MqPush
  <2>2. Len(fifo) + 1 = cap
    BY <1>0, <1>6 DEF MqLength, Around
  <2>3. \A i \in 0 .. 2 * cap - 1 : Around(head + (IF i < cap THEN i ELSE i - cap)) \in 0 .. cap - 1
    BY <1>0 DEF Around
  <2>4. Expanded(r) \in [0 .. 2 * cap - 1 -> MqMessages]
    BY <1>2, <2>3 DEF Expanded
  <2>5. RingType'
    <3>1. 2 * cap \in Nat \ {0, 1} /\ 0 \in 0 .. 2 * cap - 1 /\ cap \in 0 .. 2 * cap - 1
      BY <1>0
    <3>2. cap' \in Nat \ {0, 1} /\ head' \in 0 .. cap' - 1 /\ tail' \in 0 .. cap' - 1
      BY <2>1, <3>1
    <3>3. ring' \in [0 .. cap' - 1 -> MqMessages] BY <2>1, <2>4
    <3>4. QED BY <1>1, <3>2, <3>3 DEF RingType
  <2>6. MqLength' = Len(fifo') /\ Len(fifo') < cap'
    BY <1>0, <1>1, <2>1, <2>2 DEF MqLength
  <2>7. ASSUME NEW i \in DOMAIN fifo' PROVE ring'[Around(head + i - 1)'] = fifo'[i]
    <3>1. i \in 1 .. cap /\ i - 1 \in 0 .. 2 * cap - 1 /\ i - 1 < cap
      BY <1>0, <1>1, <2>2
    <3>2. Around(head + i - 1)' = i - 1 BY <1>0, <2>1, <3>1 DEF Around
    <3>3. Expanded(r)[i - 1] = r[Around(head + (i - 1))] BY <3>1 DEF Expanded
    <3>4. head + (i - 1) = head + i - 1 BY <1>0, <3>1
    <3>5. QED BY <1>1, <1>4, <2>1, <3>2, <3>3, <3>4
  <2>8. QED BY <2>1, <2>5, <2>6, <2>7 DEF RingIsFifo
<1>7. QED BY <1>5, <1>6

(* Popping takes the oldest, or finds the queue empty.                      *)
LEMMA PopKeeps ==
  ASSUME RingInv, MqPop
  PROVE  RingInv'
<1> USE DEF RingInv
<1>0. /\ cap \in Nat \ {0, 1} /\ head \in 0 .. cap - 1 /\ tail \in 0 .. cap - 1
      /\ ring \in [0 .. cap - 1 -> MqMessages] /\ fifo \in Seq(MqMessages)
      /\ Len(fifo) \in Nat /\ Len(fifo) < cap /\ DOMAIN fifo = 1 .. Len(fifo)
      /\ MqLength = Len(fifo)
  BY DEF RingType, RingIsFifo
<1>1. ring' = ring /\ cap' = cap /\ tail' = tail BY DEF MqPop
<1>2. CASE head = tail
  <2>1. head' = head /\ fifo' = fifo BY <1>2 DEF MqPop
  <2>2. QED BY <1>1, <2>1 DEF RingType, RingIsFifo, MqLength, Around
<1>3. CASE head # tail
  <2>1. head' = Around(head + 1) /\ fifo' = Tail(fifo) BY <1>3 DEF MqPop
  <2>2. Len(fifo) > 0 BY <1>0, <1>3 DEF MqLength
  <2>3. /\ fifo' \in Seq(MqMessages) /\ Len(fifo') = Len(fifo) - 1
        /\ DOMAIN fifo' = 1 .. Len(fifo) - 1
        /\ \A i \in 1 .. Len(fifo) - 1 : fifo'[i] = fifo[i + 1]
    BY <1>0, <2>1, <2>2
  <2>4. head' \in 0 .. cap - 1 BY <1>0, <2>1 DEF Around
  <2>5. RingType' BY <1>0, <1>1, <2>3, <2>4 DEF RingType
  <2>6. MqLength' = Len(fifo') /\ Len(fifo') < cap'
    BY SMTT(30), <1>0, <1>1, <1>3, <2>1, <2>2, <2>3 DEF MqLength, Around
  <2>7. ASSUME NEW i \in DOMAIN fifo' PROVE ring'[Around(head + i - 1)'] = fifo'[i]
    <3>1. i \in 1 .. Len(fifo) - 1 /\ i + 1 \in DOMAIN fifo BY <1>0, <2>3
    <3>2. Around(head + i - 1)' = Around(head + (i + 1) - 1)
      BY <1>0, <1>1, <2>1, <3>1 DEF Around
    <3>3. ring[Around(head + (i + 1) - 1)] = fifo[i + 1] BY <3>1 DEF RingIsFifo
    <3>4. QED BY <1>1, <2>3, <3>1, <3>2, <3>3
  <2>8. QED BY <2>5, <2>6, <2>7 DEF RingIsFifo
<1>4. QED BY <1>2, <1>3

(* Every step keeps the invariant.                                          *)
LEMMA RingNextInv == RingInv /\ [MqNext]_mqVars => RingInv'
<1> SUFFICES ASSUME RingInv, [MqNext]_mqVars PROVE RingInv' OBVIOUS
<1>1. ASSUME NEW m \in MqMessages, MqPush(m) PROVE RingInv'
  BY <1>1, PushKeeps
<1>2. CASE MqPop BY <1>2, PopKeeps
<1>3. CASE MqTakeOverload
  BY <1>3 DEF MqTakeOverload, RingInv, RingType, RingIsFifo, MqLength, Around
<1>4. CASE UNCHANGED mqVars
  BY <1>4 DEF mqVars, RingInv, RingType, RingIsFifo, MqLength, Around
<1>5. QED BY <1>1, <1>2, <1>3, <1>4 DEF MqNext

(* The ring holds the waiting messages in their order, for every size of     *)
(* the first array and any number of expansions.                            *)
THEOREM RingHoldsFifo == MqSpec => []RingIsFifo
<1>1. RingInv => RingIsFifo BY DEF RingInv
<1>2. QED BY <1>1, RingInitInv, RingNextInv, PTL DEF MqSpec
-----------------------------------------------------------------------------
(* The gate.                                                                *)

(* The tables have a place for each connection and for each hash value, and  *)
(* a list of leftovers is a sequence of leftovers of connections.           *)
GateType ==
  /\ plan \in Plans
  /\ link \in [Fds -> {"none", "accepted", "started", "closed"}]
  /\ connection \in [Fds -> {"nil", "true", "false"}]
  /\ client_number \in Nat
  /\ DOMAIN hash = 0 .. HashSize - 1
  /\ \A h \in 0 .. HashSize - 1 :
       /\ hash[h] \in Seq(Range(hash[h]))
       /\ \A i \in DOMAIN hash[h] : hash[h][i].id \in Fds

(* Only a connection that was accepted and not closed is in the table.      *)
TableFollowsLink ==
  \A fd \in Fds : link[fd] \in {"none", "closed"} => connection[fd] = "nil"

GateInv == GateType /\ TableFollowsLink /\ ConnectionsSound

(* The connections are finitely many numbers.                               *)
LEMMA FdsFinite ==
  ASSUME plan \in Plans
  PROVE  /\ IsFiniteSet(Fds) /\ Fds \subseteq Nat
         /\ \A fd \in Fds : HashFd(fd) \in 0 .. HashSize - 1
<1>1. plan \in Seq(Seq(0 .. Base * Base - 1)) BY GateAssumption DEF GateAssumption
<1>2. Fds = 1 .. Len(plan) /\ Len(plan) \in Nat BY <1>1 DEF Fds
<1>3. HashSize \in Nat \ {0} BY GateAssumption DEF GateAssumption
<1>4. \A fd \in Nat : fd % HashSize \in 0 .. HashSize - 1 BY <1>3
<1>5. IsFiniteSet(Fds) BY <1>2, FS_Interval
<1>. QED BY <1>2, <1>4, <1>5 DEF HashFd

(* The elements of two sequences put together.                              *)
LEMMA ConcatElements ==
  ASSUME NEW S, NEW a \in Seq(S), NEW b \in Seq(S)
  PROVE  /\ a \o b \in Seq(S) /\ Len(a \o b) = Len(a) + Len(b)
         /\ \A j \in 1 .. Len(a) + Len(b) :
              (a \o b)[j] = IF j <= Len(a) THEN a[j] ELSE b[j - Len(a)]
  OBVIOUS

(* Taking one element out of a sequence moves those behind it forward.      *)
LEMMA RemoveAtElements ==
  ASSUME NEW S, NEW s \in Seq(S), NEW at \in 1 .. Len(s)
  PROVE  /\ RemoveAt(s, at) \in Seq(S)
         /\ Len(RemoveAt(s, at)) = Len(s) - 1
         /\ \A j \in 1 .. Len(s) - 1 :
              RemoveAt(s, at)[j] = IF j < at THEN s[j] ELSE s[j + 1]
<1> DEFINE a == SubSeq(s, 1, at - 1)
           b == SubSeq(s, at + 1, Len(s))
<1>1. a \in Seq(S) /\ Len(a) = at - 1 /\ \A j \in 1 .. at - 1 : a[j] = s[j]
  OBVIOUS
<1>2. /\ b \in Seq(S) /\ Len(b) = Len(s) - at
      /\ \A j \in 1 .. Len(s) - at : b[j] = s[at + j]
  OBVIOUS
<1>3. RemoveAt(s, at) = a \o b BY DEF RemoveAt
<1> HIDE DEF a, b
<1>4. /\ a \o b \in Seq(S) /\ Len(a \o b) = Len(s) - 1
      /\ \A j \in 1 .. Len(s) - 1 : (a \o b)[j] = IF j < at THEN a[j] ELSE b[j - at + 1]
  <2>1. /\ a \o b \in Seq(S) /\ Len(a \o b) = Len(a) + Len(b)
        /\ \A j \in 1 .. Len(a) + Len(b) :
             (a \o b)[j] = IF j <= Len(a) THEN a[j] ELSE b[j - Len(a)]
    BY ONLY <1>1, <1>2, ConcatElements
  <2>2. Len(s) \in Nat /\ Len(a) + Len(b) = Len(s) - 1 BY <1>1, <1>2
  <2>3. ASSUME NEW j \in 1 .. Len(s) - 1
        PROVE  (a \o b)[j] = IF j < at THEN a[j] ELSE b[j - at + 1]
    <3>1. (a \o b)[j] = IF j <= Len(a) THEN a[j] ELSE b[j - Len(a)] BY <2>1, <2>2
    <3>2. (j <= Len(a)) = (j < at) /\ j - Len(a) = j - at + 1 BY <1>1, <2>2
    <3>. QED BY <3>1, <3>2
  <2>. QED BY <2>1, <2>2, <2>3
<1>5. ASSUME NEW j \in 1 .. Len(s) - 1
      PROVE  (a \o b)[j] = IF j < at THEN s[j] ELSE s[j + 1]
  <2>1. CASE j < at BY <2>1, <1>1, <1>4
  <2>2. CASE ~(j < at)
    <3>1. j - at + 1 \in 1 .. Len(s) - at BY <2>2
    <3>2. b[j - at + 1] = s[at + (j - at + 1)] BY <1>2, <3>1
    <3>3. at + (j - at + 1) = j + 1 OBVIOUS
    <3>. QED BY <2>2, <1>4, <3>2, <3>3
  <2>. QED BY <2>1, <2>2
<1>. QED BY <1>3, <1>4, <1>5

(* A sequence over some set is one over its own elements.                   *)
LEMMA OverItsElements ==
  ASSUME NEW S, NEW s \in Seq(S)
  PROVE  s \in Seq(Range(s))
  BY DEF Range

(* What a list of leftovers must be, under the present links.               *)
ListSound(list, h) ==
  /\ list \in Seq(Range(list))
  /\ \A i \in DOMAIN list :
       /\ list[i].id \in Fds /\ link[list[i].id] = "started" /\ HashFd(list[i].id) = h
       /\ \A j \in DOMAIN list : list[j].id = list[i].id => i = j

(* The leftover found is one of fd, and if none is found there is none: a    *)
(* connection has at most one, so that the first is the only one.           *)
LEMMA FoundIsOwn ==
  ASSUME NEW h, NEW list, ListSound(list, h), NEW fd
  PROVE  \/ /\ FindUncomplete(list, fd) = 0
            /\ \A i \in DOMAIN list : list[i].id # fd
         \/ /\ FindUncomplete(list, fd) \in DOMAIN list
            /\ list[FindUncomplete(list, fd)].id = fd
<1> DEFINE here == {i \in DOMAIN list : list[i].id = fd}
<1>1. CASE here = {}
  BY <1>1 DEF FindUncomplete
<1>2. CASE here # {}
  <2>1. PICK i \in here : TRUE BY <1>2
  <2>2. \A j \in here : i <= j
    BY <2>1 DEF ListSound
  <2>3. (CHOOSE k \in here : \A j \in here : k <= j) \in here
    BY <2>1, <2>2
  <2>4. FindUncomplete(list, fd) \in here
    BY <1>2, <2>3 DEF FindUncomplete
  <2>. QED BY <2>4
<1>. QED BY <1>1, <1>2

(* The invariant, list by list.                                             *)
LEMMA ListsAreSound ==
  ASSUME GateType, LeftoversOwned
  PROVE  \A h \in 0 .. HashSize - 1 : ListSound(hash[h], h)
  BY DEF GateType, LeftoversOwned, ListSound

(* A list without its leftover of fd is sound and holds none of fd.         *)
LEMMA RemovedIsSound ==
  ASSUME NEW h, NEW list, ListSound(list, h), NEW at \in DOMAIN list
  PROVE  /\ ListSound(RemoveAt(list, at), h)
         /\ \A i \in DOMAIN RemoveAt(list, at) : RemoveAt(list, at)[i].id # list[at].id
<1> DEFINE r == RemoveAt(list, at)
           from(j) == IF j < at THEN j ELSE j + 1
<1>1. list \in Seq(Range(list)) /\ DOMAIN list = 1 .. Len(list) /\ Len(list) \in Nat
  BY DEF ListSound
<1>2. /\ r \in Seq(Range(list)) /\ Len(r) = Len(list) - 1
      /\ \A j \in 1 .. Len(list) - 1 : r[j] = IF j < at THEN list[j] ELSE list[j + 1]
  BY <1>1, RemoveAtElements
<1> HIDE DEF r
<1>3. DOMAIN r = 1 .. Len(list) - 1 BY <1>2
<1>4. \A j \in DOMAIN r : from(j) \in DOMAIN list /\ from(j) # at /\ r[j] = list[from(j)]
  BY <1>1, <1>2, <1>3
<1>5. \A j, k \in DOMAIN r : from(j) = from(k) => j = k
  BY <1>3
<1>6. r \in Seq(Range(r)) BY <1>2, OverItsElements
<1> HIDE DEF from
<1>7. ListSound(r, h)
  BY <1>4, <1>5, <1>6 DEF ListSound
<1>8. \A i \in DOMAIN r : r[i].id # list[at].id
  BY <1>4 DEF ListSound
<1>. QED BY <1>7, <1>8 DEF r

(* After find_uncomplete every list is sound and none holds a leftover of fd. *)
LEMMA TakenIsSound ==
  ASSUME GateType, LeftoversOwned, NEW fd \in Fds
  PROVE  /\ DOMAIN Taken(fd) = 0 .. HashSize - 1
         /\ \A h \in 0 .. HashSize - 1 :
              /\ ListSound(Taken(fd)[h], h)
              /\ \A i \in DOMAIN Taken(fd)[h] : Taken(fd)[h][i].id # fd
<1> DEFINE g == HashFd(fd)
           at == FindUncomplete(hash[g], fd)
<1>1. g \in 0 .. HashSize - 1 /\ DOMAIN hash = 0 .. HashSize - 1
  BY FdsFinite DEF GateType
<1>2. \A h \in 0 .. HashSize - 1 : ListSound(hash[h], h) BY ListsAreSound
<1>3. \A h \in 0 .. HashSize - 1 : h # g => \A i \in DOMAIN hash[h] : hash[h][i].id # fd
  BY <1>2 DEF ListSound
<1>4. \/ at = 0 /\ \A i \in DOMAIN hash[g] : hash[g][i].id # fd
      \/ at \in DOMAIN hash[g] /\ hash[g][at].id = fd
  BY <1>1, <1>2, FoundIsOwn
<1>5. Taken(fd) = IF at = 0 THEN hash ELSE [hash EXCEPT ![g] = RemoveAt(hash[g], at)]
  BY DEF Taken
<1> HIDE DEF g, at
<1>6. CASE at = 0
  <2>1. 0 \notin DOMAIN hash[g]
    <3>1. hash[g] \in Seq(Range(hash[g])) BY <1>1, <1>2 DEF ListSound
    <3>. QED BY <3>1
  <2>. QED BY <1>1, <1>2, <1>3, <1>4, <1>5, <1>6, <2>1
<1>7. CASE at # 0
  <2>1. at \in DOMAIN hash[g] /\ hash[g][at].id = fd BY <1>4, <1>7
  <2>2. /\ ListSound(RemoveAt(hash[g], at), g)
        /\ \A i \in DOMAIN RemoveAt(hash[g], at) : RemoveAt(hash[g], at)[i].id # fd
    BY <1>1, <1>2, <2>1, RemovedIsSound
  <2>3. /\ DOMAIN Taken(fd) = 0 .. HashSize - 1
        /\ \A h \in 0 .. HashSize - 1 :
             Taken(fd)[h] = IF h = g THEN RemoveAt(hash[g], at) ELSE hash[h]
    BY <1>1, <1>5, <1>7
  <2>. QED BY <1>1, <1>2, <1>3, <2>2, <2>3
<1>. QED BY <1>6, <1>7

(* Before the first client nothing is held and nobody is counted.           *)
LEMMA GateInitInv == GateInit => GateInv
<1> SUFFICES ASSUME GateInit PROVE GateInv OBVIOUS
<1>1. GateType
  <2>1. \A h \in 0 .. HashSize - 1 : hash[h] = <<>> BY DEF GateInit
  <2>. QED BY <2>1 DEF GateInit, GateType, Range
<1>2. TableFollowsLink BY DEF GateInit, TableFollowsLink
<1>3. LeftoversOwned BY DEF GateInit, LeftoversOwned
<1>4. ClientsCounted
  <2>1. {fd \in Fds : connection[fd] # "nil"} = {} BY DEF GateInit
  <2>2. Cardinality({fd \in Fds : connection[fd] # "nil"}) = 0 BY <2>1, FS_EmptySet
  <2>3. client_number = 0 /\ MaxClient \in Nat
    BY GateAssumption DEF GateInit, GateAssumption
  <2>. QED BY <2>2, <2>3 DEF ClientsCounted
<1>. QED BY <1>1, <1>2, <1>3, <1>4 DEF GateInv, ConnectionsSound

(* From the lists of the new table to the invariant about leftovers: links   *)
(* and lists may change, the connections stay.                              *)
LEMMA SoundListsNext ==
  ASSUME GateInv, plan' = plan,
         link' \in [Fds -> {"none", "accepted", "started", "closed"}],
         connection' \in [Fds -> {"nil", "true", "false"}],
         client_number' \in Nat,
         DOMAIN hash' = 0 .. HashSize - 1,
         \A h \in 0 .. HashSize - 1 :
           /\ ListSound(hash'[h], h)
           /\ \A i \in DOMAIN hash'[h] : link'[hash'[h][i].id] = link[hash'[h][i].id]
  PROVE  GateType' /\ LeftoversOwned'
<1>1. Fds' = Fds BY DEF Fds
<1>2. GateType' BY <1>1 DEF GateInv, GateType, ListSound
<1>3. LeftoversOwned' BY DEF LeftoversOwned, ListSound, HashFd
<1>. QED BY <1>2, <1>3

(* A client that enters the table is counted, one that leaves is not.       *)
LEMMA CountFollows ==
  ASSUME GateInv, NEW fd \in Fds, plan' = plan, NEW v \in {"nil", "true", "false"},
         connection' = [connection EXCEPT ![fd] = v]
  PROVE  Cardinality({x \in Fds : connection'[x] # "nil"})
           = CASE connection[fd] = "nil" /\ v # "nil" -> client_number + 1
               [] connection[fd] # "nil" /\ v = "nil" -> client_number - 1
               [] OTHER -> client_number
<1> DEFINE T == {x \in Fds : connection[x] # "nil"}
           U == {x \in Fds : connection'[x] # "nil"}
<1>1. IsFiniteSet(T) /\ client_number = Cardinality(T)
  <2>1. IsFiniteSet(Fds) BY FdsFinite DEF GateInv, GateType
  <2>2. T \subseteq Fds OBVIOUS
  <2>3. IsFiniteSet(T) BY <2>1, <2>2, FS_Subset
  <2>. QED BY <2>3 DEF GateInv, ConnectionsSound, ClientsCounted
<1>2. connection \in [Fds -> {"nil", "true", "false"}] BY DEF GateInv, GateType
<1>3. U = IF v = "nil" THEN T \ {fd} ELSE T \cup {fd}
  BY <1>2
<1>4. fd \in T <=> connection[fd] # "nil" OBVIOUS
<1> HIDE DEF T, U
<1>5. /\ Cardinality(T \cup {fd}) = IF fd \in T THEN Cardinality(T) ELSE Cardinality(T) + 1
      /\ Cardinality(T \ {fd}) = IF fd \in T THEN Cardinality(T) - 1 ELSE Cardinality(T)
  BY <1>1, FS_AddElement, FS_RemoveElement
<1>6. Cardinality(U)
        = CASE connection[fd] = "nil" /\ v # "nil" -> client_number + 1
            [] connection[fd] # "nil" /\ v = "nil" -> client_number - 1
            [] OTHER -> client_number
  BY <1>1, <1>3, <1>4, <1>5
<1>. QED BY <1>6 DEF U

(* MSG.open                                                                 *)
LEMMA AcceptedKeeps ==
  ASSUME GateInv, NEW fd \in Fds, Accepted(fd)
  PROVE  GateInv'
<1>0. GateType /\ TableFollowsLink /\ LeftoversOwned /\ ClientsCounted
  BY DEF GateInv, ConnectionsSound
<1>1. plan' = plan /\ hash' = hash /\ link[fd] = "none"
      /\ link' = [link EXCEPT ![fd] = "accepted"] /\ connection[fd] = "nil"
  BY <1>0 DEF Accepted, TableFollowsLink
<1>2. Fds' = Fds BY <1>1 DEF Fds
<1>3. \/ /\ client_number < MaxClient /\ client_number' = client_number + 1
         /\ connection' = [connection EXCEPT ![fd] = "true"]
      \/ UNCHANGED <<connection, client_number>>
  <2>1. client_number \in Nat /\ MaxClient \in Nat
    BY <1>0, GateAssumption DEF GateType, GateAssumption
  <2>. QED BY <2>1 DEF Accepted
<1>4. GateType' /\ LeftoversOwned'
  <2>1. \A h \in 0 .. HashSize - 1 : ListSound(hash[h], h) BY <1>0, ListsAreSound
  <2>2. \A h \in 0 .. HashSize - 1 : \A i \in DOMAIN hash[h] :
          hash[h][i].id # fd /\ hash[h][i].id \in Fds
    BY <2>1, <1>1 DEF ListSound
  <2>3. \A x \in Fds : x # fd => link'[x] = link[x]
    BY <1>0, <1>1 DEF GateType
  <2>4. /\ link' \in [Fds -> {"none", "accepted", "started", "closed"}]
        /\ connection' \in [Fds -> {"nil", "true", "false"}] /\ client_number' \in Nat
        /\ DOMAIN hash' = 0 .. HashSize - 1
    BY <1>0, <1>1, <1>3 DEF GateType
  <2>5. \A h \in 0 .. HashSize - 1 :
          /\ ListSound(hash'[h], h)
          /\ \A i \in DOMAIN hash'[h] : link'[hash'[h][i].id] = link[hash'[h][i].id]
    BY <1>1, <2>1, <2>2, <2>3
  <2>. QED BY <1>1, <2>4, <2>5, SoundListsNext
<1>5. TableFollowsLink'
  BY <1>0, <1>1, <1>2, <1>3 DEF TableFollowsLink, GateType
<1>6. ClientsCounted'
  <2>1. CASE UNCHANGED <<connection, client_number>>
    BY <1>0, <1>2, <2>1 DEF ClientsCounted
  <2>2. CASE /\ client_number < MaxClient /\ client_number' = client_number + 1
             /\ connection' = [connection EXCEPT ![fd] = "true"]
    <3>1. Cardinality({x \in Fds : connection'[x] # "nil"}) = client_number + 1
      BY <1>1, <2>2, CountFollows
    <3>2. client_number \in Nat /\ MaxClient \in Nat
      BY <1>0, GateAssumption DEF GateType, GateAssumption
    <3>. QED BY <1>2, <2>2, <3>1, <3>2 DEF ClientsCounted
  <2>. QED BY <1>3, <2>1, <2>2
<1>. QED BY <1>4, <1>5, <1>6 DEF GateInv, ConnectionsSound

(* gateserver.openclient                                                    *)
LEMMA OpenClientKeeps ==
  ASSUME GateInv, NEW fd \in Fds, OpenClient(fd)
  PROVE  GateInv'
<1>0. GateType /\ TableFollowsLink /\ LeftoversOwned /\ ClientsCounted
  BY DEF GateInv, ConnectionsSound
<1>1. UNCHANGED <<plan, hash, connection, client_number>> /\ link[fd] = "accepted"
      /\ link' = [link EXCEPT ![fd] = "started"]
  BY DEF OpenClient
<1>2. Fds' = Fds BY <1>1 DEF Fds
<1>3. \A h \in 0 .. HashSize - 1 : ListSound(hash[h], h) BY <1>0, ListsAreSound
<1>4. \A h \in 0 .. HashSize - 1 : \A i \in DOMAIN hash[h] :
        hash[h][i].id # fd /\ hash[h][i].id \in Fds
  BY <1>1, <1>3 DEF ListSound
<1>5. \A x \in Fds : x # fd => link'[x] = link[x]
  BY <1>0, <1>1 DEF GateType
<1>6. /\ link' \in [Fds -> {"none", "accepted", "started", "closed"}]
      /\ connection' \in [Fds -> {"nil", "true", "false"}] /\ client_number' \in Nat
      /\ DOMAIN hash' = 0 .. HashSize - 1
  BY <1>0, <1>1 DEF GateType
<1>7. \A h \in 0 .. HashSize - 1 :
        /\ ListSound(hash'[h], h)
        /\ \A i \in DOMAIN hash'[h] : link'[hash'[h][i].id] = link[hash'[h][i].id]
  BY <1>1, <1>3, <1>4, <1>5
<1>8. GateType' /\ LeftoversOwned' BY <1>1, <1>6, <1>7, SoundListsNext
<1>9. TableFollowsLink' BY <1>0, <1>1, <1>2 DEF TableFollowsLink, GateType
<1>10. ClientsCounted' BY <1>0, <1>1, <1>2 DEF ClientsCounted
<1>. QED BY <1>8, <1>9, <1>10 DEF GateInv, ConnectionsSound

(* gateserver.closeclient: the client stays counted until its close comes.  *)
LEMMA CloseClientKeeps ==
  ASSUME GateInv, NEW fd \in Fds, CloseClient(fd)
  PROVE  GateInv'
<1>0. GateType /\ TableFollowsLink /\ LeftoversOwned /\ ClientsCounted
  BY DEF GateInv, ConnectionsSound
<1>1. UNCHANGED <<plan, hash, link, client_number>> /\ connection[fd] = "true"
      /\ connection' = [connection EXCEPT ![fd] = "false"]
  BY DEF CloseClient
<1>2. Fds' = Fds BY <1>1 DEF Fds
<1>3. GateType' BY <1>0, <1>1, <1>2 DEF GateType
<1>4. LeftoversOwned' BY <1>0, <1>1 DEF LeftoversOwned, HashFd
<1>5. TableFollowsLink' BY <1>0, <1>1, <1>2 DEF TableFollowsLink, GateType
<1>6. Cardinality({x \in Fds : connection'[x] # "nil"}) = client_number
  BY <1>1, CountFollows
<1>7. ClientsCounted' BY <1>0, <1>1, <1>2, <1>6 DEF ClientsCounted
<1>. QED BY <1>3, <1>4, <1>5, <1>7 DEF GateInv, ConnectionsSound

(* MSG.close and MSG.error                                                  *)
LEMMA ClosedKeeps ==
  ASSUME GateInv, NEW fd \in Fds, Closed(fd)
  PROVE  GateInv'
<1>0. GateType /\ TableFollowsLink /\ LeftoversOwned /\ ClientsCounted
  BY DEF GateInv, ConnectionsSound
<1>1. plan' = plan /\ hash' = Taken(fd) /\ link' = [link EXCEPT ![fd] = "closed"]
  BY DEF Closed
<1>2. Fds' = Fds BY <1>1 DEF Fds
<1>3. \/ connection[fd] = "nil" /\ UNCHANGED <<connection, client_number>>
      \/ /\ connection[fd] # "nil" /\ client_number' = client_number - 1
         /\ connection' = [connection EXCEPT ![fd] = "nil"]
  BY DEF Closed
<1>4. /\ connection' \in [Fds -> {"nil", "true", "false"}] /\ connection'[fd] = "nil"
      /\ \A x \in Fds : x # fd => connection'[x] = connection[x] /\ link'[x] = link[x]
      /\ link' \in [Fds -> {"none", "accepted", "started", "closed"}]
  BY <1>0, <1>1, <1>3 DEF GateType
<1>5. client_number' \in Nat /\ ClientsCounted'
  <2>0. client_number \in Nat /\ client_number <= MaxClient /\ MaxClient \in Nat
    BY <1>0, GateAssumption DEF GateType, ClientsCounted, GateAssumption
  <2>1. CASE connection[fd] = "nil" /\ UNCHANGED <<connection, client_number>>
    BY <1>0, <1>2, <2>0, <2>1 DEF ClientsCounted
  <2>2. CASE /\ connection[fd] # "nil" /\ client_number' = client_number - 1
             /\ connection' = [connection EXCEPT ![fd] = "nil"]
    <3>1. Cardinality({x \in Fds : connection'[x] # "nil"}) = client_number - 1
      BY <1>1, <2>2, CountFollows
    <3>2. Cardinality({x \in Fds : connection'[x] # "nil"}) \in Nat
      <4>1. IsFiniteSet(Fds) BY <1>0, FdsFinite DEF GateType
      <4>2. IsFiniteSet({x \in Fds : connection'[x] # "nil"}) BY <4>1, FS_Subset
      <4>. QED BY <4>2, FS_CardinalityType
    <3>. QED BY <1>2, <2>0, <2>2, <3>1, <3>2 DEF ClientsCounted
  <2>. QED BY <1>3, <2>1, <2>2
<1>6. TableFollowsLink'
  BY <1>0, <1>2, <1>4 DEF TableFollowsLink
<1>7. /\ DOMAIN hash' = 0 .. HashSize - 1
      /\ \A h \in 0 .. HashSize - 1 :
           /\ ListSound(hash'[h], h)
           /\ \A i \in DOMAIN hash'[h] : hash'[h][i].id # fd
  BY <1>0, <1>1, TakenIsSound
<1>8. \A h \in 0 .. HashSize - 1 : \A i \in DOMAIN hash'[h] :
        link'[hash'[h][i].id] = link[hash'[h][i].id]
  BY <1>4, <1>7 DEF ListSound
<1>9. GateType' /\ LeftoversOwned'
  BY <1>1, <1>4, <1>5, <1>7, <1>8, SoundListsNext
<1>. QED BY <1>5, <1>6, <1>9 DEF GateInv, ConnectionsSound

(* What the gate does not touch stays sound.                                *)
LEMMA GateStutterKeeps ==
  ASSUME GateInv, UNCHANGED gateVars
  PROVE  GateInv'
  BY DEF GateInv, GateType, TableFollowsLink, ConnectionsSound, LeftoversOwned,
         ClientsCounted, Fds, HashFd, gateVars

(* A sound list without a leftover of fd stays sound with one in front.     *)
LEMMA ConsIsSound ==
  ASSUME NEW fd \in Fds, link[fd] = "started", NEW list, ListSound(list, HashFd(fd)),
         \A i \in DOMAIN list : list[i].id # fd, NEW uc, uc.id = fd
  PROVE  ListSound(<<uc>> \o list, HashFd(fd))
<1> DEFINE S == Range(list) \cup {uc}
           r == <<uc>> \o list
<1>1. list \in Seq(Range(list)) BY DEF ListSound
<1>2. list \in Seq(S) /\ <<uc>> \in Seq(S) /\ Len(<<uc>>) = 1 /\ <<uc>>[1] = uc
  BY <1>1
<1> HIDE DEF S
<1>3. /\ r \in Seq(S) /\ Len(r) = 1 + Len(list) /\ Len(list) \in Nat
      /\ DOMAIN list = 1 .. Len(list)
      /\ \A j \in 1 .. 1 + Len(list) : r[j] = IF j <= 1 THEN <<uc>>[j] ELSE list[j - 1]
  BY <1>2, ConcatElements
<1> HIDE DEF r
<1>4. /\ DOMAIN r = 1 .. Len(list) + 1 /\ r[1] = uc
      /\ \A j \in 2 .. Len(list) + 1 : j - 1 \in DOMAIN list /\ r[j] = list[j - 1]
  BY <1>2, <1>3
<1>5. r \in Seq(Range(r)) BY <1>3, OverItsElements
<1>6. ASSUME NEW i \in DOMAIN r
      PROVE  /\ r[i].id \in Fds /\ link[r[i].id] = "started" /\ HashFd(r[i].id) = HashFd(fd)
             /\ \A j \in DOMAIN r : r[j].id = r[i].id => i = j
  <2>1. CASE i = 1
    <3>1. \A j \in DOMAIN r : j # 1 => r[j].id # fd BY SMTT(30), <1>4, <1>3
    <3>. QED BY <2>1, <1>4, <3>1
  <2>2. CASE i # 1
    <3>1. i \in 2 .. Len(list) + 1 BY <2>2, <1>3, <1>4
    <3>2. i - 1 \in DOMAIN list /\ r[i] = list[i - 1] BY <3>1, <1>4
    <3>3. /\ r[i].id \in Fds /\ link[r[i].id] = "started" /\ HashFd(r[i].id) = HashFd(fd)
          /\ r[i].id # fd
      BY <3>2 DEF ListSound
    <3>4. ASSUME NEW j \in DOMAIN r, r[j].id = r[i].id PROVE i = j
      <4>1. j # 1 BY <3>3, <3>4, <1>4
      <4>2. j \in 2 .. Len(list) + 1 BY <4>1, <1>3, <1>4
      <4>3. j - 1 \in DOMAIN list /\ r[j] = list[j - 1] BY <4>2, <1>4
      <4>4. j - 1 = i - 1 BY <3>2, <3>4, <4>3 DEF ListSound
      <4>. QED BY <4>4, <4>2, <3>1
    <3>. QED BY <3>3, <3>4
  <2>. QED BY <2>1, <2>2
<1>7. ListSound(r, HashFd(fd)) BY <1>5, <1>6 DEF ListSound
<1>. QED BY <1>7 DEF r
-----------------------------------------------------------------------------
(* The bytes of the connections.                                            *)

(* A set of numbers that is not empty has a least one.                      *)
LEMMA LeastNumber ==
  ASSUME NEW S, S \subseteq Nat, S # {}
  PROVE  \E i \in S : \A j \in S : i <= j
<1>1. PICK x \in S : \A y \in S : ~(<<y, x>> \in OpToRel(<, Nat))
  BY NatLessThanWellFounded, WFMin
<1>2. \A y \in S : ~(y < x) BY <1>1 DEF OpToRel
<1>3. QED BY <1>2

(* The sizes of a peer's packages.                                          *)
LEMMA PlanSizes ==
  ASSUME plan \in Plans, NEW fd \in Fds
  PROVE  /\ fd \in Nat /\ plan[fd] \in Seq(0 .. Base * Base - 1) /\ Base \in Nat \ {0, 1}
         /\ DOMAIN plan[fd] = 1 .. Len(plan[fd]) /\ Len(plan[fd]) \in Nat
         /\ \A i \in DOMAIN plan[fd] : plan[fd][i] \in Nat
<1>1. plan \in Seq(Seq(0 .. Base * Base - 1)) /\ Base \in Nat \ {0, 1}
  BY GateAssumption DEF GateAssumption
<1> DEFINE T == 0 .. Base * Base - 1
<1>2. fd \in Nat /\ plan[fd] \in Seq(T)
  <2> HIDE DEF T
  <2>1. plan \in Seq(Seq(T)) BY <1>1 DEF T
  <2>. QED BY <2>1 DEF Fds
<1>3. T \subseteq Nat OBVIOUS
<1> HIDE DEF T
<1>4. /\ DOMAIN plan[fd] = 1 .. Len(plan[fd]) /\ Len(plan[fd]) \in Nat
      /\ \A i \in DOMAIN plan[fd] : plan[fd][i] \in T
  BY <1>2
<1>. QED BY <1>1, <1>2, <1>3, <1>4 DEF T

(* A piece of a sequence, e being its last place and a the one before it.    *)
LEMMA PieceIs ==
  ASSUME NEW S, NEW s \in Seq(S), NEW e \in 0 .. Len(s), NEW a \in 0 .. e
  PROVE  /\ SubSeq(s, a + 1, e) \in Seq(S) /\ Len(SubSeq(s, a + 1, e)) = e - a
         /\ \A i \in 1 .. e - a : SubSeq(s, a + 1, e)[i] = s[a + i]
<1>1. Len(s) \in Nat OBVIOUS
<1>. QED BY <1>1

(* Two sequences with the same elements are the same.                       *)
LEMMA SameElements ==
  ASSUME NEW S, NEW s \in Seq(S), NEW T, NEW t \in Seq(T), Len(s) = Len(t),
         \A i \in 1 .. Len(s) : s[i] = t[i]
  PROVE  s = t
<1>1. s = [i \in 1 .. Len(s) |-> s[i]] /\ t = [i \in 1 .. Len(t) |-> t[i]] OBVIOUS
<1>. QED BY ONLY <1>1, Len(s) = Len(t), \A i \in 1 .. Len(s) : s[i] = t[i]

(* The two digits of a size give the size again.                            *)
LEMMA DigitsOfSize ==
  ASSUME NEW s \in Nat, NEW b \in Nat, b > 0
  PROVE  /\ s \div b \in Nat /\ s % b \in Nat
         /\ (s \div b) * b + (s % b) = s
  BY SMTT(30)

(* A package on the wire.                                                   *)
LEMMA PackedBytes ==
  ASSUME plan \in Plans, NEW fd \in Fds, NEW i \in DOMAIN plan[fd]
  PROVE  LET p == Packed(Contents(fd, i))
             s == plan[fd][i]
         IN /\ p \in Seq(Nat) /\ Len(p) = s + 2 /\ p[1] * Base + p[2] = s
            /\ \A j \in 1 .. s : p[j + 2] = 100 * fd + i
<1> DEFINE s == plan[fd][i]
           c == Contents(fd, i)
           d == <<s \div Base, s % Base>>
<1>1. s \in Nat /\ Base \in Nat /\ Base > 0 /\ 100 * fd + i \in Nat
  <2>1. i \in Nat /\ fd \in Nat /\ s \in Nat /\ Base \in Nat \ {0, 1} BY PlanSizes
  <2>. QED BY <2>1
<1>2. c = [j \in 1 .. s |-> 100 * fd + i] BY DEF Contents
<1>3. c \in Seq(Nat) /\ Len(c) = s /\ \A j \in 1 .. s : c[j] = 100 * fd + i
  BY <1>1, <1>2
<1>4. s \div Base \in Nat /\ s % Base \in Nat /\ (s \div Base) * Base + (s % Base) = s
  BY <1>1, DigitsOfSize
<1>5. d \in Seq(Nat) /\ Len(d) = 2 /\ d[1] = s \div Base /\ d[2] = s % Base
  BY <1>4
<1>6. Packed(c) = d \o c BY <1>3 DEF Packed
<1>7. /\ d \o c \in Seq(Nat) /\ Len(d \o c) = 2 + s
      /\ \A j \in 1 .. 2 + s : (d \o c)[j] = IF j <= 2 THEN d[j] ELSE c[j - 2]
  <2> HIDE DEF d, c
  <2>1. /\ d \o c \in Seq(Nat) /\ Len(d \o c) = Len(d) + Len(c)
        /\ \A j \in 1 .. Len(d) + Len(c) :
             (d \o c)[j] = IF j <= Len(d) THEN d[j] ELSE c[j - Len(d)]
    BY ONLY <1>3, <1>5, ConcatElements
  <2>. QED BY <2>1, <1>3, <1>5
<1>8. (d \o c)[1] = d[1] /\ (d \o c)[2] = d[2]
  BY <1>1, <1>7
<1> HIDE DEF d, c
<1>9. \A j \in 1 .. s : (d \o c)[j + 2] = 100 * fd + i
  <2> SUFFICES ASSUME NEW j \in 1 .. s PROVE (d \o c)[j + 2] = 100 * fd + i OBVIOUS
  <2>1. j + 2 \in 1 .. 2 + s /\ ~(j + 2 <= 2) /\ j + 2 - 2 = j BY <1>1
  <2>. QED BY SMTT(30), <1>3, <1>7, <2>1
<1>10. (d \o c)[1] * Base + (d \o c)[2] = s BY <1>4, <1>5, <1>8
<1>11. Packed(c) \in Seq(Nat) /\ Len(Packed(c)) = s + 2 BY <1>1, <1>6, <1>7
<1>. QED BY <1>6, <1>9, <1>10, <1>11 DEF c

(* The first k packages of fd are the bytes A, package j + 1 behind off[j].  *)
Laid(fd, k, A, off) ==
  /\ A \in Seq(Nat) /\ off \in [0 .. k -> 0 .. Len(A)] /\ off[0] = 0 /\ off[k] = Len(A)
  /\ \A j \in 0 .. k - 1 :
       /\ off[j + 1] = off[j] + 2 + plan[fd][j + 1]
       /\ SizeAt(A, off[j]) = plan[fd][j + 1]
       /\ SubSeq(A, off[j] + 3, off[j + 1]) = Contents(fd, j + 1)

LEMMA NothingLaid ==
  ASSUME NEW fd
  PROVE  Laid(fd, 0, <<>>, [j \in 0 .. 0 |-> 0])
<1>1. <<>> \in Seq(Nat) /\ Len(<<>>) = 0 OBVIOUS
<1>2. [j \in 0 .. 0 |-> 0] \in [0 .. 0 -> 0 .. 0] OBVIOUS
<1>. QED BY <1>1, <1>2 DEF Laid

(* One more package behind them.                                            *)
LEMMA OneMoreLaid ==
  ASSUME plan \in Plans, NEW fd \in Fds, NEW k \in Nat, k + 1 \in DOMAIN plan[fd],
         NEW A, NEW off, Laid(fd, k, A, off)
  PROVE  \E off2 : Laid(fd, k + 1, A \o Packed(Contents(fd, k + 1)), off2)
<1> DEFINE p == Packed(Contents(fd, k + 1))
           s == plan[fd][k + 1]
           B == A \o p
           off2 == [j \in 0 .. k + 1 |-> IF j = k + 1 THEN Len(A) + 2 + s ELSE off[j]]
<1>1. /\ p \in Seq(Nat) /\ Len(p) = s + 2 /\ p[1] * Base + p[2] = s
      /\ \A j \in 1 .. s : p[j + 2] = 100 * fd + (k + 1)
  BY PackedBytes
<1>2. s \in Nat BY PlanSizes
<1>3. /\ A \in Seq(Nat) /\ Len(A) \in Nat /\ \A j \in 0 .. k : off[j] \in 0 .. Len(A)
      /\ off[0] = 0 /\ off[k] = Len(A)
  BY DEF Laid
<1>4. /\ B \in Seq(Nat) /\ Len(B) = Len(A) + s + 2
      /\ \A j \in 1 .. Len(A) : B[j] = A[j]
      /\ \A j \in 1 .. s + 2 : B[Len(A) + j] = p[j]
  <2> HIDE DEF p, s
  <2>1. /\ B \in Seq(Nat) /\ Len(B) = Len(A) + Len(p)
        /\ \A j \in 1 .. Len(A) + Len(p) : B[j] = IF j <= Len(A) THEN A[j] ELSE p[j - Len(A)]
    <3>1. p \in Seq(Nat) /\ A \in Seq(Nat) BY <1>1, <1>3
    <3>. QED BY ONLY <3>1, ConcatElements
  <2>. QED BY <2>1, <1>1, <1>2, <1>3
<1> HIDE DEF p, s, B
<1>5. /\ \A j \in 0 .. k : off2[j] = off[j] /\ off2[j] \in 0 .. Len(A)
      /\ off2[k + 1] = Len(A) + 2 + s
  BY <1>3
<1>6. off2 \in [0 .. k + 1 -> 0 .. Len(B)] /\ off2[0] = 0 /\ off2[k + 1] = Len(B)
  BY <1>2, <1>3, <1>4
<1> HIDE DEF off2
<1>7. ASSUME NEW j \in 0 .. k
      PROVE  /\ off2[j + 1] = off2[j] + 2 + plan[fd][j + 1]
             /\ SizeAt(B, off2[j]) = plan[fd][j + 1]
             /\ SubSeq(B, off2[j] + 3, off2[j + 1]) = Contents(fd, j + 1)
  <2>1. CASE j = k
    <3>1. off2[j] = Len(A) /\ off2[j + 1] = Len(A) + 2 + s BY <1>3, <1>5, <2>1
    <3>2. B[Len(A) + 1] = p[1] /\ B[Len(A) + 2] = p[2] BY <1>2, <1>4
    <3>3. SizeAt(B, Len(A)) = s BY <1>1, <3>2 DEF SizeAt
    <3>4. SubSeq(B, Len(A) + 3, Len(A) + 2 + s) = Contents(fd, k + 1)
      <4>1. \A i \in 1 .. s : B[Len(A) + 2 + i] = 100 * fd + (k + 1)
        <5> SUFFICES ASSUME NEW i \in 1 .. s PROVE B[Len(A) + 2 + i] = 100 * fd + (k + 1)
          OBVIOUS
        <5>1. i + 2 \in 1 .. s + 2 /\ Len(A) + 2 + i = Len(A) + (i + 2) BY <1>2, <1>3
        <5>. QED BY <1>1, <1>4, <5>1
      <4>2. Contents(fd, k + 1) = [i \in 1 .. s |-> 100 * fd + (k + 1)] BY DEF Contents, s
      <4>3. Contents(fd, k + 1) \in Seq(Nat) /\ Len(Contents(fd, k + 1)) = s
        <5>1. 100 * fd + (k + 1) \in Nat BY PlanSizes
        <5>. QED BY <1>2, <4>2, <5>1
      <4> DEFINE a == Len(A) + 2
                 e == Len(A) + 2 + s
      <4>4. /\ e \in 0 .. Len(B) /\ a \in 0 .. e /\ a + 1 = Len(A) + 3 /\ e - a = s
            /\ B \in Seq(Nat) /\ \A i \in 1 .. s : B[a + i] = 100 * fd + (k + 1)
        BY <1>2, <1>3, <1>4, <4>1
      <4>5. \A i \in 1 .. s : Contents(fd, k + 1)[i] = 100 * fd + (k + 1) BY <4>2
      <4> HIDE DEF a, e
      <4>6. /\ SubSeq(B, a + 1, e) \in Seq(Nat) /\ Len(SubSeq(B, a + 1, e)) = e - a
            /\ \A i \in 1 .. e - a : SubSeq(B, a + 1, e)[i] = B[a + i]
        BY <4>4, PieceIs
      <4>7. SubSeq(B, a + 1, e) = Contents(fd, k + 1)
        <5> DEFINE t == SubSeq(B, a + 1, e)
                   u == Contents(fd, k + 1)
        <5>1. t \in Seq(Nat) /\ u \in Seq(Nat) /\ Len(t) = Len(u) BY <4>3, <4>4, <4>6
        <5>2. \A i \in 1 .. Len(t) : t[i] = u[i]
          <6>1. Len(t) = s /\ \A i \in 1 .. s : t[i] = B[a + i] BY <4>4, <4>6
          <6>2. \A i \in 1 .. s : B[a + i] = 100 * fd + (k + 1) BY <4>4
          <6> HIDE DEF t, u, s
          <6>3. \A i \in 1 .. s : u[i] = 100 * fd + (k + 1) BY <4>5 DEF u
          <6>. QED BY ONLY <6>1, <6>2, <6>3
        <5> HIDE DEF t, u
        <5>3. t = u BY ONLY <5>1, <5>2, SameElements
        <5>. QED BY <5>3 DEF t, u
      <4>. QED BY <4>4, <4>7 DEF e
    <3>. QED BY <2>1, <3>1, <3>3, <3>4 DEF s
  <2>2. CASE j # k
    <3>1. j \in 0 .. k - 1 /\ j + 1 \in 0 .. k /\ j \in 0 .. k BY <2>2
    <3>2. /\ off[j + 1] = off[j] + 2 + plan[fd][j + 1]
          /\ SizeAt(A, off[j]) = plan[fd][j + 1]
          /\ SubSeq(A, off[j] + 3, off[j + 1]) = Contents(fd, j + 1)
      BY <3>1 DEF Laid
    <3>3. off2[j + 1] = off[j + 1] /\ off2[j] = off[j] BY <1>5, <3>1
    <3>4. plan[fd][j + 1] \in Nat
      <4>1. j + 1 \in DOMAIN plan[fd] BY <3>1, PlanSizes
      <4>. QED BY <4>1, PlanSizes
    <3>5. off[j] \in Nat /\ off[j + 1] \in 0 .. Len(A) BY <1>3, <3>1
    <3>6. off[j] + 1 \in 1 .. Len(A) /\ off[j] + 2 \in 1 .. Len(A)
      <4>1. off[j + 1] = off[j] + 2 + plan[fd][j + 1] BY <3>2
      <4>2. Len(A) \in Nat BY <1>3
      <4>3. off[j] + 2 + plan[fd][j + 1] <= Len(A) BY <3>5, <4>1
      <4>4. off[j] \in Nat BY <3>5
      <4> DEFINE x == off[j]
                 y == plan[fd][j + 1]
                 l == Len(A)
      <4>5. x \in Nat /\ y \in Nat /\ l \in Nat /\ x + 2 + y <= l BY <3>4, <4>2, <4>3, <4>4
      <4> HIDE DEF x, y, l
      <4>6. x + 1 \in 1 .. l /\ x + 2 \in 1 .. l BY ONLY <4>5
      <4>. QED BY <4>6 DEF x, l
    <3>7. SizeAt(B, off[j]) = SizeAt(A, off[j]) BY <1>4, <3>6 DEF SizeAt
    <3>8. SubSeq(B, off[j] + 3, off[j + 1]) = SubSeq(A, off[j] + 3, off[j + 1])
      <4> DEFINE a == off[j] + 2
                 e == off[j + 1]
      <4>1. /\ a \in 0 .. e /\ e \in 0 .. Len(A) /\ e \in 0 .. Len(B) /\ a + 1 = off[j] + 3
            /\ Len(A) \in Nat
        <5>1. off[j + 1] = off[j] + 2 + plan[fd][j + 1] BY <3>2
        <5>2. Len(A) \in Nat /\ Len(B) = Len(A) + s + 2 BY <1>3, <1>4
        <5>. QED BY SMTT(30), <1>2, <3>4, <3>5, <5>1, <5>2
      <4> HIDE DEF a, e
      <4>2. /\ SubSeq(A, a + 1, e) \in Seq(Nat) /\ Len(SubSeq(A, a + 1, e)) = e - a
            /\ \A i \in 1 .. e - a : SubSeq(A, a + 1, e)[i] = A[a + i]
        BY SMTT(30), <1>3, <4>1, PieceIs
      <4>3. /\ SubSeq(B, a + 1, e) \in Seq(Nat) /\ Len(SubSeq(B, a + 1, e)) = e - a
            /\ \A i \in 1 .. e - a : SubSeq(B, a + 1, e)[i] = B[a + i]
        BY <1>4, <4>1, PieceIs
      <4>4. \A i \in 1 .. e - a : B[a + i] = A[a + i]
        <5> SUFFICES ASSUME NEW i \in 1 .. e - a PROVE B[a + i] = A[a + i] OBVIOUS
        <5>1. a + i \in 1 .. Len(A) BY <4>1
        <5>. QED BY <1>4, <5>1
      <4>5. SubSeq(B, a + 1, e) = SubSeq(A, a + 1, e)
        <5> DEFINE t == SubSeq(B, a + 1, e)
                   u == SubSeq(A, a + 1, e)
        <5>1. t \in Seq(Nat) /\ u \in Seq(Nat) /\ Len(t) = Len(u) BY <4>2, <4>3
        <5>2. \A i \in 1 .. Len(t) : t[i] = u[i] BY <4>2, <4>3, <4>4
        <5> HIDE DEF t, u
        <5>3. t = u BY ONLY <5>1, <5>2, SameElements
        <5>. QED BY <5>3 DEF t, u
      <4>. QED BY <4>1, <4>5 DEF e
    <3>. QED BY <3>2, <3>3, <3>7, <3>8
  <2>. QED BY <2>1, <2>2
<1>8. Laid(fd, k + 1, B, off2)
  <2>1. k + 1 - 1 = k OBVIOUS
  <2>2. B \in Seq(Nat) BY <1>4
  <2>3. ASSUME NEW j \in 0 .. k + 1 - 1
        PROVE  /\ off2[j + 1] = off2[j] + 2 + plan[fd][j + 1]
               /\ SizeAt(B, off2[j]) = plan[fd][j + 1]
               /\ SubSeq(B, off2[j] + 3, off2[j + 1]) = Contents(fd, j + 1)
    <3>1. j \in 0 .. k BY <2>1
    <3>. QED BY <1>7, <3>1
  <2>. QED BY ONLY <1>6, <2>2, <2>3 DEF Laid
<1>. QED BY <1>8 DEF B, p

(* FlattenSeq, one sequence after the other.                                *)
Flats(f, last, q) ==
  f = [k \in 1 .. last |-> IF k = 1 THEN q[k] ELSE f[k - 1] \o q[k]]

LEMMA FlatsExist ==
  ASSUME NEW q, NEW last \in Nat
  PROVE  \E f : Flats(f, last, q)
<1> DEFINE Fails == {k \in Nat : ~\E f : Flats(f, k, q)}
<1> SUFFICES ASSUME Fails # {} PROVE FALSE OBVIOUS
<1>1. PICK k \in Fails : \A j \in Fails : k <= j BY LeastNumber
<1>2. k \in Nat /\ ~\E f : Flats(f, k, q) OBVIOUS
<1>3. CASE k = 0
  <2> DEFINE f == [j \in 1 .. 0 |-> q]
  <2>1. f = [j \in 1 .. 0 |-> IF j = 1 THEN q[j] ELSE f[j - 1] \o q[j]]
    <3>1. \A j \in 1 .. 0 : FALSE OBVIOUS
    <3>. QED BY <3>1
  <2>. QED BY <1>2, <1>3, <2>1 DEF Flats
<1>4. CASE k # 0
  <2>1. k - 1 \in Nat /\ k - 1 \notin Fails BY <1>1, <1>2, <1>4
  <2>2. PICK f : Flats(f, k - 1, q) BY <2>1
  <2>3. \A j \in 1 .. k - 1 : f[j] = IF j = 1 THEN q[j] ELSE f[j - 1] \o q[j]
    BY <2>2 DEF Flats
  <2> DEFINE h == [j \in 1 .. k |->
                     IF j # k THEN f[j] ELSE IF k = 1 THEN q[k] ELSE f[k - 1] \o q[k]]
  <2>4. \A j \in 1 .. k - 1 : h[j] = f[j] BY <1>2
  <2>5. h[k] = IF k = 1 THEN q[k] ELSE h[k - 1] \o q[k]
    <3>1. k \in 1 .. k BY <1>2, <1>4
    <3>2. k # 1 => k - 1 \in 1 .. k - 1 BY <1>2, <1>4
    <3>3. h[k] = IF k = 1 THEN q[k] ELSE f[k - 1] \o q[k] BY <3>1
    <3>. QED BY <2>4, <3>2, <3>3
  <2>7. ASSUME NEW j \in 1 .. k
        PROVE  h[j] = IF j = 1 THEN q[j] ELSE h[j - 1] \o q[j]
    <3>1. CASE j = k BY <2>5, <3>1
    <3>3. CASE j # k
      <4>1. j \in 1 .. k - 1 /\ (j # 1 => j - 1 \in 1 .. k - 1) BY <1>2, <3>3
      <4>. QED BY <2>3, <2>4, <4>1
    <3>. QED BY <3>1, <3>3
  <2>8. h = [j \in 1 .. k |-> h[j]] OBVIOUS
  <2> HIDE DEF h
  <2>9. Flats(h, k, q) BY <2>7, <2>8 DEF Flats
  <2>. QED BY <1>2, <2>9
<1>. QED BY <1>3, <1>4

LEMMA FlattenSeqIs ==
  ASSUME NEW q, Len(q) \in Nat, Len(q) # 0
  PROVE  \E f : /\ f[1] = q[1]
                /\ \A k \in 2 .. Len(q) : f[k] = f[k - 1] \o q[k]
                /\ FlattenSeq(q) = f[Len(q)]
<1> DEFINE P(f) == f = [i \in 1 .. Len(q) |-> IF i = 1 THEN q[i] ELSE f[i - 1] \o q[i]]
<1>1. \A f : P(f) <=> Flats(f, Len(q), q) BY DEF Flats
<1>2. FlattenSeq(q) = (CHOOSE f : P(f))[Len(q)] BY DEF FlattenSeq
<1> HIDE DEF P
<1>3. \E f : P(f) BY <1>1, FlatsExist
<1>4. P(CHOOSE f : P(f)) BY <1>3
<1>5. PICK f : f = CHOOSE g : P(g) OBVIOUS
<1>6. Flats(f, Len(q), q) BY <1>1, <1>4, <1>5
<1>7. \A k \in 1 .. Len(q) : f[k] = IF k = 1 THEN q[k] ELSE f[k - 1] \o q[k]
  BY <1>6 DEF Flats
<1>8. f[1] = q[1] BY <1>7
<1>9. \A k \in 2 .. Len(q) : k \in 1 .. Len(q) /\ k # 1 OBVIOUS
<1>. QED BY <1>2, <1>5, <1>7, <1>8, <1>9

(* What a peer sends is its packages, one behind the other.                 *)
LEMMA StreamLaid ==
  ASSUME plan \in Plans, NEW fd \in Fds
  PROVE  \E off : Laid(fd, Len(plan[fd]), Stream(fd), off)
<1> DEFINE n == Len(plan[fd])
           q == [i \in DOMAIN plan[fd] |-> Packed(Contents(fd, i))]
<1>1. n \in Nat /\ DOMAIN plan[fd] = 1 .. n BY PlanSizes
<1>2. /\ \A i \in 1 .. n : q[i] = Packed(Contents(fd, i)) /\ q[i] \in Seq(Nat)
      /\ DOMAIN q = 1 .. n
  BY <1>1, PackedBytes
<1>3. Stream(fd) = FlattenSeq(q) BY DEF Stream
<1> HIDE DEF q
<1>4. q \in Seq(Seq(Nat)) /\ Len(q) = n
  <2>1. q = [i \in 1 .. n |-> q[i]] BY <1>1, <1>2 DEF q
  <2> DEFINE T == Seq(Nat)
  <2>2. \A i \in 1 .. n : q[i] \in T BY <1>2
  <2> HIDE DEF n, T
  <2>3. q \in Seq(T) /\ Len(q) = n
    <3>1. [i \in 1 .. n |-> q[i]] \in Seq(T) /\ Len([i \in 1 .. n |-> q[i]]) = n
      BY ONLY <1>1, <2>2
    <3>. QED BY ONLY <2>1, <3>1
  <2>. QED BY <2>3 DEF T
<1> HIDE DEF n
<1>5. CASE n = 0
  <2>1. q = <<>> BY <1>4, <1>5
  <2>2. Stream(fd) = <<>> BY <1>3, <1>4, <1>5, <2>1 DEF FlattenSeq
  <2>. QED BY <1>5, <2>2, NothingLaid DEF n
<1>6. CASE n # 0
  <2>1. PICK f : /\ f[1] = q[1] /\ \A k \in 2 .. n : f[k] = f[k - 1] \o q[k]
                 /\ FlattenSeq(q) = f[n]
    <3>1. Len(q) \in Nat /\ Len(q) # 0 BY <1>1, <1>4, <1>6
    <3>. QED BY <1>4, <3>1, FlattenSeqIs
  <2> DEFINE Fails == {k \in Nat : k \in 1 .. n /\ ~\E off : Laid(fd, k, f[k], off)}
  <2>2. ASSUME Fails # {} PROVE FALSE
    <3>1. PICK k \in Fails : \A j \in Fails : k <= j BY <2>2, LeastNumber
    <3>2. k \in 1 .. n /\ k \in Nat /\ ~\E off : Laid(fd, k, f[k], off) OBVIOUS
    <3>3. CASE k = 1
      <4>1. Laid(fd, 0, <<>>, [j \in 0 .. 0 |-> 0]) BY NothingLaid
      <4>2. 0 \in Nat /\ 0 + 1 \in DOMAIN plan[fd] BY <1>1, <1>6
      <4>3. \E off : Laid(fd, 0 + 1, <<>> \o Packed(Contents(fd, 0 + 1)), off)
        BY ONLY <4>1, <4>2, plan \in Plans, fd \in Fds, OneMoreLaid
      <4>4. <<>> \o Packed(Contents(fd, 1)) = f[1]
        BY <1>1, <1>2, <1>6, <2>1, ConcatEmptySeq
      <4>. QED BY <3>2, <3>3, <4>3, <4>4
    <3>4. CASE k # 1
      <4>1. k - 1 \in Nat /\ k - 1 \in 1 .. n /\ k - 1 \notin Fails /\ k - 1 + 1 = k
        BY <1>1, <3>1, <3>2, <3>4
      <4>2. PICK off : Laid(fd, k - 1, f[k - 1], off) BY <4>1
      <4>3. \E o : Laid(fd, k - 1 + 1, f[k - 1] \o Packed(Contents(fd, k - 1 + 1)), o)
        <5>1. k - 1 + 1 \in DOMAIN plan[fd] BY <1>1, <3>2, <4>1
        <5>. QED BY <4>1, <4>2, <5>1, OneMoreLaid
      <4>4. f[k] = f[k - 1] \o Packed(Contents(fd, k))
        <5>1. k \in 2 .. n BY <1>1, <3>2, <3>4
        <5>. QED BY <1>2, <2>1, <3>2, <5>1
      <4>. QED BY <3>2, <4>1, <4>3, <4>4
    <3>. QED BY <3>3, <3>4
  <2>3. n \in Nat /\ n \in 1 .. n BY <1>1, <1>6
  <2>4. \E off : Laid(fd, n, f[n], off) BY <2>2, <2>3
  <2>. QED BY <1>3, <2>1, <2>4 DEF n
<1>. QED BY <1>5, <1>6

(* A piece of a piece.                                                      *)
LEMMA PieceOfPiece ==
  ASSUME NEW S, NEW s \in Seq(S), NEW e \in 0 .. Len(s), NEW a \in 0 .. e,
         NEW g \in 0 .. e - a, NEW c \in 0 .. g
  PROVE  SubSeq(SubSeq(s, a + 1, e), c + 1, g) = SubSeq(s, a + c + 1, a + g)
<1> DEFINE t == SubSeq(s, a + 1, e)
           u == SubSeq(t, c + 1, g)
           v == SubSeq(s, a + c + 1, a + g)
<1>1. Len(s) \in Nat /\ e \in Nat /\ a \in Nat /\ g \in Nat /\ c \in Nat OBVIOUS
<1>2. /\ a + g \in 0 .. Len(s) /\ a + c \in 0 .. a + g /\ a + g - (a + c) = g - c
  BY <1>1
<1>3. t \in Seq(S) /\ Len(t) = e - a /\ \A i \in 1 .. e - a : t[i] = s[a + i]
  BY PieceIs
<1>4. v \in Seq(S) /\ Len(v) = g - c /\ \A i \in 1 .. g - c : v[i] = s[a + c + i]
  <2> DEFINE x == a + c
             y == a + g
  <2>1. y \in 0 .. Len(s) /\ x \in 0 .. y /\ y - x = g - c BY <1>2
  <2> HIDE DEF x, y
  <2>2. /\ SubSeq(s, x + 1, y) \in Seq(S) /\ Len(SubSeq(s, x + 1, y)) = y - x
        /\ \A i \in 1 .. y - x : SubSeq(s, x + 1, y)[i] = s[x + i]
    BY <2>1, PieceIs
  <2>. QED BY <2>1, <2>2 DEF x, y
<1> HIDE DEF t, v
<1>5. u \in Seq(S) /\ Len(u) = g - c /\ \A i \in 1 .. g - c : u[i] = t[c + i]
  <2>1. g \in 0 .. Len(t) /\ t \in Seq(S) BY <1>3
  <2>. QED BY <2>1, PieceIs
<1> HIDE DEF u
<1>6. ASSUME NEW i \in 1 .. Len(u) PROVE u[i] = v[i]
  <2>1. i \in 1 .. g - c /\ c + i \in 1 .. e - a /\ a + (c + i) = a + c + i BY <1>1, <1>5
  <2>. QED BY <1>3, <1>4, <1>5, <2>1
<1>7. u = v
  <2>1. u \in Seq(S) /\ v \in Seq(S) /\ Len(u) = Len(v) BY <1>4, <1>5
  <2>. QED BY ONLY <2>1, <1>6, SameElements
<1>. QED BY <1>7 DEF t, u, v

(* One step of push_more at the place i, g telling what comes behind.       *)
CutAt(g, i, fd, b) ==
  IF CompleteAt(b, i)
  THEN [packs |-> <<SubSeq(b, i + 3, i + 2 + SizeAt(b, i))>> \o g[i + 2 + SizeAt(b, i)].packs,
        rest |-> g[i + 2 + SizeAt(b, i)].rest]
  ELSE [packs |-> <<>>, rest |-> Leftover(fd, SubSeq(b, i + 1, Len(b)))]

Cuts(g, lo, fd, b) == g = [i \in lo .. Len(b) |-> CutAt(g, i, fd, b)]

(* Bytes are numbers, so are sizes.                                         *)
LEMMA SizeIsNat ==
  ASSUME NEW b \in Seq(Nat), NEW i \in Nat, i + 2 <= Len(b)
  PROVE  SizeAt(b, i) \in Nat
<1>1. Base \in Nat BY GateAssumption DEF GateAssumption
<1>2. b[i + 1] \in Nat /\ b[i + 2] \in Nat OBVIOUS
<1>. QED BY SMTT(30), <1>1, <1>2 DEF SizeAt

(* However short what is left is, push_more comes to its end.               *)
LEMMA CutsExist ==
  ASSUME NEW fd, NEW b \in Seq(Nat), NEW last \in 0 .. Len(b)
  PROVE  \E g : Cuts(g, Len(b) - last, fd, b)
<1> DEFINE Fails == {k \in Nat : k <= Len(b) /\ ~\E g : Cuts(g, Len(b) - k, fd, b)}
<1>0. Len(b) \in Nat OBVIOUS
<1> SUFFICES ASSUME Fails # {} PROVE FALSE BY <1>0
<1>1. PICK k \in Fails : \A j \in Fails : k <= j BY LeastNumber
<1> DEFINE lo == Len(b) - k
<1>2. k \in Nat /\ lo \in 0 .. Len(b) /\ ~\E g : Cuts(g, lo, fd, b) BY <1>0
<1>3. \E f : \A i \in lo + 1 .. Len(b) : f[i] = CutAt(f, i, fd, b)
  <2>1. CASE k = 0
    <3>1. \A i \in lo + 1 .. Len(b) : FALSE BY <1>0, <2>1
    <3>. QED BY <3>1
  <2>2. CASE k # 0
    <3>1. k - 1 \in Nat /\ k - 1 \notin Fails /\ k - 1 <= Len(b)
      <4>1. k - 1 \in Nat /\ k - 1 < k /\ k - 1 <= Len(b) BY <1>0, <2>2
      <4>2. \A j \in Fails : j \in Nat OBVIOUS
      <4> HIDE DEF Fails
      <4>3. k - 1 \notin Fails BY <1>1, <4>1, <4>2
      <4>. QED BY <4>1, <4>3
    <3>2. PICK f : Cuts(f, Len(b) - (k - 1), fd, b) BY <3>1
    <3>3. Len(b) - (k - 1) = lo + 1 BY <1>0, <1>2
    <3> HIDE DEF lo
    <3>4. \A i \in lo + 1 .. Len(b) : f[i] = CutAt(f, i, fd, b) BY <3>2, <3>3 DEF Cuts
    <3>. QED BY <3>4
  <2>. QED BY <2>1, <2>2
<1>4. PICK f : \A i \in lo + 1 .. Len(b) : f[i] = CutAt(f, i, fd, b) BY <1>3
<1> HIDE DEF lo
<1> DEFINE h == [i \in lo .. Len(b) |-> IF i = lo THEN CutAt(f, lo, fd, b) ELSE f[i]]
<1>5. \A i \in lo + 1 .. Len(b) : h[i] = f[i] BY <1>0, <1>2
<1>6. h[lo] = CutAt(f, lo, fd, b) BY <1>0, <1>2
<1> HIDE DEF h
<1>7. ASSUME NEW i \in lo .. Len(b) PROVE CutAt(h, i, fd, b) = CutAt(f, i, fd, b)
  <2>1. CASE CompleteAt(b, i)
    <3>1. SizeAt(b, i) \in Nat BY <1>2, <2>1, SizeIsNat DEF CompleteAt
    <3>2. i + 2 + SizeAt(b, i) \in lo + 1 .. Len(b) BY <1>0, <1>2, <2>1, <3>1 DEF CompleteAt
    <3>3. h[i + 2 + SizeAt(b, i)] = f[i + 2 + SizeAt(b, i)] BY <1>5, <3>2
    <3>. QED BY <3>3 DEF CutAt
  <2>2. CASE ~CompleteAt(b, i) BY <2>2 DEF CutAt
  <2>. QED BY <2>1, <2>2
<1>8. \A i \in lo .. Len(b) : h[i] = CutAt(h, i, fd, b)
  <2> SUFFICES ASSUME NEW i \in lo .. Len(b) PROVE h[i] = CutAt(h, i, fd, b) OBVIOUS
  <2>1. CASE i = lo BY <1>6, <1>7, <2>1
  <2>2. CASE i # lo
    <3>1. i \in lo + 1 .. Len(b) BY <1>0, <1>2, <2>2
    <3>. QED BY <1>4, <1>5, <1>7, <3>1
  <2>. QED BY <2>1, <2>2
<1>9. h = [i \in lo .. Len(b) |-> h[i]] BY DEF h
<1>10. Cuts(h, lo, fd, b) BY <1>8, <1>9 DEF Cuts
<1>. QED BY <1>2, <1>10

LEMMA PushMoreIs ==
  ASSUME NEW fd, NEW b \in Seq(Nat)
  PROVE  \E f : /\ PushMore(fd, b) = f[0]
                /\ \A i \in 0 .. Len(b) : f[i] = CutAt(f, i, fd, b)
<1> DEFINE P(from) ==
             from = [i \in 0 .. Len(b) |->
                       IF CompleteAt(b, i)
                       THEN [packs |-> <<SubSeq(b, i + 3, i + 2 + SizeAt(b, i))>>
                                         \o from[i + 2 + SizeAt(b, i)].packs,
                             rest |-> from[i + 2 + SizeAt(b, i)].rest]
                       ELSE [packs |-> <<>>, rest |-> Leftover(fd, SubSeq(b, i + 1, Len(b)))]]
<1>1. \A f : P(f) <=> Cuts(f, 0, fd, b) BY DEF Cuts, CutAt
<1>2. PushMore(fd, b) = (CHOOSE f : P(f))[0] BY DEF PushMore
<1> HIDE DEF P
<1>3. \E f : P(f)
  <2>1. Len(b) \in 0 .. Len(b) /\ Len(b) - Len(b) = 0 OBVIOUS
  <2>2. \E f : Cuts(f, 0, fd, b) BY <2>1, CutsExist
  <2>. QED BY <1>1, <2>2
<1>4. P(CHOOSE f : P(f)) BY <1>3
<1>5. PICK f : f = CHOOSE g : P(g) OBVIOUS
<1>6. Cuts(f, 0, fd, b) BY <1>1, <1>4, <1>5
<1>7. \A i \in 0 .. Len(b) : f[i] = CutAt(f, i, fd, b) BY <1>6 DEF Cuts
<1>. QED BY <1>2, <1>5, <1>7

(* All that fd sends, laid out.                                             *)
Whole(fd, A, off) == Laid(fd, Len(plan[fd]), A, off)

(* The parts of a layout one by one.                                        *)
LEMMA WholeIs ==
  ASSUME plan \in Plans, NEW fd \in Fds, NEW A, NEW off, Whole(fd, A, off)
  PROVE  /\ A \in Seq(Nat) /\ Len(A) \in Nat /\ Len(plan[fd]) \in Nat
         /\ off[0] = 0 /\ off[Len(plan[fd])] = Len(A)
         /\ \A j \in 0 .. Len(plan[fd]) : off[j] \in 0 .. Len(A)
         /\ \A j \in 0 .. Len(plan[fd]) - 1 :
              /\ j + 1 \in 0 .. Len(plan[fd]) /\ plan[fd][j + 1] \in Nat
              /\ off[j + 1] = off[j] + 2 + plan[fd][j + 1]
              /\ A[off[j] + 1] * Base + A[off[j] + 2] = plan[fd][j + 1]
              /\ SubSeq(A, off[j] + 3, off[j + 1]) = Contents(fd, j + 1)
<1> DEFINE n == Len(plan[fd])
<1>1. n \in Nat /\ DOMAIN plan[fd] = 1 .. n /\ \A i \in 1 .. n : plan[fd][i] \in Nat
  BY PlanSizes
<1> HIDE DEF n
<1>2. Laid(fd, n, A, off) BY DEF Whole, n
<1>3. /\ A \in Seq(Nat) /\ Len(A) \in Nat /\ off[0] = 0 /\ off[n] = Len(A)
      /\ \A j \in 0 .. n : off[j] \in 0 .. Len(A)
  BY <1>2 DEF Laid
<1>4. \A j \in 0 .. n - 1 :
        /\ off[j + 1] = off[j] + 2 + plan[fd][j + 1]
        /\ A[off[j] + 1] * Base + A[off[j] + 2] = plan[fd][j + 1]
        /\ SubSeq(A, off[j] + 3, off[j + 1]) = Contents(fd, j + 1)
  BY <1>2 DEF Laid, SizeAt
<1>5. \A j \in 0 .. n - 1 : j + 1 \in 0 .. n /\ plan[fd][j + 1] \in Nat BY <1>1
<1>. QED BY <1>1, <1>3, <1>4, <1>5 DEF n

LEMMA PackageAt ==
  ASSUME plan \in Plans, NEW fd \in Fds, NEW A, NEW off, Whole(fd, A, off),
         NEW j \in 0 .. Len(plan[fd]) - 1
  PROVE  /\ j + 1 \in 0 .. Len(plan[fd]) /\ plan[fd][j + 1] \in Nat
         /\ off[j + 1] = off[j] + 2 + plan[fd][j + 1]
         /\ A[off[j] + 1] * Base + A[off[j] + 2] = plan[fd][j + 1]
         /\ SubSeq(A, off[j] + 3, off[j + 1]) = Contents(fd, j + 1)
<1>1. \A x \in 0 .. Len(plan[fd]) - 1 :
        /\ x + 1 \in 0 .. Len(plan[fd]) /\ plan[fd][x + 1] \in Nat
        /\ off[x + 1] = off[x] + 2 + plan[fd][x + 1]
        /\ A[off[x] + 1] * Base + A[off[x] + 2] = plan[fd][x + 1]
        /\ SubSeq(A, off[x] + 3, off[x + 1]) = Contents(fd, x + 1)
  BY ONLY plan \in Plans, fd \in Fds, Whole(fd, A, off), WholeIs
<1>. QED BY <1>1

(* Packages lie one behind the other.                                       *)
LEMMA OffsetsGrow ==
  ASSUME plan \in Plans, NEW fd \in Fds, NEW A, NEW off, Whole(fd, A, off),
         NEW k \in 0 .. Len(plan[fd]), NEW j \in k .. Len(plan[fd])
  PROVE  off[k] <= off[j]
<1> DEFINE n == Len(plan[fd])
           Fails == {x \in Nat : x \in k .. n /\ ~(off[k] <= off[x])}
<1>1. /\ n \in Nat /\ \A x \in 0 .. n : off[x] \in Nat
      /\ \A x \in 0 .. n - 1 : plan[fd][x + 1] \in Nat /\ off[x + 1] = off[x] + 2 + plan[fd][x + 1]
  BY WholeIs
<1> HIDE DEF n
<1>2. ASSUME Fails # {} PROVE FALSE
  <2>1. PICK x \in Fails : \A y \in Fails : x <= y BY <1>2, LeastNumber
  <2>2. x \in Nat /\ x \in k .. n /\ ~(off[k] <= off[x]) OBVIOUS
  <2>3. k \in 0 .. n BY DEF n
  <2>4. x # k BY <1>1, <2>2, <2>3
  <2>5. x - 1 \in Nat /\ x - 1 \in k .. n /\ x - 1 \in 0 .. n - 1 /\ x - 1 + 1 = x /\ x - 1 < x
    BY <1>1, <2>2, <2>3, <2>4
  <2>6. off[k] <= off[x - 1]
    <3>1. x - 1 \notin Fails
      <4>1. \A y \in Fails : y \in Nat OBVIOUS
      <4> HIDE DEF Fails
      <4>. QED BY <2>1, <2>5, <4>1
    <3>. QED BY <2>5, <3>1
  <2>7. off[x] = off[x - 1] + 2 + plan[fd][x] /\ plan[fd][x] \in Nat BY <1>1, <2>5
  <2>8. off[x] \in Nat /\ off[x - 1] \in Nat /\ off[k] \in Nat
    <3>1. x \in 0 .. n /\ x - 1 \in 0 .. n BY <1>1, <2>5
    <3>. QED BY <1>1, <2>3, <3>1
  <2>9. off[k] <= off[x]
    <3> DEFINE u == off[k]
               v == off[x - 1]
               w == plan[fd][x]
    <3>1. u \in Nat /\ v \in Nat /\ w \in Nat /\ u <= v /\ off[x] = v + 2 + w
      BY <2>6, <2>7, <2>8
    <3> HIDE DEF u, v, w
    <3>2. u <= off[x] BY <3>1
    <3>. QED BY <3>2 DEF u
  <2>. QED BY <2>2, <2>9
<1>3. j \in Nat /\ j \in k .. n BY <1>1 DEF n
<1>. QED BY <1>2, <1>3

(* The packages of fd, as they were sent.                                   *)
LEMMA SentIs ==
  ASSUME plan \in Plans, NEW fd \in Fds
  PROVE  /\ Sent(fd) \in Seq(Seq(Nat)) /\ Len(Sent(fd)) = Len(plan[fd])
         /\ \A i \in 1 .. Len(plan[fd]) : Sent(fd)[i] = Contents(fd, i)
<1> DEFINE n == Len(plan[fd])
           T == Seq(Nat)
<1>1. n \in Nat /\ DOMAIN plan[fd] = 1 .. n /\ fd \in Nat
      /\ \A i \in 1 .. n : plan[fd][i] \in Nat
  BY PlanSizes
<1> HIDE DEF n
<1>2. Sent(fd) = [i \in 1 .. n |-> Contents(fd, i)] BY <1>1 DEF Sent
<1>3. \A i \in 1 .. n : Contents(fd, i) \in T
  <2> SUFFICES ASSUME NEW i \in 1 .. n PROVE Contents(fd, i) \in Seq(Nat) OBVIOUS
  <2>1. plan[fd][i] \in Nat /\ 100 * fd + i \in Nat BY <1>1
  <2>2. Contents(fd, i) = [j \in 1 .. plan[fd][i] |-> 100 * fd + i] BY DEF Contents
  <2>. QED BY <2>1, <2>2
<1> HIDE DEF T
<1>4. [i \in 1 .. n |-> Contents(fd, i)] \in Seq(T) BY <1>1, <1>3
<1>5. Len([i \in 1 .. n |-> Contents(fd, i)]) = n BY <1>1
<1>6. \A i \in 1 .. n : [x \in 1 .. n |-> Contents(fd, x)][i] = Contents(fd, i) OBVIOUS
<1>. QED BY <1>2, <1>4, <1>5, <1>6 DEF n, T

(* From behind package k on, up to the byte E of A, r holds the packages that *)
(* are complete, and as its rest what lies behind them.                     *)
CutUpTo(fd, A, off, k, E, r) ==
  \E m \in k .. Len(plan[fd]) :
    /\ off[m] <= E /\ (m = Len(plan[fd]) \/ E < off[m + 1])
    /\ r.packs = SubSeq(Sent(fd), k + 1, m)
    /\ r.rest = Leftover(fd, SubSeq(A, off[m] + 1, E))

(* The last package that is here.                                           *)
LEMMA LastWhole ==
  ASSUME plan \in Plans, NEW fd \in Fds, NEW A, NEW off, Whole(fd, A, off),
         NEW k \in 0 .. Len(plan[fd]), NEW E \in off[k] .. Len(A)
  PROVE  \E m \in k .. Len(plan[fd]) :
           /\ off[m] <= E /\ (m = Len(plan[fd]) \/ E < off[m + 1])
           /\ \A j \in k .. m : off[j] <= E
<1> DEFINE n == Len(plan[fd])
           Ends == {x \in Nat : x \in k .. n /\ (x = n \/ E < off[x + 1])}
<1>1. /\ n \in Nat /\ Len(A) \in Nat /\ \A x \in 0 .. n : off[x] \in Nat
  BY WholeIs
<1>2. k \in 0 .. n /\ E \in Nat BY <1>1
<1> HIDE DEF n
<1>3. Ends # {}
  <2>1. n \in Ends BY <1>1, <1>2
  <2>. QED BY <2>1
<1>4. PICK m \in Ends : \A y \in Ends : m <= y BY <1>3, LeastNumber
<1>5. m \in k .. n /\ m \in Nat /\ (m = n \/ E < off[m + 1]) OBVIOUS
<1>6. ASSUME NEW j \in k .. m PROVE off[j] <= E
  <2>1. CASE j = k BY <1>1, <1>2, <2>1
  <2>2. CASE j # k
    <3>1. j - 1 \in Nat /\ j - 1 \in k .. n /\ j - 1 # n /\ j - 1 < m /\ j - 1 + 1 = j /\ j \in 0 .. n
      BY <1>1, <1>2, <1>5, <2>2
    <3>2. j - 1 \notin Ends
      <4>1. \A y \in Ends : y \in Nat OBVIOUS
      <4> HIDE DEF Ends
      <4>. QED BY <1>4, <3>1, <4>1
    <3>3. ~(E < off[j]) BY <3>1, <3>2
    <3>. QED BY <1>1, <1>2, <3>1, <3>3
  <2>. QED BY <2>1, <2>2
<1>7. off[m] <= E BY <1>2, <1>5, <1>6
<1>. QED BY <1>5, <1>6, <1>7 DEF n

(* push_more on bytes that begin with a package gives the packages that are  *)
(* complete, and keeps what lies behind them.                               *)
LEMMA PushMoreCuts ==
  ASSUME plan \in Plans, NEW fd \in Fds, NEW A, NEW off, Whole(fd, A, off),
         NEW k \in 0 .. Len(plan[fd]), NEW E \in off[k] .. Len(A)
  PROVE  CutUpTo(fd, A, off, k, E, PushMore(fd, SubSeq(A, off[k] + 1, E)))
<1> DEFINE n == Len(plan[fd])
           o == off[k]
           b == SubSeq(A, o + 1, E)
           W == Sent(fd)
<1>1. /\ n \in Nat /\ Len(A) \in Nat /\ A \in Seq(Nat) /\ off[n] = Len(A)
      /\ \A x \in 0 .. n : off[x] \in 0 .. Len(A)
      /\ \A j \in 0 .. n - 1 :
           /\ j + 1 \in 0 .. n /\ plan[fd][j + 1] \in Nat
           /\ off[j + 1] = off[j] + 2 + plan[fd][j + 1]
           /\ A[off[j] + 1] * Base + A[off[j] + 2] = plan[fd][j + 1]
           /\ SubSeq(A, off[j] + 3, off[j + 1]) = Contents(fd, j + 1)
  <2>1. /\ A \in Seq(Nat) /\ Len(A) \in Nat /\ n \in Nat /\ off[n] = Len(A)
        /\ \A x \in 0 .. n : off[x] \in 0 .. Len(A)
    BY WholeIs
  <2>2. ASSUME NEW j \in 0 .. n - 1
        PROVE  /\ j + 1 \in 0 .. n /\ plan[fd][j + 1] \in Nat
               /\ off[j + 1] = off[j] + 2 + plan[fd][j + 1]
               /\ A[off[j] + 1] * Base + A[off[j] + 2] = plan[fd][j + 1]
               /\ SubSeq(A, off[j] + 3, off[j + 1]) = Contents(fd, j + 1)
    <3> HIDE DEF o, b, W
    <3>1. j \in 0 .. Len(plan[fd]) - 1 OBVIOUS
    <3> HIDE DEF n
    <3>2. /\ j + 1 \in 0 .. Len(plan[fd]) /\ plan[fd][j + 1] \in Nat
          /\ off[j + 1] = off[j] + 2 + plan[fd][j + 1]
          /\ A[off[j] + 1] * Base + A[off[j] + 2] = plan[fd][j + 1]
          /\ SubSeq(A, off[j] + 3, off[j + 1]) = Contents(fd, j + 1)
      BY ONLY plan \in Plans, fd \in Fds, Whole(fd, A, off), <3>1, PackageAt
    <3>. QED BY <3>2 DEF n
  <2>. QED BY <2>1, <2>2
<1>2. k \in 0 .. n /\ o \in Nat /\ E \in Nat /\ E \in 0 .. Len(A) /\ o \in 0 .. E BY <1>1
<1>3. W \in Seq(Seq(Nat)) /\ Len(W) = n /\ \A i \in 1 .. n : W[i] = Contents(fd, i)
  BY SentIs
<1>4. PICK m \in k .. n : /\ off[m] <= E /\ (m = n \/ E < off[m + 1])
                          /\ \A j \in k .. m : off[j] <= E
  BY LastWhole
<1>5. \A j \in k .. n : o <= off[j] BY OffsetsGrow
<1>6. b \in Seq(Nat) /\ Len(b) = E - o /\ \A i \in 1 .. E - o : b[i] = A[o + i]
  <2>1. A \in Seq(Nat) /\ E \in 0 .. Len(A) /\ o \in 0 .. E BY <1>1, <1>2
  <2> HIDE DEF o
  <2>. QED BY ONLY <2>1, PieceIs
<1> HIDE DEF n, W
<1>6a. b = SubSeq(A, o + 1, E) OBVIOUS
<1> HIDE DEF b
<1>7. PICK f : PushMore(fd, b) = f[0] /\ \A i \in 0 .. Len(b) : f[i] = CutAt(f, i, fd, b)
  BY <1>6, PushMoreIs
<1> DEFINE rest == Leftover(fd, SubSeq(A, off[m] + 1, E))
           Right(j) == f[off[j] - o].packs = SubSeq(W, j + 1, m) /\ f[off[j] - o].rest = rest
<1>8. ASSUME NEW j \in k .. m
      PROVE  /\ off[j] - o \in 0 .. Len(b) /\ off[j] \in Nat /\ j \in 0 .. n
             /\ f[off[j] - o] = CutAt(f, off[j] - o, fd, b)
  <2>1. j \in 0 .. n /\ j \in k .. n /\ off[j] \in Nat BY <1>1, <1>2
  <2>2. o <= off[j] /\ off[j] <= E BY <1>4, <1>5, <2>1
  <2>3. off[j] - o \in 0 .. Len(b) BY <1>2, <1>6, <2>1, <2>2
  <2>. QED BY <1>7, <2>1, <2>3
<1> HIDE DEF o
(* Behind the last complete package there is none.                          *)
<1>9. Right(m)
  <2> DEFINE i == off[m] - o
  <2>1. m \in k .. m /\ m \in 0 .. n BY <1>1, <1>2
  <2>2. i \in 0 .. Len(b) /\ off[m] \in Nat /\ f[i] = CutAt(f, i, fd, b) /\ off[m] = o + i
    BY <1>2, <1>8, <2>1
  <2> HIDE DEF i
  <2>3. ~CompleteAt(b, i)
    <3>1. CASE m = n
      <4>1. off[m] = E BY <1>1, <1>2, <1>4, <3>1
      <4>2. i = Len(b) BY <1>2, <1>6, <2>2, <4>1
      <4>. QED BY <1>6, <4>2 DEF CompleteAt
    <3>2. CASE m # n
      <4>1. m \in 0 .. n - 1 /\ E < off[m + 1] BY <1>1, <1>4, <2>1, <3>2
      <4>2. /\ off[m + 1] = off[m] + 2 + plan[fd][m + 1] /\ plan[fd][m + 1] \in Nat
            /\ A[off[m] + 1] * Base + A[off[m] + 2] = plan[fd][m + 1]
        BY <1>1, <4>1
      <4> SUFFICES ASSUME CompleteAt(b, i) PROVE FALSE OBVIOUS
      <4>3. i + 2 <= Len(b) /\ i + 2 + SizeAt(b, i) <= Len(b) BY DEF CompleteAt
      <4>4. i + 1 \in 1 .. E - o /\ i + 2 \in 1 .. E - o BY <1>2, <1>6, <2>2, <4>3
      <4>5. b[i + 1] = A[off[m] + 1] /\ b[i + 2] = A[off[m] + 2]
        <5>1. o + (i + 1) = off[m] + 1 /\ o + (i + 2) = off[m] + 2 BY <1>2, <2>2
        <5>. QED BY <1>6, <4>4, <5>1
      <4>6. SizeAt(b, i) = plan[fd][m + 1] BY <4>2, <4>5 DEF SizeAt
      <4>7. i + 2 + plan[fd][m + 1] <= E - o BY <1>6, <4>3, <4>6
      <4> DEFINE s == plan[fd][m + 1]
                 next == off[m + 1]
      <4>8. s \in Nat /\ next = o + i + 2 + s /\ E < next /\ i + 2 + s <= E - o /\ i \in Nat
        BY <2>2, <4>1, <4>2, <4>7
      <4> HIDE DEF s, next
      <4>. QED BY <1>2, <4>8
    <3>. QED BY <3>1, <3>2
  <2>4. f[i].packs = <<>> /\ f[i].rest = Leftover(fd, SubSeq(b, i + 1, Len(b)))
    BY <2>2, <2>3 DEF CutAt
  <2>5. SubSeq(b, i + 1, Len(b)) = SubSeq(A, off[m] + 1, E)
    <3>1. Len(b) \in 0 .. E - o /\ i \in 0 .. Len(b) /\ o + Len(b) = E BY <1>2, <1>6, <2>2
    <3>2. SubSeq(SubSeq(A, o + 1, E), i + 1, Len(b)) = SubSeq(A, o + i + 1, o + Len(b))
      BY <1>1, <1>2, <3>1, PieceOfPiece
    <3>. QED BY <1>6a, <2>2, <3>1, <3>2
  <2>6. SubSeq(W, m + 1, m) = <<>>
    <3>1. m \in Int /\ m + 1 \in Int /\ m < m + 1 BY <2>1
    <3>. QED BY <3>1, SubSeqEmpty
  <2>. QED BY <2>4, <2>5, <2>6 DEF i
(* In front of it, one comes off after the other.                           *)
<1>10. ASSUME NEW j \in k .. m - 1, Right(j + 1) PROVE Right(j)
  <2> DEFINE i == off[j] - o
             s == plan[fd][j + 1]
             next == off[j + 1] - o
  <2>1. j \in k .. m /\ j + 1 \in k .. m /\ j \in 0 .. n - 1 /\ j + 1 \in 1 .. n /\ j \in Nat
        /\ m \in Nat
    BY <1>1, <1>2
  <2>2. /\ i \in 0 .. Len(b) /\ off[j] \in Nat /\ f[i] = CutAt(f, i, fd, b) /\ off[j] = o + i
    BY <1>2, <1>8, <2>1
  <2>3. /\ next \in 0 .. Len(b) /\ off[j + 1] \in Nat /\ off[j + 1] = o + next
    BY <1>2, <1>8, <2>1
  <2>4. /\ off[j + 1] = off[j] + 2 + s /\ s \in Nat
        /\ A[off[j] + 1] * Base + A[off[j] + 2] = s
        /\ SubSeq(A, off[j] + 3, off[j + 1]) = Contents(fd, j + 1)
    BY <1>1, <2>1
  <2>5. f[next].packs = SubSeq(W, j + 2, m) /\ f[next].rest = rest
    <3>1. j + 1 + 1 = j + 2 BY <2>1
    <3>. QED BY <1>10, <3>1
  <2> HIDE DEF i, s, next
  <2>6. next = i + 2 + s BY <1>2, <2>2, <2>3, <2>4
  <2>7. i + 1 \in 1 .. E - o /\ i + 2 \in 1 .. E - o BY <1>2, <1>6, <2>2, <2>3, <2>4, <2>6
  <2>8. SizeAt(b, i) = s
    <3>1. o + (i + 1) = off[j] + 1 /\ o + (i + 2) = off[j] + 2 BY <1>2, <2>2
    <3>2. b[i + 1] = A[off[j] + 1] /\ b[i + 2] = A[off[j] + 2] BY <1>6, <2>7, <3>1
    <3>. QED BY <2>4, <3>2 DEF SizeAt
  <2>9. CompleteAt(b, i)
    <3>1. i + 2 + s <= Len(b) /\ i + 2 <= Len(b) BY <1>2, <1>6, <2>2, <2>3, <2>4, <2>6
    <3>. QED BY <2>8, <3>1 DEF CompleteAt
  <2>10. /\ f[i].packs = <<SubSeq(b, i + 3, next)>> \o f[next].packs
         /\ f[i].rest = f[next].rest
    <3>1. f[i] = CutAt(f, i, fd, b) BY <2>2
    <3>2. CutAt(f, i, fd, b) = [packs |-> <<SubSeq(b, i + 3, i + 2 + SizeAt(b, i))>>
                                          \o f[i + 2 + SizeAt(b, i)].packs,
                                rest |-> f[i + 2 + SizeAt(b, i)].rest]
      BY <2>9 DEF CutAt
    <3>3. i + 2 + SizeAt(b, i) = next BY <2>6, <2>8
    <3> DEFINE z == i + 2 + SizeAt(b, i)
               p == <<SubSeq(b, i + 3, z)>> \o f[z].packs
               t == f[z].rest
    <3>4. f[i] = [packs |-> p, rest |-> t] BY <3>1, <3>2
    <3>5. z = next BY <3>3
    <3> HIDE DEF p, t
    <3>6. f[i].packs = p /\ f[i].rest = t BY <3>4
    <3> HIDE DEF z
    <3>. QED BY <3>5, <3>6 DEF p, t
  <2>11. SubSeq(b, i + 3, next) = W[j + 1]
    <3>1. next \in 0 .. E - o /\ i + 2 \in 0 .. next /\ i + 2 + 1 = i + 3
      BY <1>2, <1>6, <2>2, <2>3, <2>4, <2>6
    <3>2. SubSeq(SubSeq(A, o + 1, E), i + 2 + 1, next) = SubSeq(A, o + (i + 2) + 1, o + next)
      BY <1>1, <1>2, <3>1, PieceOfPiece
    <3>3. o + (i + 2) + 1 = off[j] + 3 BY <1>2, <2>2
    <3>4. W[j + 1] = Contents(fd, j + 1) BY <1>3, <2>1
    <3>. QED BY <1>6a, <2>3, <2>4, <3>1, <3>2, <3>3, <3>4
  <2>12. <<W[j + 1]>> \o SubSeq(W, j + 2, m) = SubSeq(W, j + 1, m)
    <3> DEFINE u == j + 1
    <3>1. u \in 1 .. Len(W) /\ m \in u .. Len(W) /\ u + 1 = j + 2 /\ W \in Seq(Seq(Nat))
      BY <1>1, <1>3, <2>1
    <3> HIDE DEF u
    <3>2. SubSeq(W, u, m) = <<W[u]>> \o SubSeq(W, u + 1, m)
      BY ONLY <3>1, SubSeqRecursiveFirst
    <3>. QED BY <3>1, <3>2 DEF u
  <2>13. f[i].packs = SubSeq(W, j + 1, m) /\ f[i].rest = rest
    BY <2>5, <2>10, <2>11, <2>12
  <2>. QED BY <2>13 DEF i
<1>11. Right(k)
  <2> DEFINE Fails == {x \in Nat : x <= m - k /\ ~Right(m - x)}
  <2> HIDE DEF Right
  <2>1. ASSUME Fails # {} PROVE FALSE
    <3>1. PICK x \in Fails : \A y \in Fails : x <= y BY <2>1, LeastNumber
    <3>2. x \in Nat /\ x <= m - k /\ ~Right(m - x) /\ m \in Nat /\ k \in Nat BY <1>1, <1>2
    <3>3. x # 0
      <4>1. m - 0 = m BY <3>2
      <4>. QED BY <1>9, <3>2, <4>1
    <3>4. /\ x - 1 \in Nat /\ x - 1 < x /\ x - 1 <= m - k /\ m - (x - 1) = m - x + 1
          /\ m - x \in k .. m - 1
      BY <3>2, <3>3
    <3>5. Right(m - x + 1)
      <4>1. x - 1 \notin Fails
        <5>1. \A y \in Fails : y \in Nat OBVIOUS
        <5> HIDE DEF Fails
        <5>. QED BY <3>1, <3>4, <5>1
      <4>2. Right(m - (x - 1)) BY <3>4, <4>1
      <4>. QED BY <3>4, <4>2
    <3>6. Right(m - x) BY <1>10, <3>4, <3>5
    <3>. QED BY <3>2, <3>6
  <2>2. m - k \in Nat /\ m - k <= m - k /\ m - (m - k) = k BY <1>1, <1>2
  <2>3. m - k \notin Fails BY <2>1
  <2>4. Right(m - (m - k)) BY <2>2, <2>3
  <2>. QED BY <2>2, <2>4
<1>12. off[k] - o = 0 BY <1>2 DEF o
<1>13. PushMore(fd, b).packs = SubSeq(W, k + 1, m) /\ PushMore(fd, b).rest = rest
  BY <1>7, <1>11, <1>12
<1>14. PushMore(fd, SubSeq(A, off[k] + 1, E)) = PushMore(fd, b) BY <1>6a DEF o
<1>. QED BY <1>4, <1>13, <1>14 DEF CutUpTo, n, W

(* What is kept of the bytes behind o.                                      *)
LEMMA LeftoverOf ==
  ASSUME NEW fd, NEW A \in Seq(Nat), NEW E \in 0 .. Len(A), NEW o \in 0 .. E
  PROVE  /\ E = o => Leftover(fd, SubSeq(A, o + 1, E)) = <<>>
         /\ E = o + 1 => Leftover(fd, SubSeq(A, o + 1, E))
                           = <<Uncomplete(fd, -1, A[o + 1], 0, <<>>)>>
         /\ E > o + 1 => Leftover(fd, SubSeq(A, o + 1, E))
                           = <<Uncomplete(fd, E - o - 2, 0, A[o + 1] * Base + A[o + 2],
                                          SubSeq(A, o + 3, E))>>
<1> DEFINE h == SubSeq(A, o + 1, E)
<1>1. h \in Seq(Nat) /\ Len(h) = E - o /\ \A i \in 1 .. E - o : h[i] = A[o + i]
  BY PieceIs
<1>2. o \in Nat /\ E \in Nat /\ Len(A) \in Nat /\ o <= E OBVIOUS
<1>3. E > o + 1 => SubSeq(h, 3, Len(h)) = SubSeq(A, o + 3, E)
  <2> SUFFICES ASSUME E > o + 1 PROVE SubSeq(h, 3, Len(h)) = SubSeq(A, o + 3, E) OBVIOUS
  <2>1. /\ Len(h) \in 0 .. E - o /\ 2 \in 0 .. Len(h) /\ o + 2 + 1 = o + 3 /\ 2 + 1 = 3
        /\ o + Len(h) = E
    BY <1>1, <1>2
  <2>2. SubSeq(SubSeq(A, o + 1, E), 2 + 1, Len(h)) = SubSeq(A, o + 2 + 1, o + Len(h))
    BY <2>1, PieceOfPiece
  <2>. QED BY <2>1, <2>2
<1> HIDE DEF h
<1>4. E = o => h = <<>> BY <1>1, <1>2
<1>5. E = o + 1 => h # <<>> /\ Len(h) = 1 /\ h[1] = A[o + 1]
  <2> SUFFICES ASSUME E = o + 1 PROVE h # <<>> /\ Len(h) = 1 /\ h[1] = A[o + 1] OBVIOUS
  <2>1. E - o = 1 /\ 1 \in 1 .. E - o BY <1>2
  <2>2. Len(h) = 1 /\ h[1] = A[o + 1] BY <1>1, <2>1
  <2>3. h # <<>> BY <2>2
  <2>. QED BY <2>2, <2>3
<1>6. E > o + 1 => h # <<>> /\ Len(h) # 1 /\ Len(h) - 2 = E - o - 2
                   /\ h[0 + 1] = A[o + 1] /\ h[0 + 2] = A[o + 2]
  BY <1>1, <1>2
<1>7. E = o => Leftover(fd, h) = <<>> BY <1>4 DEF Leftover
<1>8. E = o + 1 => Leftover(fd, h) = <<Uncomplete(fd, -1, A[o + 1], 0, <<>>)>>
  BY <1>5 DEF Leftover
<1>9. E > o + 1 => Leftover(fd, h) = <<Uncomplete(fd, E - o - 2, 0, A[o + 1] * Base + A[o + 2],
                                                  SubSeq(A, o + 3, E))>>
  <2> SUFFICES ASSUME E > o + 1
               PROVE  Leftover(fd, h) = <<Uncomplete(fd, E - o - 2, 0, A[o + 1] * Base + A[o + 2],
                                                     SubSeq(A, o + 3, E))>>
    OBVIOUS
  <2>1. SizeAt(h, 0) = A[o + 1] * Base + A[o + 2] BY <1>6 DEF SizeAt
  <2>2. Leftover(fd, h) = <<Uncomplete(fd, Len(h) - 2, 0, SizeAt(h, 0), SubSeq(h, 3, Len(h)))>>
    BY <1>6 DEF Leftover
  <2>3. Len(h) - 2 = E - o - 2 /\ SubSeq(h, 3, Len(h)) = SubSeq(A, o + 3, E) BY <1>3, <1>6
  <2>. QED BY <2>1, <2>2, <2>3
<1>. QED BY <1>7, <1>8, <1>9 DEF h

(* filter_data_ with an uncomplete package of this size, that holds data,    *)
(* when the bytes c of its contents come.                                   *)
Carry(fd, size, data, c) ==
  IF Len(c) < size - Len(data)
  THEN [packs |-> <<>>,
        rest |-> <<Uncomplete(fd, Len(data) + Len(c), 0, size, data \o c)>>]
  ELSE [PushMore(fd, SubSeq(c, size - Len(data) + 1, Len(c))) EXCEPT
          !.packs = <<data \o SubSeq(c, 1, size - Len(data))>> \o @]

LEMMA ContinueIs ==
  ASSUME NEW uc, NEW b
  PROVE  /\ uc.read < 0 =>
              Continue(uc, b) = Carry(uc.id, LateSize(uc, b), uc.data, Tail(b))
         /\ ~(uc.read < 0) => Continue(uc, b) = Carry(uc.id, uc.size, uc.data, b)
  BY DEF Continue, Carry

(* push_more tells packages and a rest.                                     *)
LEMMA PushMoreFields ==
  ASSUME NEW fd, NEW b \in Seq(Nat), NEW p
  PROVE  /\ [PushMore(fd, b) EXCEPT !.packs = p \o @].packs = p \o PushMore(fd, b).packs
         /\ [PushMore(fd, b) EXCEPT !.packs = p \o @].rest = PushMore(fd, b).rest
<1>1. PICK f : PushMore(fd, b) = f[0] /\ \A i \in 0 .. Len(b) : f[i] = CutAt(f, i, fd, b)
  BY PushMoreIs
<1>2. 0 \in 0 .. Len(b) OBVIOUS
<1>3. PushMore(fd, b) = CutAt(f, 0, fd, b) BY <1>1, <1>2
<1>4. \E x, y : PushMore(fd, b) = [packs |-> x, rest |-> y] BY <1>3 DEF CutAt
<1>. QED BY <1>4

(* The rest of a package that has begun, up to the byte q, goes on the same. *)
LEMMA CarryCuts ==
  ASSUME plan \in Plans, NEW fd \in Fds, NEW A, NEW off, Whole(fd, A, off),
         NEW k \in 0 .. Len(plan[fd]) - 1, NEW E \in 0 .. Len(A),
         NEW q \in off[k] + 2 .. off[k + 1], q <= E
  PROVE  CutUpTo(fd, A, off, k, E,
           Carry(fd, plan[fd][k + 1], SubSeq(A, off[k] + 3, q), SubSeq(A, q + 1, E)))
<1> DEFINE n == Len(plan[fd])
           o == off[k]
           e == off[k + 1]
           s == plan[fd][k + 1]
           W == Sent(fd)
           data == SubSeq(A, o + 3, q)
           c == SubSeq(A, q + 1, E)
           r == Carry(fd, s, data, c)
<1>1. /\ n \in Nat /\ Len(A) \in Nat /\ A \in Seq(Nat) /\ k \in 0 .. n /\ k + 1 \in 0 .. n
      /\ k \in Nat
      /\ o \in Nat /\ e \in Nat /\ e <= Len(A) /\ s \in Nat /\ e = o + 2 + s
      /\ A[o + 1] * Base + A[o + 2] = s
      /\ SubSeq(A, o + 3, e) = Contents(fd, k + 1)
  <2> HIDE DEF n, W, o, e, s, data, c, r
  <2>1. /\ A \in Seq(Nat) /\ Len(A) \in Nat /\ n \in Nat
        /\ \A x \in 0 .. n : off[x] \in 0 .. Len(A)
    BY WholeIs DEF n
  <2>2. k \in 0 .. n - 1 /\ k \in 0 .. n /\ k + 1 \in 0 .. n BY <2>1 DEF n
  <2>3. /\ k + 1 \in 0 .. Len(plan[fd]) /\ plan[fd][k + 1] \in Nat
        /\ off[k + 1] = off[k] + 2 + plan[fd][k + 1]
        /\ A[off[k] + 1] * Base + A[off[k] + 2] = plan[fd][k + 1]
        /\ SubSeq(A, off[k] + 3, off[k + 1]) = Contents(fd, k + 1)
    BY ONLY plan \in Plans, fd \in Fds, Whole(fd, A, off), k \in 0 .. Len(plan[fd]) - 1,
            PackageAt
  <2>4. /\ plan[fd][k + 1] \in Nat /\ e = o + 2 + s
        /\ A[o + 1] * Base + A[o + 2] = s
        /\ SubSeq(A, o + 3, e) = Contents(fd, k + 1)
    BY <2>3 DEF o, e, s
  <2>5. o \in Nat /\ e \in Nat /\ e <= Len(A) BY <2>1, <2>2 DEF o, e
  <2>6. s \in Nat /\ k \in Nat BY <2>4 DEF s
  <2>. QED BY <2>1, <2>2, <2>4, <2>5, <2>6
<1>2. W \in Seq(Seq(Nat)) /\ Len(W) = n /\ \A i \in 1 .. n : W[i] = Contents(fd, i)
  BY SentIs
<1>3. q \in o + 2 .. e /\ q \in Nat /\ E \in Nat /\ q <= E BY <1>1
<1>4. /\ data \in Seq(Nat) /\ Len(data) = q - o - 2
  <2>1. q \in 0 .. Len(A) /\ o + 2 \in 0 .. q /\ o + 2 + 1 = o + 3 /\ q - (o + 2) = q - o - 2
    <3> HIDE DEF o, e, s, n, data, c, W
    <3>. QED BY <1>1, <1>3
  <2>2. SubSeq(A, o + 2 + 1, q) \in Seq(Nat) /\ Len(SubSeq(A, o + 2 + 1, q)) = q - (o + 2)
    <3> DEFINE a == o + 2
    <3>1. A \in Seq(Nat) /\ q \in 0 .. Len(A) /\ a \in 0 .. q BY <1>1, <2>1
    <3> HIDE DEF a
    <3>2. SubSeq(A, a + 1, q) \in Seq(Nat) /\ Len(SubSeq(A, a + 1, q)) = q - a
      BY ONLY <3>1, PieceIs
    <3>. QED BY <3>2 DEF a
  <2>. QED BY <2>1, <2>2
<1>5. c \in Seq(Nat) /\ Len(c) = E - q
  <2>1. q \in 0 .. E BY <1>3
  <2>2. A \in Seq(Nat) /\ E \in 0 .. Len(A) BY <1>1
  <2>. QED BY ONLY <2>1, <2>2, PieceIs DEF c
<1>6. c = SubSeq(A, q + 1, E) /\ data = SubSeq(A, o + 3, q) OBVIOUS
<1> HIDE DEF n, o, e, s, W, data, c
<1>7. s - Len(data) = e - q BY <1>1, <1>3, <1>4
(* It is not complete yet.                                                  *)
<1>8. CASE E < e
  <2>1. Len(c) < s - Len(data) BY <1>1, <1>3, <1>5, <1>7, <1>8
  <2>2. r = [packs |-> <<>>, rest |-> <<Uncomplete(fd, Len(data) + Len(c), 0, s, data \o c)>>]
    BY <2>1 DEF Carry
  <2>3. data \o c = SubSeq(A, o + 3, E)
    <3>2. SubSeq(A, o + 3, q) \o SubSeq(A, q + 1, E) = SubSeq(A, o + 3, E)
      <4> DEFINE x == o + 3
      <4>1. A \in Seq(Nat) /\ E \in q .. Len(A) BY <1>1, <1>3
      <4>2. x \in 1 .. Len(A) + 1 /\ q \in x - 1 .. Len(A)
        <5>1. x - 1 <= q /\ x \in Nat /\ 1 <= x /\ x <= Len(A) + 1 /\ q <= Len(A)
          <6>1. /\ o \in Nat /\ e \in Nat /\ q \in Nat /\ Len(A) \in Nat
                /\ o + 2 <= q /\ q <= e /\ e <= Len(A)
            BY <1>1, <1>3
          <6> DEFINE l == Len(A)
          <6> HIDE DEF l
          <6>. QED BY ONLY <6>1 DEF l
        <5> HIDE DEF x
        <5>. QED BY <1>1, <1>3, <5>1
      <4> HIDE DEF x
      <4>3. SubSeq(A, x, q) \o SubSeq(A, q + 1, E) = SubSeq(A, x, E)
        BY ONLY <4>1, <4>2, ConcatAdjacentSubSeq
      <4>. QED BY <4>3 DEF x
    <3>. QED BY <1>6, <3>2
  <2>4. Len(data) + Len(c) = E - o - 2 BY <1>1, <1>3, <1>4, <1>5
  <2>5. Leftover(fd, SubSeq(A, o + 1, E)) = <<Uncomplete(fd, E - o - 2, 0, s, SubSeq(A, o + 3, E))>>
    <3>1. o \in 0 .. E /\ E > o + 1 BY <1>1, <1>3
    <3>. QED BY <1>1, <3>1, LeftoverOf
  <2>6. r.rest = Leftover(fd, SubSeq(A, o + 1, E))
    <3>1. r.rest = <<Uncomplete(fd, Len(data) + Len(c), 0, s, data \o c)>> BY <2>2
    <3>. QED BY <2>3, <2>4, <2>5, <3>1
  <2>7. r.packs = SubSeq(W, k + 1, k)
    <3>1. k \in Int /\ k + 1 \in Int /\ k < k + 1 BY <1>1
    <3>2. SubSeq(W, k + 1, k) = <<>> BY <3>1, SubSeqEmpty
    <3>3. r.packs = <<>> BY <2>2
    <3>. QED BY <3>2, <3>3
  <2>8. k \in k .. n /\ o <= E BY <1>1, <1>3
  <2> HIDE DEF r
  <2>9. CutUpTo(fd, A, off, k, E, r)
    BY <1>8, <2>6, <2>7, <2>8 DEF CutUpTo, n, o, e, W
  <2>. QED BY <2>9 DEF r, s, data, c, o
(* It is complete, and more may come behind it.                             *)
<1>9. CASE ~(E < e)
  <2>1. ~(Len(c) < s - Len(data)) /\ E \in e .. Len(A) /\ e - q \in 0 .. E - q
    BY <1>1, <1>3, <1>5, <1>7, <1>9
  <2> DEFINE d == SubSeq(c, s - Len(data) + 1, Len(c))
             p == data \o SubSeq(c, 1, s - Len(data))
  <2>2. r = [PushMore(fd, d) EXCEPT !.packs = <<p>> \o @] BY <2>1 DEF Carry
  <2>3. d = SubSeq(A, e + 1, E)
    <3>1. /\ q \in 0 .. E /\ E - q \in 0 .. E - q /\ e - q \in 0 .. E - q
          /\ q + (e - q) + 1 = e + 1 /\ q + (E - q) = E
      BY <1>1, <1>3, <2>1
    <3>2. SubSeq(SubSeq(A, q + 1, E), e - q + 1, E - q) = SubSeq(A, q + (e - q) + 1, q + (E - q))
      BY <1>1, <3>1, PieceOfPiece
    <3>. QED BY <1>5, <1>6, <1>7, <3>1, <3>2
  <2>4. p = W[k + 1]
    <3>1. SubSeq(c, 1, e - q) = SubSeq(A, q + 1, e)
      <4>1. /\ q \in 0 .. E /\ e - q \in 0 .. E - q /\ 0 \in 0 .. e - q
            /\ q + 0 + 1 = q + 1 /\ q + (e - q) = e /\ 0 + 1 = 1
        BY <1>1, <1>3, <2>1
      <4>2. SubSeq(SubSeq(A, q + 1, E), 0 + 1, e - q) = SubSeq(A, q + 0 + 1, q + (e - q))
        BY <1>1, <4>1, PieceOfPiece
      <4>. QED BY <1>6, <4>1, <4>2
    <3>2. SubSeq(A, o + 3, q) \o SubSeq(A, q + 1, e) = SubSeq(A, o + 3, e)
      <4> DEFINE x == o + 3
      <4>2. A \in Seq(Nat) BY <1>1
      <4>3. x \in 1 .. Len(A) + 1 /\ q \in x - 1 .. Len(A)
        <5>1. x - 1 <= q /\ x \in Nat /\ 1 <= x /\ x <= Len(A) + 1 /\ q <= Len(A)
          <6>1. /\ o \in Nat /\ e \in Nat /\ q \in Nat /\ Len(A) \in Nat
                /\ o + 2 <= q /\ q <= e /\ e <= Len(A)
            BY <1>1, <1>3
          <6> DEFINE l == Len(A)
          <6> HIDE DEF l
          <6>. QED BY ONLY <6>1 DEF l
        <5> HIDE DEF x
        <5>. QED BY <1>1, <1>3, <5>1
      <4>1. e \in q .. Len(A) BY <1>1, <1>3
      <4> HIDE DEF x
      <4>4. SubSeq(A, x, q) \o SubSeq(A, q + 1, e) = SubSeq(A, x, e)
        BY ONLY <4>1, <4>2, <4>3, ConcatAdjacentSubSeq
      <4>. QED BY <4>4 DEF x
    <3>3. W[k + 1] = Contents(fd, k + 1)
      <4>1. k + 1 \in 1 .. n BY <1>1
      <4>. QED BY <1>2, <4>1
    <3>. QED BY <1>1, <1>6, <1>7, <3>1, <3>2, <3>3
  <2>5. CutUpTo(fd, A, off, k + 1, E, PushMore(fd, SubSeq(A, off[k + 1] + 1, E)))
    <3>1. k + 1 \in 0 .. Len(plan[fd]) /\ E \in off[k + 1] .. Len(A) BY <1>1, <2>1 DEF n, e
    <3>. QED BY <3>1, PushMoreCuts
  <2> HIDE DEF d, p
  <2>6. CutUpTo(fd, A, off, k + 1, E, PushMore(fd, d)) BY <2>3, <2>5 DEF e
  <2>7. PICK m \in k + 1 .. n :
          /\ off[m] <= E /\ (m = n \/ E < off[m + 1])
          /\ PushMore(fd, d).packs = SubSeq(W, k + 1 + 1, m)
          /\ PushMore(fd, d).rest = Leftover(fd, SubSeq(A, off[m] + 1, E))
    BY <2>6 DEF CutUpTo, n, W
  <2>8. d \in Seq(Nat)
    <3>1. E \in 0 .. Len(A) /\ e \in 0 .. E BY <1>1, <2>1
    <3>. QED BY <1>1, <2>3, <3>1, PieceIs
  <2>9. r.packs = <<p>> \o PushMore(fd, d).packs /\ r.rest = PushMore(fd, d).rest
    BY <2>2, <2>8, PushMoreFields
  <2>10. <<W[k + 1]>> \o SubSeq(W, k + 1 + 1, m) = SubSeq(W, k + 1, m)
    <3> DEFINE u == k + 1
    <3>1. u \in 1 .. Len(W) /\ m \in u .. Len(W) /\ W \in Seq(Seq(Nat))
      BY <1>1, <1>2
    <3> HIDE DEF u
    <3>2. SubSeq(W, u, m) = <<W[u]>> \o SubSeq(W, u + 1, m)
      BY ONLY <3>1, SubSeqRecursiveFirst
    <3>. QED BY <3>2 DEF u
  <2> HIDE DEF r
  <2>11. r.packs = SubSeq(W, k + 1, m) /\ r.rest = Leftover(fd, SubSeq(A, off[m] + 1, E))
    BY <2>4, <2>7, <2>9, <2>10
  <2>12. m \in k .. n BY <1>1
  <2>13. CutUpTo(fd, A, off, k, E, r) BY <2>7, <2>11, <2>12 DEF CutUpTo, n, W
  <2>. QED BY <2>13 DEF r, s, data, c, o
<1>. QED BY <1>8, <1>9

(* filter_data_ with the leftover of a package that has begun.              *)
LEMMA ContinueCuts ==
  ASSUME plan \in Plans, NEW fd \in Fds, NEW A, NEW off, Whole(fd, A, off),
         NEW k \in 0 .. Len(plan[fd]) - 1, NEW E \in 0 .. Len(A),
         NEW pos \in off[k] + 1 .. off[k + 1] - 1, pos < E,
         NEW uc, Leftover(fd, SubSeq(A, off[k] + 1, pos)) = <<uc>>
  PROVE  CutUpTo(fd, A, off, k, E, Continue(uc, SubSeq(A, pos + 1, E)))
<1> DEFINE o == off[k]
           e == off[k + 1]
           s == plan[fd][k + 1]
           b == SubSeq(A, pos + 1, E)
<1>1. /\ A \in Seq(Nat) /\ Len(A) \in Nat /\ o \in Nat /\ e \in Nat /\ e <= Len(A)
      /\ s \in Nat /\ e = o + 2 + s /\ A[o + 1] * Base + A[o + 2] = s
  <2> DEFINE n == Len(plan[fd])
  <2> HIDE DEF n, o, e, s, b
  <2>1. /\ A \in Seq(Nat) /\ Len(A) \in Nat /\ n \in Nat
        /\ \A x \in 0 .. n : off[x] \in 0 .. Len(A)
    BY WholeIs DEF n
  <2>2. k \in 0 .. n /\ k + 1 \in 0 .. n BY <2>1 DEF n
  <2>3. /\ k + 1 \in 0 .. Len(plan[fd]) /\ plan[fd][k + 1] \in Nat
        /\ off[k + 1] = off[k] + 2 + plan[fd][k + 1]
        /\ A[off[k] + 1] * Base + A[off[k] + 2] = plan[fd][k + 1]
        /\ SubSeq(A, off[k] + 3, off[k + 1]) = Contents(fd, k + 1)
    BY ONLY plan \in Plans, fd \in Fds, Whole(fd, A, off), k \in 0 .. Len(plan[fd]) - 1,
            PackageAt
  <2>4. s \in Nat /\ e = o + 2 + s /\ A[o + 1] * Base + A[o + 2] = s
    BY <2>3 DEF o, e, s
  <2>5. o \in Nat /\ e \in Nat /\ e <= Len(A) BY <2>1, <2>2 DEF o, e
  <2>. QED BY <2>1, <2>4, <2>5
<1>2. pos \in o + 1 .. e - 1 /\ pos \in Nat /\ E \in Nat /\ pos < E /\ E <= Len(A)
  BY SMTT(30), <1>1
<1>3. \A q \in o + 2 .. e : q <= E =>
        CutUpTo(fd, A, off, k, E, Carry(fd, s, SubSeq(A, o + 3, q), SubSeq(A, q + 1, E)))
  BY CarryCuts
<1>4. Leftover(fd, SubSeq(A, o + 1, pos)) = <<uc>> OBVIOUS
<1>5. b = SubSeq(A, pos + 1, E) OBVIOUS
<1>6. b \in Seq(Nat) /\ Len(b) = E - pos /\ \A i \in 1 .. E - pos : b[i] = A[pos + i]
  <2>1. pos \in 0 .. E BY <1>2
  <2>2. A \in Seq(Nat) /\ E \in 0 .. Len(A) BY <1>1
  <2>. QED BY ONLY <2>1, <2>2, PieceIs DEF b
<1> HIDE DEF o, e, s, b
<1>7. pos \in 0 .. Len(A) /\ o \in 0 .. pos BY <1>1, <1>2
(* Only the first byte of its size was here.                                *)
<1>8. CASE pos = o + 1
  <2>1. uc = Uncomplete(fd, -1, A[o + 1], 0, <<>>)
    <3>1. Leftover(fd, SubSeq(A, o + 1, pos)) = <<Uncomplete(fd, -1, A[o + 1], 0, <<>>)>>
      BY <1>1, <1>7, <1>8, LeftoverOf
    <3>. QED BY <1>4, <3>1
  <2>2. /\ uc.id = fd /\ uc.read < 0 /\ uc.header = A[o + 1] /\ uc.data = <<>>
    BY <2>1 DEF Uncomplete
  <2>3. b[1] = A[o + 2]
    <3>1. 1 \in 1 .. E - pos /\ pos + 1 = o + 2 BY <1>1, <1>2, <1>8
    <3>. QED BY <1>6, <3>1
  <2>4. LateSize(uc, b) = s BY <1>1, <2>2, <2>3 DEF LateSize
  <2>5. Tail(b) = SubSeq(A, o + 2 + 1, E)
    <3>1. b # <<>> BY <1>2, <1>6
    <3>2. Tail(b) = SubSeq(b, 2, Len(b)) BY <1>6, <3>1, TailIsSubSeq
    <3>3. /\ E - pos \in 0 .. E - pos /\ 1 \in 0 .. E - pos /\ pos \in 0 .. E
          /\ pos + 1 + 1 = o + 2 + 1 /\ pos + (E - pos) = E /\ 1 + 1 = 2
      BY <1>1, <1>2, <1>8
    <3>4. SubSeq(SubSeq(A, pos + 1, E), 1 + 1, E - pos) = SubSeq(A, pos + 1 + 1, pos + (E - pos))
      BY <1>1, <3>3, PieceOfPiece
    <3>. QED BY <1>5, <1>6, <3>2, <3>3, <3>4
  <2>6. SubSeq(A, o + 3, o + 2) = <<>>
    <3>1. o + 3 \in Int /\ o + 2 \in Int /\ o + 2 < o + 3 BY <1>1
    <3>. QED BY <3>1, SubSeqEmpty
  <2>7. Continue(uc, b) = Carry(fd, s, SubSeq(A, o + 3, o + 2), SubSeq(A, o + 2 + 1, E))
    <3>1. Continue(uc, b) = Carry(uc.id, LateSize(uc, b), uc.data, Tail(b))
      BY <2>2, ContinueIs
    <3>. QED BY <2>2, <2>4, <2>5, <2>6, <3>1
  <2>8. o + 2 \in o + 2 .. e /\ o + 2 <= E BY <1>1, <1>2, <1>8
  <2>9. CutUpTo(fd, A, off, k, E, Carry(fd, s, SubSeq(A, o + 3, o + 2), SubSeq(A, o + 2 + 1, E)))
    BY <1>3, <2>8
  <2>. QED BY <2>7, <2>9 DEF b
(* Its size was here, and some of its contents.                             *)
<1>9. CASE pos # o + 1
  <2>1. pos > o + 1 BY <1>1, <1>2, <1>9
  <2>2. uc = Uncomplete(fd, pos - o - 2, 0, s, SubSeq(A, o + 3, pos))
    <3>1. Leftover(fd, SubSeq(A, o + 1, pos))
            = <<Uncomplete(fd, pos - o - 2, 0, A[o + 1] * Base + A[o + 2], SubSeq(A, o + 3, pos))>>
      BY <1>1, <1>7, <2>1, LeftoverOf
    <3>. QED BY <1>1, <1>4, <3>1
  <2>3. uc.id = fd /\ uc.read = pos - o - 2 /\ uc.size = s /\ uc.data = SubSeq(A, o + 3, pos)
    BY <2>2 DEF Uncomplete
  <2>4. ~(uc.read < 0) BY <1>1, <1>2, <2>1, <2>3
  <2>5. Continue(uc, b) = Carry(fd, s, SubSeq(A, o + 3, pos), SubSeq(A, pos + 1, E))
    <3>1. Continue(uc, b) = Carry(uc.id, uc.size, uc.data, b) BY <2>4, ContinueIs
    <3>. QED BY <1>5, <2>3, <3>1
  <2>6. pos \in o + 2 .. e /\ pos <= E BY <1>1, <1>2, <2>1
  <2>7. CutUpTo(fd, A, off, k, E, Carry(fd, s, SubSeq(A, o + 3, pos), SubSeq(A, pos + 1, E)))
    BY <1>3, <2>6
  <2>. QED BY <2>5, <2>7 DEF b
<1>. QED BY <1>8, <1>9

(* The leftover of fd in a list is the one kept, if any.                    *)
KeptIn(list, fd, kept) ==
  \/ kept = <<>> /\ \A i \in DOMAIN list : list[i].id # fd
  \/ \E i \in DOMAIN list : kept = <<list[i]>>

(* Where the splitter stands in the bytes A of fd, n packages: k of them are  *)
(* behind it, the rest up to the byte pos is the leftover in its list.      *)
Standing(fd, n, list, A, off, k, pos) ==
  /\ k \in 0 .. n /\ off[k] <= pos /\ (k = n \/ pos < off[k + 1])
  /\ KeptIn(list, fd, Leftover(fd, SubSeq(A, off[k] + 1, pos)))

(* With the next bytes it stands behind the packages that they complete.    *)
LEMMA FilteredCuts ==
  ASSUME GateType, LeftoversOwned, NEW fd \in Fds, NEW A, NEW off, Whole(fd, A, off),
         NEW E \in 0 .. Len(A), NEW pos \in Nat, pos < E,
         NEW k, Standing(fd, Len(plan[fd]), hash[HashFd(fd)], A, off, k, pos)
  PROVE  CutUpTo(fd, A, off, k, E, Filtered(fd, SubSeq(A, pos + 1, E)))
<1> DEFINE o == off[k]
           n == Len(plan[fd])
           list == hash[HashFd(fd)]
           at == FindUncomplete(list, fd)
           b == SubSeq(A, pos + 1, E)
           kept == Leftover(fd, SubSeq(A, o + 1, pos))
<1>1. /\ plan \in Plans /\ k \in 0 .. n /\ o <= pos /\ (k = n \/ pos < off[k + 1])
      /\ \/ kept = <<>> /\ \A i \in DOMAIN list : list[i].id # fd
         \/ \E i \in DOMAIN list : kept = <<list[i]>>
  BY DEF Standing, KeptIn, GateType
<1>2. ListSound(list, HashFd(fd))
  <2>1. HashFd(fd) \in 0 .. HashSize - 1 BY <1>1, FdsFinite
  <2>. QED BY <2>1, ListsAreSound
<1>3. \/ at = 0 /\ \A i \in DOMAIN list : list[i].id # fd
      \/ at \in DOMAIN list /\ list[at].id = fd
  BY <1>2, FoundIsOwn
<1>4. /\ A \in Seq(Nat) /\ Len(A) \in Nat /\ n \in Nat /\ o \in Nat /\ off[n] = Len(A)
  BY <1>1, WholeIs
<1>5. Filtered(fd, b) = IF at = 0 THEN PushMore(fd, b) ELSE Continue(list[at], b)
  BY DEF Filtered
<1>6. pos \in 0 .. Len(A) /\ o \in 0 .. pos /\ pos < Len(A) BY <1>1, <1>4
<1>7. /\ pos = o => kept = <<>>
      /\ pos = o + 1 => \E uc : kept = <<uc>> /\ uc.id = fd
      /\ pos > o + 1 => \E uc : kept = <<uc>> /\ uc.id = fd
  <2>0. A \in Seq(Nat) BY <1>4
  <2> HIDE DEF o
  <2>1. pos = o => kept = <<>> BY <1>6, <2>0, LeftoverOf
  <2>2. pos = o + 1 => kept = <<Uncomplete(fd, -1, A[o + 1], 0, <<>>)>>
    BY <1>6, <2>0, LeftoverOf
  <2>3. pos > o + 1 => kept = <<Uncomplete(fd, pos - o - 2, 0, A[o + 1] * Base + A[o + 2],
                                           SubSeq(A, o + 3, pos))>>
    BY <1>6, <2>0, LeftoverOf
  <2> HIDE DEF kept
  <2>. QED BY <2>1, <2>2, <2>3 DEF Uncomplete
<1> HIDE DEF list, at, n, kept
<1>8. CASE pos = o
  <2>1. kept = <<>> BY <1>7, <1>8
  <2>2. at = 0 BY <1>1, <1>3, <2>1
  <2>3. Filtered(fd, b) = PushMore(fd, SubSeq(A, off[k] + 1, E)) BY <1>5, <1>8, <2>2
  <2>4. k \in 0 .. Len(plan[fd]) /\ E \in off[k] .. Len(A) BY <1>1, <1>4, <1>8 DEF n
  <2>. QED BY <1>1, <2>3, <2>4, PushMoreCuts
<1>9. CASE pos # o
  <2>1. PICK uc : kept = <<uc>> /\ uc.id = fd
    <3>1. pos = o + 1 \/ pos > o + 1
      <4> HIDE DEF o
      <4>1. o \in 0 .. pos /\ pos \in Nat /\ pos # o BY <1>6, <1>9
      <4>. QED BY ONLY <4>1
    <3>. QED BY <1>7, <3>1
  <2>2. PICK i \in DOMAIN list : kept = <<list[i]>> BY <1>1, <2>1
  <2>3. list[i] = uc BY <2>1, <2>2
  <2>4. at \in DOMAIN list /\ list[at].id = fd BY <1>3, <2>1, <2>3
  <2>5. at = i BY <1>2, <2>1, <2>3, <2>4 DEF ListSound
  <2>6. at # 0
    <3>1. list \in Seq(Range(list)) BY <1>2 DEF ListSound
    <3>. QED BY <2>4, <3>1
  <2>7. Filtered(fd, b) = Continue(uc, b) BY <1>5, <2>3, <2>5, <2>6
  <2>8. k # n BY <1>1, <1>4, <1>6
  <2>9. k \in 0 .. Len(plan[fd]) - 1 /\ off[k + 1] \in Nat
    <3>1. k \in 0 .. n - 1 /\ k + 1 \in 0 .. n BY <1>1, <1>4, <2>8
    <3>2. off[k + 1] \in 0 .. Len(A) BY <1>1, <3>1, WholeIs DEF n
    <3>. QED BY <1>4, <3>1, <3>2 DEF n
  <2>10. pos \in off[k] + 1 .. off[k + 1] - 1 BY SMTT(30), <1>1, <1>4, <1>9, <2>8, <2>9
  <2>11. Leftover(fd, SubSeq(A, off[k] + 1, pos)) = <<uc>> BY <2>1 DEF kept
  <2>12. CutUpTo(fd, A, off, k, E, Continue(uc, SubSeq(A, pos + 1, E)))
    BY <1>1, <2>9, <2>10, <2>11, ContinueCuts
  <2>. QED BY <2>7, <2>12
<1>. QED BY <1>8, <1>9

(* A ring of packages: head and tail lie in it.                             *)
RingOk(r, S) ==
  /\ r = [cap |-> r.cap, head |-> r.head, tail |-> r.tail, q |-> r.q]
  /\ r.cap \in Nat \ {0} /\ r.head \in 0 .. r.cap - 1 /\ r.tail \in 0 .. r.cap - 1
  /\ r.q \in [0 .. r.cap - 1 -> S]

(* How many packages wait in it, and the place of the i-th.                 *)
Filled(r) == IF r.head <= r.tail THEN r.tail - r.head ELSE r.tail + r.cap - r.head
PlaceIn(r, i) == IF r.head + i - 1 < r.cap THEN r.head + i - 1 ELSE r.head + i - 1 - r.cap

LEMMA AroundOnce ==
  ASSUME NEW cap_ \in Nat \ {0}, NEW x \in 0 .. 2 * cap_ - 1
  PROVE  x % cap_ = IF x < cap_ THEN x ELSE x - cap_
  OBVIOUS

LEMMA PoppedIs ==
  ASSUME NEW S, NEW r, RingOk(r, S)
  PROVE  /\ Filled(r) \in 0 .. r.cap - 1
         /\ Popped(r) \in Seq(S) /\ Len(Popped(r)) = Filled(r)
         /\ \A i \in 1 .. Filled(r) : Popped(r)[i] = r.q[PlaceIn(r, i)]
         /\ \A i \in 1 .. Filled(r) + 1 : PlaceIn(r, i) \in 0 .. r.cap - 1
         /\ \A i \in 1 .. Filled(r) : PlaceIn(r, i) # r.tail
         /\ PlaceIn(r, Filled(r) + 1) = r.tail
<1> DEFINE c == r.cap
           h == r.head
           t == r.tail
           q == r.q
           n == Filled(r)
           at(i) == PlaceIn(r, i)
<1>1. c \in Nat \ {0} /\ h \in 0 .. c - 1 /\ t \in 0 .. c - 1 /\ q \in [0 .. c - 1 -> S]
  BY DEF RingOk
<1>2. n = (IF h <= t THEN t - h ELSE t + c - h)
      /\ \A i : at(i) = IF h + i - 1 < c THEN h + i - 1 ELSE h + i - 1 - c
  BY DEF Filled, PlaceIn
<1>3. Popped(r) = [i \in 1 .. n |-> q[(h + i - 1) % c]] BY DEF Popped, Filled
<1> HIDE DEF c, h, t, q, n, at
<1>4. n \in 0 .. c - 1 BY <1>1, <1>2
<1>5. /\ \A i \in 1 .. n + 1 : at(i) \in 0 .. c - 1
      /\ \A i \in 1 .. n : at(i) # t
      /\ at(n + 1) = t
  <2>1. CASE h <= t BY <1>1, <1>2, <1>4, <2>1
  <2>2. CASE ~(h <= t)
    <3>1. \A i \in 1 .. n + 1 : at(i) \in 0 .. c - 1 BY <1>1, <1>2, <1>4, <2>2
    <3>2. \A i \in 1 .. n : at(i) # t BY <1>1, <1>2, <1>4, <2>2
    <3>3. at(n + 1) = t BY <1>1, <1>2, <1>4, <2>2
    <3>. QED BY <3>1, <3>2, <3>3
  <2>. QED BY <2>1, <2>2
<1>6. \A i \in 1 .. n : (h + i - 1) % c = at(i)
  <2> SUFFICES ASSUME NEW i \in 1 .. n PROVE (h + i - 1) % c = at(i) OBVIOUS
  <2>1. h + i - 1 \in 0 .. 2 * c - 1 BY <1>1, <1>4
  <2>2. (h + i - 1) % c = IF h + i - 1 < c THEN h + i - 1 ELSE h + i - 1 - c
    <3>1. \A x \in 0 .. 2 * c - 1 : x % c = IF x < c THEN x ELSE x - c
      BY ONLY <1>1, AroundOnce
    <3>2. h \in Int /\ i \in Int /\ c \in Nat \ {0} BY <1>1
    <3>. QED BY ONLY <2>1, <3>1, <3>2
  <2>. QED BY <1>2, <2>2
<1>7. \A i \in 1 .. n : q[at(i)] \in S BY <1>1, <1>4, <1>5
<1>8. Popped(r) = [i \in 1 .. n |-> q[at(i)]] BY <1>3, <1>6
<1>9. [i \in 1 .. n |-> q[at(i)]] \in Seq(S) /\ Len([i \in 1 .. n |-> q[at(i)]]) = n
  BY <1>1, <1>4, <1>7
<1>10. \A i \in 1 .. n : Popped(r)[i] = q[at(i)] BY <1>8
<1>. QED BY <1>4, <1>5, <1>8, <1>9, <1>10 DEF c, h, t, q, n, at

(* The ring with one package more in its array.                             *)
RingPut(r, p, u) == [r EXCEPT !.q[r.tail] = p, !.tail = u]

LEMMA RingWith ==
  ASSUME NEW c, NEW h, NEW t, NEW q, NEW p, NEW u, NEW r,
         r = [cap |-> c, head |-> h, tail |-> t, q |-> q]
  PROVE  RingPut(r, p, u)
           = [cap |-> c, head |-> h, tail |-> u, q |-> [q EXCEPT ![t] = p]]
<1> DEFINE w == [q EXCEPT ![t] = p]
           y == [r EXCEPT !.q[r.tail] = p]
<1>1. r.q = q /\ r.tail = t OBVIOUS
<1>2. y = [cap |-> c, head |-> h, tail |-> t, q |-> w] BY SMT, <1>1
<1>3. [r EXCEPT !.q[r.tail] = p, !.tail = u] = [y EXCEPT !.tail = u] OBVIOUS
<1> HIDE DEF w, y
<1>4. [y EXCEPT !.tail = u] = [cap |-> c, head |-> h, tail |-> u, q |-> w] BY <1>2
<1>. QED BY <1>3, <1>4 DEF w, RingPut

(* expand_queue, by the parts of the ring.                                  *)
Moved(c, h, q) ==
  [i \in 0 .. c + NetQueueSize - 1 |-> IF i < c THEN q[(h + i) % c] ELSE <<>>]
Wider(c, h, q) == [cap |-> c + NetQueueSize, head |-> 0, tail |-> c, q |-> Moved(c, h, q)]

LEMMA MovedIs ==
  ASSUME NEW c, NEW h, NEW q
  PROVE  /\ Moved(c, h, q) = [i \in 0 .. c + NetQueueSize - 1 |-> Moved(c, h, q)[i]]
         /\ \A i \in 0 .. c + NetQueueSize - 1 :
              Moved(c, h, q)[i] = IF i < c THEN q[(h + i) % c] ELSE <<>>
  BY Zenon DEF Moved

(* Pushing appends, also when the ring is full and grows.                   *)
LEMMA PushDataAppends ==
  ASSUME NEW S, <<>> \in S, NEW r, RingOk(r, S), NEW p \in S
  PROVE  /\ RingOk(PushData(r, p), S)
         /\ Len(Popped(PushData(r, p))) = Len(Popped(r)) + 1
         /\ \A i \in 1 .. Len(Popped(r)) : Popped(PushData(r, p))[i] = Popped(r)[i]
         /\ Popped(PushData(r, p))[Len(Popped(r)) + 1] = p
<1> DEFINE c == r.cap
           h == r.head
           t == r.tail
           q == r.q
           n == Filled(r)
           at(i) == PlaceIn(r, i)
           u == IF t + 1 >= c THEN t + 1 - c ELSE t + 1
           w == [q EXCEPT ![t] = p]
           s == [cap |-> c, head |-> h, tail |-> u, q |-> w]
           z == PushData(r, p)
<1>1. c \in Nat \ {0} /\ h \in 0 .. c - 1 /\ t \in 0 .. c - 1 /\ q \in [0 .. c - 1 -> S]
      /\ r = [cap |-> c, head |-> h, tail |-> t, q |-> q]
  BY DEF RingOk
<1>2. n = (IF h <= t THEN t - h ELSE t + c - h)
      /\ \A i : at(i) = IF h + i - 1 < c THEN h + i - 1 ELSE h + i - 1 - c
  BY DEF Filled, PlaceIn
<1>3. z = IF h = u THEN ExpandRing(s) ELSE s
  <2> DEFINE y == RingPut(r, p, u)
  <2>1. y = s
    <3> HIDE DEF u, y
    <3>1. RingPut(r, p, u) = [cap |-> c, head |-> h, tail |-> u, q |-> [q EXCEPT ![t] = p]]
      BY <1>1, RingWith
    <3>. QED BY <3>1 DEF y
  <2>2. z = IF y.head = y.tail THEN ExpandRing(y) ELSE y BY DEF PushData, RingPut, c, t, u
  <2> HIDE DEF y
  <2>. QED BY <2>1, <2>2
<1>4. /\ n \in 0 .. c - 1 /\ Popped(r) \in Seq(S) /\ Len(Popped(r)) = n
      /\ \A i \in 1 .. n : Popped(r)[i] = q[at(i)]
      /\ \A i \in 1 .. n + 1 : at(i) \in 0 .. c - 1
      /\ \A i \in 1 .. n : at(i) # t
      /\ at(n + 1) = t
  BY PoppedIs
<1> HIDE DEF c, h, t, q, n, at, z
<1>5. u \in 0 .. c - 1 /\ w \in [0 .. c - 1 -> S] BY <1>1
<1>6. \A i \in 1 .. n : w[at(i)] = Popped(r)[i] BY <1>1, <1>4
<1>7. w[at(n + 1)] = p BY <1>1, <1>4
<1>8. CASE h # u
  <2>1. z = s BY <1>3, <1>8
  <2>2. RingOk(s, S) BY <1>1, <1>5 DEF RingOk
  <2>3. Filled(s) = n + 1 BY <1>1, <1>2, <1>8 DEF Filled
  <2>4. \A i : PlaceIn(s, i) = at(i) BY <1>2 DEF PlaceIn
  <2>5. s.q = w OBVIOUS
  <2> HIDE DEF s, w, u
  <2>6. Len(Popped(s)) = n + 1 /\ \A i \in 1 .. n + 1 : Popped(s)[i] = w[at(i)]
    BY <2>2, <2>3, <2>4, <2>5, PoppedIs
  <2>7. (\A i \in 1 .. n : Popped(s)[i] = Popped(r)[i]) /\ Popped(s)[n + 1] = p
    BY <1>4, <1>6, <1>7, <2>6
  <2>. QED BY <1>4, <2>1, <2>2, <2>6, <2>7 DEF z
<1>9. CASE h = u
  <2> DEFINE v == Moved(c, h, w)
             x == Wider(c, h, w)
  <2>1. z = x
    <3>1. z = ExpandRing(s) BY <1>3, <1>9
    <3>2. s.cap = c /\ s.head = h /\ s.q = w OBVIOUS
    <3> HIDE DEF s, w, x
    <3>3. ExpandRing(s) = Wider(s.cap, s.head, s.q) BY DEF ExpandRing, Wider, Moved
    <3>4. z = Wider(c, h, w) BY <3>1, <3>2, <3>3
    <3>. QED BY <3>4 DEF x
  <2>2. NetQueueSize \in Nat \ {0} BY GateAssumption DEF GateAssumption
  <2>3. n = c - 1 BY <1>1, <1>2, <1>9
  <2>4. \A i \in 0 .. c - 1 : v[i] = w[at(i + 1)]
    <3> SUFFICES ASSUME NEW i \in 0 .. c - 1 PROVE v[i] = w[at(i + 1)] OBVIOUS
    <3>1. h + i \in 0 .. 2 * c - 1 /\ i \in 0 .. c + NetQueueSize - 1 /\ h + (i + 1) - 1 = h + i
      BY <1>1, <2>2
    <3>2. (h + i) % c = IF h + i < c THEN h + i ELSE h + i - c
      <4>1. \A y \in 0 .. 2 * c - 1 : y % c = IF y < c THEN y ELSE y - c
        BY ONLY <1>1, AroundOnce
      <4>2. h \in Int /\ i \in Int /\ c \in Nat \ {0} BY <1>1
      <4>. QED BY ONLY <3>1, <4>1, <4>2
    <3>3. at(i + 1) = (h + i) % c BY <1>2, <3>1, <3>2
    <3>4. v[i] = w[(h + i) % c]
      <4> HIDE DEF w
      <4>1. \A j \in 0 .. c + NetQueueSize - 1 :
              Moved(c, h, w)[j] = IF j < c THEN w[(h + j) % c] ELSE <<>>
        BY MovedIs
      <4>2. i \in 0 .. c + NetQueueSize - 1 /\ i < c BY <1>1, <2>2
      <4>. QED BY <4>1, <4>2
    <3>. QED BY <3>3, <3>4
  <2>5. v \in [0 .. c + NetQueueSize - 1 -> S]
    <3>1. \A i \in 0 .. c - 1 : v[i] \in S
      <4> SUFFICES ASSUME NEW i \in 0 .. c - 1 PROVE v[i] \in S OBVIOUS
      <4>1. i + 1 \in 1 .. n + 1 BY <1>1, <2>3
      <4>2. at(i + 1) \in 0 .. c - 1 BY <1>4, <4>1
      <4> HIDE DEF v, w
      <4>. QED BY <1>5, <2>4, <4>2
    <3>0. /\ \A i \in 0 .. c + NetQueueSize - 1 : ~(i < c) => v[i] = <<>>
          /\ v = [i \in 0 .. c + NetQueueSize - 1 |-> v[i]]
      <4> HIDE DEF w
      <4>1. v = [i \in 0 .. c + NetQueueSize - 1 |-> v[i]] BY MovedIs
      <4>2. \A i \in 0 .. c + NetQueueSize - 1 : v[i] = IF i < c THEN w[(h + i) % c] ELSE <<>> BY MovedIs
      <4> HIDE DEF v
      <4>3. ASSUME NEW i \in 0 .. c + NetQueueSize - 1, ~(i < c) PROVE v[i] = <<>>
        <5>1. i \in 0 .. c + NetQueueSize - 1 BY <2>2
        <5>. QED BY <4>2, <4>3, <5>1
      <4>4. v = [i \in 0 .. c + NetQueueSize - 1 |-> v[i]] BY <4>1
      <4>. QED BY <4>3, <4>4
    <3>2. \A i \in 0 .. c + NetQueueSize - 1 : v[i] \in S
      <4> SUFFICES ASSUME NEW i \in 0 .. c + NetQueueSize - 1 PROVE v[i] \in S OBVIOUS
      <4>1. CASE i < c
        <5>1. i \in 0 .. c - 1 BY <1>1, <2>2, <4>1
        <5>. QED BY <3>1, <5>1
      <4>2. CASE ~(i < c) BY <3>0, <4>2
      <4>. QED BY <4>1, <4>2
    <3> HIDE DEF v
    <3>. QED BY <3>0, <3>2
  <2>6. /\ x.cap = c + NetQueueSize /\ x.head = 0 /\ x.tail = c /\ x.q = v
        /\ x = [cap |-> x.cap, head |-> x.head, tail |-> x.tail, q |-> x.q]
    <3> HIDE DEF w
    <3>1. x.cap = c + NetQueueSize BY DEF Wider
    <3>2. x.head = 0 BY DEF Wider
    <3>3. x.tail = c BY DEF Wider
    <3>4. x.q = v BY DEF Wider
    <3>5. x = [cap |-> x.cap, head |-> x.head, tail |-> x.tail, q |-> x.q] BY DEF Wider
    <3> HIDE DEF x, v
    <3>. QED BY <3>1, <3>2, <3>3, <3>4, <3>5
  <2> HIDE DEF v, w
  <2>7. c + NetQueueSize \in Nat \ {0} /\ c < c + NetQueueSize /\ 0 \in 0 .. c + NetQueueSize - 1 /\ c \in 0 .. c + NetQueueSize - 1
    BY <1>1, <2>2
  <2>8. RingOk(x, S) BY SMTT(30), <2>5, <2>6, <2>7 DEF RingOk
  <2>9. Filled(x) = n + 1 BY <1>1, <2>3, <2>6 DEF Filled
  <2>10. \A i \in 1 .. n + 1 : PlaceIn(x, i) = i - 1
    BY <1>1, <2>3, <2>6, <2>7 DEF PlaceIn
  <2>11. \A i \in 1 .. n + 1 : v[i - 1] = w[at(i)]
    <3> SUFFICES ASSUME NEW i \in 1 .. n + 1 PROVE v[i - 1] = w[at(i)] OBVIOUS
    <3>1. i - 1 \in 0 .. c - 1 /\ i - 1 + 1 = i BY <1>1, <2>3
    <3>. QED BY <2>4, <3>1
  <2> HIDE DEF x
  <2>12. Len(Popped(x)) = n + 1 /\ \A i \in 1 .. n + 1 : Popped(x)[i] = v[i - 1]
    BY <2>6, <2>8, <2>9, <2>10, PoppedIs
  <2>13. n + 1 \in 1 .. n + 1 /\ \A i \in 1 .. n : i \in 1 .. n + 1 BY <1>4
  <2>14. (\A i \in 1 .. n : Popped(x)[i] = Popped(r)[i]) /\ Popped(x)[n + 1] = p
    BY <1>6, <1>7, <2>11, <2>12, <2>13
  <2>. QED BY <1>4, <2>1, <2>8, <2>12, <2>14 DEF z
<1>. QED BY <1>8, <1>9

(* The packages pushed, one after the other.                                *)
Pushes(f, last, r, packs) ==
  f = [k \in 0 .. last |-> IF k = 0 THEN r ELSE PushData(f[k - 1], packs[k])]

LEMMA PushesExist ==
  ASSUME NEW r, NEW packs, NEW last \in Nat
  PROVE  \E f : Pushes(f, last, r, packs)
<1> DEFINE Fails == {k \in Nat : ~\E f : Pushes(f, k, r, packs)}
<1> SUFFICES ASSUME Fails # {} PROVE FALSE OBVIOUS
<1>1. PICK k \in Fails : \A j \in Fails : k <= j BY LeastNumber
<1>2. k \in Nat /\ ~\E f : Pushes(f, k, r, packs) OBVIOUS
<1>3. CASE k = 0
  <2> DEFINE f == [j \in 0 .. 0 |-> r]
  <2>1. \A j \in 0 .. 0 : j = 0 OBVIOUS
  <2>2. f = [j \in 0 .. 0 |-> IF j = 0 THEN r ELSE PushData(f[j - 1], packs[j])] BY <2>1
  <2>. QED BY <1>2, <1>3, <2>2 DEF Pushes
<1>4. CASE k # 0
  <2>1. k - 1 \in Nat /\ k - 1 \notin Fails BY <1>1, <1>2, <1>4
  <2>2. PICK f : Pushes(f, k - 1, r, packs) BY <2>1
  <2>3. \A j \in 0 .. k - 1 : f[j] = IF j = 0 THEN r ELSE PushData(f[j - 1], packs[j])
    BY <2>2 DEF Pushes
  <2> DEFINE h == [j \in 0 .. k |-> IF j = k THEN PushData(f[k - 1], packs[k]) ELSE f[j]]
  <2>4. \A j \in 0 .. k - 1 : h[j] = f[j] BY <1>2
  <2>5. h[k] = PushData(h[k - 1], packs[k]) BY <1>2, <1>4, <2>4
  <2>7. ASSUME NEW j \in 0 .. k
        PROVE  h[j] = IF j = 0 THEN r ELSE PushData(h[j - 1], packs[j])
    <3>1. CASE j = k BY <1>4, <2>5, <3>1
    <3>2. CASE j = 0 BY <1>2, <1>4, <2>3, <2>4, <3>2
    <3>3. CASE j # 0 /\ j # k
      <4>1. j \in 0 .. k - 1 /\ j - 1 \in 0 .. k - 1 BY <1>2, <3>3
      <4>. QED BY <2>3, <2>4, <3>3, <4>1
    <3>. QED BY <3>1, <3>2, <3>3
  <2>8. h = [j \in 0 .. k |-> h[j]] OBVIOUS
  <2> HIDE DEF h
  <2>9. Pushes(h, k, r, packs) BY <2>7, <2>8 DEF Pushes
  <2>. QED BY <1>2, <2>9
<1>. QED BY <1>3, <1>4

LEMMA PushAllIs ==
  ASSUME NEW r, NEW packs, Len(packs) \in Nat
  PROVE  \E f : /\ f[0] = r
                /\ \A k \in 1 .. Len(packs) : f[k] = PushData(f[k - 1], packs[k])
                /\ PushAll(r, packs) = f[Len(packs)]
<1> DEFINE P(f) == f = [k \in 0 .. Len(packs) |->
                          IF k = 0 THEN r ELSE PushData(f[k - 1], packs[k])]
<1>1. \A f : P(f) <=> Pushes(f, Len(packs), r, packs) BY DEF Pushes
<1>2. PushAll(r, packs) = (CHOOSE f : P(f))[Len(packs)] BY DEF PushAll
<1> HIDE DEF P
<1>3. \E f : P(f) BY <1>1, PushesExist
<1>4. P(CHOOSE f : P(f)) BY <1>3
<1>5. PICK f : f = CHOOSE g : P(g) OBVIOUS
<1>6. Pushes(f, Len(packs), r, packs) BY <1>1, <1>4, <1>5
<1>7. \A k \in 0 .. Len(packs) : f[k] = IF k = 0 THEN r ELSE PushData(f[k - 1], packs[k])
  BY <1>6 DEF Pushes
<1>8. f[0] = r BY <1>7
<1>9. \A k \in 1 .. Len(packs) : k \in 0 .. Len(packs) /\ k # 0 OBVIOUS
<1>. QED BY <1>2, <1>5, <1>7, <1>8, <1>9

(* What is pushed into an empty queue is what is popped.                    *)
LEMMA PushAllPops ==
  ASSUME NEW S, <<>> \in S, NEW r, RingOk(r, S), r.head = r.tail, NEW packs \in Seq(S)
  PROVE  RingOk(PushAll(r, packs), S) /\ Popped(PushAll(r, packs)) = packs
<1>0. Len(packs) \in Nat /\ \A k \in 1 .. Len(packs) : packs[k] \in S OBVIOUS
<1>1. PICK f : /\ f[0] = r
               /\ \A k \in 1 .. Len(packs) : f[k] = PushData(f[k - 1], packs[k])
               /\ PushAll(r, packs) = f[Len(packs)]
  BY <1>0, PushAllIs
<1> DEFINE Holds(k) == /\ RingOk(f[k], S) /\ Len(Popped(f[k])) = k
                       /\ \A i \in 1 .. k : Popped(f[k])[i] = packs[i]
           Fails == {k \in Nat : k <= Len(packs) /\ ~Holds(k)}
<1>2. Holds(0)
  <2>1. r.cap \in Nat /\ r.head \in Nat BY DEF RingOk
  <2>2. Filled(r) = 0 BY <2>1 DEF Filled
  <2>3. Len(Popped(r)) = 0 BY <2>2, PoppedIs
  <2>. QED BY <1>1, <2>3
<1>3. ASSUME NEW k \in Nat, k + 1 <= Len(packs), Holds(k) PROVE Holds(k + 1)
  <2>1. k + 1 \in 1 .. Len(packs) /\ k + 1 - 1 = k BY <1>0, <1>3
  <2>2. f[k + 1] = PushData(f[k], packs[k + 1]) /\ packs[k + 1] \in S BY <1>0, <1>1, <2>1
  <2>3. RingOk(f[k], S) /\ Len(Popped(f[k])) = k
        /\ \A i \in 1 .. k : Popped(f[k])[i] = packs[i]
    BY <1>3
  <2> DEFINE g == f[k]
             p == packs[k + 1]
             z == PushData(g, p)
  <2> HIDE DEF Holds
  <2>4. RingOk(g, S) /\ p \in S /\ f[k + 1] = z BY <2>2, <2>3
  <2> HIDE DEF g, p
  <2>5. /\ RingOk(z, S) /\ Len(Popped(z)) = Len(Popped(g)) + 1
        /\ \A i \in 1 .. Len(Popped(g)) : Popped(z)[i] = Popped(g)[i]
        /\ Popped(z)[Len(Popped(g)) + 1] = p
    BY <2>4, PushDataAppends
  <2>6. Len(Popped(g)) = k /\ \A i \in 1 .. k : Popped(g)[i] = packs[i] BY <2>3 DEF g
  <2> HIDE DEF z
  <2>7. ASSUME NEW i \in 1 .. k + 1 PROVE Popped(z)[i] = packs[i]
    <3>1. CASE i = k + 1 BY <2>5, <2>6, <3>1 DEF p
    <3>2. CASE i # k + 1
      <4>1. i \in 1 .. k BY <3>2
      <4>. QED BY <2>5, <2>6, <4>1
    <3>. QED BY <3>1, <3>2
  <2>8. Len(Popped(z)) = k + 1 BY <2>5, <2>6
  <2>. QED BY <2>4, <2>5, <2>7, <2>8 DEF Holds
<1> HIDE DEF Holds
<1>4. ASSUME Fails # {} PROVE FALSE
  <2>1. PICK k \in Fails : \A j \in Fails : k <= j BY <1>4, LeastNumber
  <2>2. k \in Nat /\ k <= Len(packs) /\ ~Holds(k) OBVIOUS
  <2>3. k # 0 BY <1>2, <2>2
  <2>4. k - 1 \in Nat /\ k - 1 < k /\ k - 1 <= Len(packs) /\ k - 1 + 1 = k /\ k - 1 + 1 <= Len(packs)
    BY <1>0, <2>2, <2>3
  <2>5. k - 1 \notin Fails
    <3>1. \A j \in Fails : j \in Nat OBVIOUS
    <3> HIDE DEF Fails
    <3>. QED BY <2>1, <2>4, <3>1
  <2>6. Holds(k - 1) BY <2>4, <2>5
  <2>7. Holds(k - 1 + 1) BY <1>3, <2>4, <2>6
  <2>. QED BY <2>2, <2>4, <2>7
<1>5. Holds(Len(packs))
  <2>1. Len(packs) <= Len(packs) BY <1>0
  <2>. QED BY <1>0, <1>4, <2>1
<1> DEFINE z == PushAll(r, packs)
<1>6. RingOk(z, S) /\ Len(Popped(z)) = Len(packs) /\ \A i \in 1 .. Len(packs) : Popped(z)[i] = packs[i]
  BY <1>1, <1>5 DEF Holds
<1>7. Popped(z) \in Seq(S) BY <1>6, PoppedIs
<1>8. packs \in Seq(S) OBVIOUS
<1> HIDE DEF z
<1>9. Popped(z) = packs BY ONLY <1>6, <1>7, <1>8, SameElements
<1>. QED BY <1>6, <1>9 DEF z
(* One connection: what is still to come of its bytes, what was handed over,  *)
(* and, while it is cut, where the splitter stands.                         *)
FdWhole(fd, cm, g, lk, cn, list) ==
  /\ cm = SubSeq(Stream(fd), Len(Stream(fd)) - Len(cm) + 1, Len(Stream(fd)))
  /\ Len(cm) \in 0 .. Len(Stream(fd))
  /\ IsPrefix(g, Sent(fd)) /\ g \in Seq(Seq(Nat))
  /\ lk \in {"none", "accepted"} => g = <<>> /\ Len(cm) = Len(Stream(fd))
  /\ lk = "started" =>
       \E off, k :
         /\ Whole(fd, Stream(fd), off)
         /\ Standing(fd, Len(plan[fd]), list, Stream(fd), off, k, Len(Stream(fd)) - Len(cm))
         /\ cn = "true" => g = SubSeq(Sent(fd), 1, k)

StreamsWhole ==
  /\ RingOk(netq, Seq(Nat)) /\ netq.head = netq.tail
  /\ DOMAIN coming = Fds /\ DOMAIN got = Fds
  /\ \A fd \in Fds :
       FdWhole(fd, coming[fd], got[fd], link[fd], connection[fd], hash[HashFd(fd)])

(* The plan of the peers stays.                                             *)
LEMMA PlanStays ==
  ASSUME plan' = plan, RingOk(netq', Seq(Nat)), netq'.head = netq'.tail,
         DOMAIN coming' = Fds, DOMAIN got' = Fds,
         \A fd \in Fds :
           FdWhole(fd, coming'[fd], got'[fd], link'[fd], connection'[fd], hash'[HashFd(fd)])
  PROVE  StreamsWhole'
<1>1. Fds' = Fds BY DEF Fds
<1>2. ASSUME NEW fd \in Fds
      PROVE  FdWhole(fd, coming[fd], got[fd], link[fd], connection[fd], hash[HashFd(fd)])'
  <2>1. Sent(fd)' = Sent(fd) /\ Stream(fd)' = Stream(fd) BY DEF Sent, Stream, Contents
  <2>2. \A A, off : Whole(fd, A, off)' <=> Whole(fd, A, off)
    BY DEF Whole, Laid, Contents
  <2>3. FdWhole(fd, coming'[fd], got'[fd], link'[fd], connection'[fd], hash'[HashFd(fd)])
    OBVIOUS
  <2>. QED BY <2>1, <2>2, <2>3 DEF FdWhole, Standing, HashFd
<1>3. RingOk(netq, Seq(Nat))' /\ (netq.head = netq.tail)' BY DEF RingOk
<1>4. (DOMAIN coming = Fds /\ DOMAIN got = Fds)' BY <1>1
<1>. QED BY <1>1, <1>2, <1>3, <1>4 DEF StreamsWhole

(* A leftover of fd is of fd.                                               *)
LEMMA LeftoverIds ==
  ASSUME NEW fd, NEW b
  PROVE  Leftover(fd, b) = <<>> \/ \E uc : Leftover(fd, b) = <<uc>> /\ uc.id = fd
  BY DEF Leftover, Uncomplete

(* Two lists with the same leftovers of x.                                  *)
SameOf(l1, l2, x) ==
  \A u : u.id = x => ((\E i \in DOMAIN l1 : l1[i] = u) <=> (\E i \in DOMAIN l2 : l2[i] = u))

LEMMA KeptStays ==
  ASSUME NEW l1, NEW l2, NEW x, SameOf(l1, l2, x), NEW b, KeptIn(l1, x, Leftover(x, b))
  PROVE  KeptIn(l2, x, Leftover(x, b))
<1> DEFINE kept == Leftover(x, b)
<1>1. kept = <<>> \/ \E uc : kept = <<uc>> /\ uc.id = x BY LeftoverIds
<1> HIDE DEF kept
<1>2. CASE kept = <<>> /\ \A i \in DOMAIN l1 : l1[i].id # x
  <2>1. \A i \in DOMAIN l2 : l2[i].id # x BY <1>2 DEF SameOf
  <2>. QED BY <1>2, <2>1 DEF KeptIn, kept
<1>3. ASSUME NEW i \in DOMAIN l1, kept = <<l1[i]>> PROVE KeptIn(l2, x, kept)
  <2>1. l1[i].id = x BY <1>1, <1>3
  <2>2. PICK j \in DOMAIN l2 : l2[j] = l1[i] BY <2>1 DEF SameOf
  <2>. QED BY <1>3, <2>2 DEF KeptIn
<1>. QED BY <1>2, <1>3 DEF KeptIn, kept

LEMMA FdStays ==
  ASSUME NEW x, NEW cm, NEW g, NEW lk, NEW cn, NEW c2, NEW l1, NEW l2,
         SameOf(l1, l2, x), FdWhole(x, cm, g, lk, cn, l1), c2 = "true" => cn = "true"
  PROVE  FdWhole(x, cm, g, lk, c2, l2)
<1> DEFINE A == Stream(x)
           pos == Len(A) - Len(cm)
           n == Len(plan[x])
<1>1. ASSUME lk = "started"
      PROVE  \E off, k : /\ Whole(x, A, off) /\ Standing(x, n, l2, A, off, k, pos)
                         /\ c2 = "true" => g = SubSeq(Sent(x), 1, k)
  <2>1. PICK off, k : /\ Whole(x, A, off) /\ Standing(x, n, l1, A, off, k, pos)
                      /\ cn = "true" => g = SubSeq(Sent(x), 1, k)
    BY <1>1 DEF FdWhole
  <2>2. Standing(x, n, l2, A, off, k, pos)
    <3> HIDE DEF A, n, pos
    <3>1. KeptIn(l1, x, Leftover(x, SubSeq(A, off[k] + 1, pos))) BY <2>1 DEF Standing
    <3>2. KeptIn(l2, x, Leftover(x, SubSeq(A, off[k] + 1, pos))) BY <3>1, KeptStays
    <3>. QED BY <2>1, <3>2 DEF Standing
  <2>. QED BY <2>1, <2>2
<1>. QED BY <1>1 DEF FdWhole

(* What find_uncomplete leaves of the others.                               *)
LEMMA TakenSame ==
  ASSUME GateType, LeftoversOwned, NEW fd \in Fds, NEW x \in Fds, x # fd
  PROVE  SameOf(hash[HashFd(x)], Taken(fd)[HashFd(x)], x)
<1> DEFINE g == HashFd(fd)
           list == hash[g]
           at == FindUncomplete(list, fd)
           r == RemoveAt(list, at)
<1>1. /\ g \in 0 .. HashSize - 1 /\ HashFd(x) \in 0 .. HashSize - 1
      /\ DOMAIN hash = 0 .. HashSize - 1
  BY FdsFinite DEF GateType
<1>2. ListSound(list, g) BY <1>1, ListsAreSound
<1>3. at = 0 \/ (at \in DOMAIN list /\ list[at].id = fd)
  BY <1>2, FoundIsOwn
<1>4. Taken(fd) = IF at = 0 THEN hash ELSE [hash EXCEPT ![g] = r] BY DEF Taken
<1> HIDE DEF g, list, at, r
<1>5. CASE at = 0 \/ HashFd(x) # g
  <2>1. Taken(fd)[HashFd(x)] = hash[HashFd(x)] BY <1>1, <1>4, <1>5
  <2>. QED BY <2>1 DEF SameOf
<1>6. CASE at # 0 /\ HashFd(x) = g
  <2>1. Taken(fd)[HashFd(x)] = r /\ hash[HashFd(x)] = list BY <1>1, <1>4, <1>6 DEF list
  <2>2. at \in DOMAIN list /\ list[at].id = fd BY <1>3, <1>6
  <2>3. list \in Seq(Range(list)) /\ DOMAIN list = 1 .. Len(list) /\ Len(list) \in Nat
    BY <1>2 DEF ListSound
  <2>4. /\ r \in Seq(Range(list)) /\ Len(r) = Len(list) - 1
        /\ \A j \in 1 .. Len(list) - 1 : r[j] = IF j < at THEN list[j] ELSE list[j + 1]
    <3> HIDE DEF list
    <3>. QED BY <2>2, <2>3, RemoveAtElements DEF r
  <2>5. DOMAIN r = 1 .. Len(list) - 1 BY <2>4
  <2>6. ASSUME NEW u, u.id = x, NEW i \in DOMAIN list, list[i] = u
        PROVE  \E j \in DOMAIN r : r[j] = u
    <3>1. i # at BY <2>2, <2>6
    <3>2. CASE i < at
      <4>1. i \in 1 .. Len(list) - 1 BY <2>2, <2>3, <3>2
      <4>. QED BY <2>4, <2>5, <2>6, <3>2, <4>1
    <3>3. CASE ~(i < at)
      <4>1. i - 1 \in 1 .. Len(list) - 1 /\ ~(i - 1 < at) /\ i - 1 + 1 = i
        BY <2>2, <2>3, <3>1, <3>3
      <4>. QED BY <2>4, <2>5, <2>6, <4>1
    <3>. QED BY <3>2, <3>3
  <2>7. ASSUME NEW u, u.id = x, NEW j \in DOMAIN r, r[j] = u
        PROVE  \E i \in DOMAIN list : list[i] = u
    <3>1. j \in 1 .. Len(list) - 1 /\ j \in DOMAIN list /\ j + 1 \in DOMAIN list
      BY <2>3, <2>5
    <3>2. r[j] = list[j] \/ r[j] = list[j + 1] BY <2>4, <3>1
    <3>. QED BY <2>7, <3>1, <3>2
  <2>8. SameOf(list, r, x) BY <2>6, <2>7 DEF SameOf
  <2>. QED BY <2>1, <2>8
<1>. QED BY <1>5, <1>6

(* A leftover in front of a list.                                           *)
LEMMA ConsElementsOf ==
  ASSUME NEW list, list \in Seq(Range(list)), NEW uc
  PROVE  /\ 1 \in DOMAIN (<<uc>> \o list) /\ (<<uc>> \o list)[1] = uc
         /\ \A x : x # uc.id => SameOf(list, <<uc>> \o list, x)
<1> DEFINE S == Range(list) \cup {uc}
           r == <<uc>> \o list
<1>2. list \in Seq(S) /\ <<uc>> \in Seq(S) /\ Len(<<uc>>) = 1 /\ <<uc>>[1] = uc
  OBVIOUS
<1> HIDE DEF S
<1>3. /\ r \in Seq(S) /\ Len(r) = 1 + Len(list) /\ Len(list) \in Nat
      /\ DOMAIN list = 1 .. Len(list)
      /\ \A j \in 1 .. 1 + Len(list) : r[j] = IF j <= 1 THEN <<uc>>[j] ELSE list[j - 1]
  BY <1>2, ConcatElements
<1> HIDE DEF r
<1>4. /\ DOMAIN r = 1 .. Len(list) + 1 /\ r[1] = uc
      /\ \A j \in 2 .. Len(list) + 1 : j - 1 \in DOMAIN list /\ r[j] = list[j - 1]
  BY <1>2, <1>3
<1>5. 1 \in DOMAIN r BY <1>3, <1>4
<1>6. ASSUME NEW x, x # uc.id PROVE SameOf(list, r, x)
  <2>1. ASSUME NEW u, u.id = x, NEW i \in DOMAIN list, list[i] = u
        PROVE  \E j \in DOMAIN r : r[j] = u
    <3>1. i + 1 \in 2 .. Len(list) + 1 /\ i + 1 \in DOMAIN r /\ i + 1 - 1 = i BY <1>3, <1>4
    <3>. QED BY <1>4, <2>1, <3>1
  <2>2. ASSUME NEW u, u.id = x, NEW j \in DOMAIN r, r[j] = u
        PROVE  \E i \in DOMAIN list : list[i] = u
    <3>1. j # 1 BY <1>4, <1>6, <2>2
    <3>2. j \in 2 .. Len(list) + 1 BY <1>3, <1>4, <3>1
    <3>. QED BY <1>4, <2>2, <3>2
  <2>. QED BY <2>1, <2>2 DEF SameOf
<1>. QED BY <1>4, <1>5, <1>6 DEF r

(* A list is the same as itself, and what holds of two of three of the third. *)
LEMMA SameOfIs ==
  /\ \A l, x : SameOf(l, l, x)
  /\ \A l1, l2, l3, x : SameOf(l1, l2, x) /\ SameOf(l2, l3, x) => SameOf(l1, l3, x)
  BY DEF SameOf

(* The first k elements are a prefix.                                       *)
LEMMA FirstOnes ==
  ASSUME NEW S, NEW s \in Seq(S), NEW k \in 0 .. Len(s)
  PROVE  /\ SubSeq(s, 1, k) \in Seq(S) /\ Len(SubSeq(s, 1, k)) = k
         /\ IsPrefix(SubSeq(s, 1, k), s)
<1>1. SubSeq(s, 1, k) \in Seq(S) /\ Len(SubSeq(s, 1, k)) = k
  <2>1. 0 \in 0 .. k /\ 0 + 1 = 1 /\ k - 0 = k OBVIOUS
  <2>. QED BY <2>1, PieceIs
<1>2. SubSeq(SubSeq(s, 1, k), 1, k) = SubSeq(s, 1, k) BY <1>1, SubSeqFull
<1>3. k <= Len(s) OBVIOUS
<1>. QED BY <1>1, <1>2, <1>3 DEF IsPrefix

(* What a peer sends are bytes.                                             *)
LEMMA StreamIsBytes ==
  ASSUME plan \in Plans, NEW fd \in Fds
  PROVE  /\ Stream(fd) \in Seq(Nat) /\ Len(Stream(fd)) \in Nat
         /\ \E off : Whole(fd, Stream(fd), off)
<1>1. PICK off : Whole(fd, Stream(fd), off) BY StreamLaid DEF Whole
<1>. QED BY <1>1, WholeIs

(* Before a connection is cut all of it is still to come.                   *)
LEMMA NothingCut ==
  ASSUME plan \in Plans, NEW fd \in Fds, NEW lk, lk # "started", NEW cn, NEW list
  PROVE  FdWhole(fd, Stream(fd), <<>>, lk, cn, list)
<1> DEFINE A == Stream(fd)
<1>1. A \in Seq(Nat) /\ Len(A) \in Nat BY StreamIsBytes
<1> HIDE DEF A
<1>2. A = SubSeq(A, Len(A) - Len(A) + 1, Len(A))
  <2>1. Len(A) - Len(A) + 1 = 1 BY <1>1
  <2>2. SubSeq(A, 1, Len(A)) = A BY <1>1, SubSeqFull
  <2>. QED BY <2>1, <2>2
<1>3. Len(A) \in 0 .. Len(A) BY <1>1
<1>4. IsPrefix(<<>>, Sent(fd)) /\ <<>> \in Seq(Seq(Nat))
  <2> DEFINE T == Seq(Nat)
             W == Sent(fd)
  <2>1. W \in Seq(T) /\ <<>> \in Seq(T) BY SentIs
  <2> HIDE DEF T, W
  <2>2. Len(W) \in Nat /\ 0 \in 0 .. Len(W) BY <2>1
  <2>3. IsPrefix(SubSeq(W, 1, 0), W) /\ SubSeq(W, 1, 0) \in Seq(T) /\ Len(SubSeq(W, 1, 0)) = 0
    BY <2>1, <2>2, FirstOnes
  <2>4. SubSeq(W, 1, 0) = <<>> BY <2>3
  <2>. QED BY <2>1, <2>3, <2>4 DEF T, W
<1>. QED BY <1>2, <1>3, <1>4 DEF FdWhole, A

(* At the start the queue is empty.                                         *)
LEMMA EmptyRingOk ==
  RingOk(EmptyRing(NetQueueSize), Seq(Nat))
    /\ EmptyRing(NetQueueSize).head = EmptyRing(NetQueueSize).tail
<1> DEFINE n == NetQueueSize
           q == [i \in 0 .. n - 1 |-> <<>>]
           T == Seq(Nat)
<1>1. n \in Nat \ {0} BY GateAssumption DEF GateAssumption
<1>2. <<>> \in T OBVIOUS
<1> HIDE DEF T
<1>3. q \in [0 .. n - 1 -> T] BY <1>2
<1>4. EmptyRing(n) = [cap |-> n, head |-> 0, tail |-> 0, q |-> q] BY DEF EmptyRing
<1> HIDE DEF q
<1>5. RingOk(EmptyRing(n), T) BY <1>1, <1>3, <1>4 DEF RingOk
<1>. QED BY <1>4, <1>5 DEF T

LEMMA GateInitWhole == GateInit => StreamsWhole
<1> SUFFICES ASSUME GateInit PROVE StreamsWhole OBVIOUS
<1>1. RingOk(netq, Seq(Nat)) /\ netq.head = netq.tail BY EmptyRingOk DEF GateInit
<1>2. ASSUME NEW fd \in Fds
      PROVE  FdWhole(fd, coming[fd], got[fd], link[fd], connection[fd], hash[HashFd(fd)])
  <2>1. plan \in Plans /\ coming[fd] = Stream(fd) /\ got[fd] = <<>> /\ link[fd] # "started"
    BY DEF GateInit
  <2>. QED BY <2>1, NothingCut
<1>3. DOMAIN coming = Fds /\ DOMAIN got = Fds BY DEF GateInit
<1>. QED BY <1>1, <1>2, <1>3 DEF StreamsWhole

(* MSG.open, a refusal and the wish to close cut nothing.                   *)
LEMMA AcceptedWhole ==
  ASSUME GateInv, StreamsWhole, NEW fd \in Fds, Accepted(fd)
  PROVE  StreamsWhole'
<1>1. /\ plan' = plan /\ coming' = coming /\ hash' = hash /\ netq' = netq /\ got' = got
      /\ link[fd] = "none" /\ link' = [link EXCEPT ![fd] = "accepted"]
  BY DEF Accepted
<1>2. link \in [Fds -> {"none", "accepted", "started", "closed"}]
      /\ connection \in [Fds -> {"nil", "true", "false"}]
  BY DEF GateInv, GateType
<1>3. \A x \in Fds : x # fd => link'[x] = link[x] /\ connection'[x] = connection[x]
  BY <1>1, <1>2 DEF Accepted
<1>4. ASSUME NEW x \in Fds
      PROVE  FdWhole(x, coming'[x], got'[x], link'[x], connection'[x], hash'[HashFd(x)])
  <2>1. FdWhole(x, coming[x], got[x], link[x], connection[x], hash[HashFd(x)])
    BY DEF StreamsWhole
  <2>2. CASE x = fd
    <3>1. link'[x] = "accepted" /\ link[x] = "none" BY <1>1, <1>2, <2>2
    <3>. QED BY <1>1, <2>1, <3>1 DEF FdWhole
  <2>3. CASE x # fd BY <1>1, <1>3, <2>1, <2>3
  <2>. QED BY <2>2, <2>3
<1>. QED BY <1>1, <1>4, PlanStays DEF StreamsWhole

LEMMA CloseClientWhole ==
  ASSUME GateInv, StreamsWhole, NEW fd \in Fds, CloseClient(fd)
  PROVE  StreamsWhole'
<1>1. /\ plan' = plan /\ coming' = coming /\ hash' = hash /\ netq' = netq /\ got' = got
      /\ link' = link /\ connection' = [connection EXCEPT ![fd] = "false"]
  BY DEF CloseClient
<1>2. connection \in [Fds -> {"nil", "true", "false"}] BY DEF GateInv, GateType
<1>3. ASSUME NEW x \in Fds
      PROVE  FdWhole(x, coming'[x], got'[x], link'[x], connection'[x], hash'[HashFd(x)])
  <2>1. FdWhole(x, coming[x], got[x], link[x], connection[x], hash[HashFd(x)])
    BY DEF StreamsWhole
  <2>2. connection'[x] = "true" => connection[x] = "true" BY <1>1, <1>2
  <2>3. SameOf(hash[HashFd(x)], hash[HashFd(x)], x) BY SameOfIs
  <2>4. FdWhole(x, coming[x], got[x], link[x], connection'[x], hash[HashFd(x)])
    BY <2>1, <2>2, <2>3, FdStays
  <2>. QED BY <1>1, <2>4
<1>. QED BY <1>1, <1>3, PlanStays DEF StreamsWhole

(* The splitter starts at the first byte.                                   *)
LEMMA OpenClientWhole ==
  ASSUME GateInv, StreamsWhole, NEW fd \in Fds, OpenClient(fd)
  PROVE  StreamsWhole'
<1>0. GateType /\ LeftoversOwned /\ plan \in Plans BY DEF GateInv, ConnectionsSound, GateType
<1>1. /\ plan' = plan /\ coming' = coming /\ hash' = hash /\ netq' = netq /\ got' = got
      /\ connection' = connection
      /\ link[fd] = "accepted" /\ link' = [link EXCEPT ![fd] = "started"]
  BY DEF OpenClient
<1>2. link \in [Fds -> {"none", "accepted", "started", "closed"}] BY <1>0 DEF GateType
<1>3. \A x \in Fds : x # fd => link'[x] = link[x] BY <1>1, <1>2
<1>4. ASSUME NEW x \in Fds
      PROVE  FdWhole(x, coming'[x], got'[x], link'[x], connection'[x], hash'[HashFd(x)])
  <2>1. FdWhole(x, coming[x], got[x], link[x], connection[x], hash[HashFd(x)])
    BY DEF StreamsWhole
  <2>2. CASE x # fd BY <1>1, <1>3, <2>1, <2>2
  <2>3. CASE x = fd
    <3> DEFINE A == Stream(x)
               n == Len(plan[x])
               list == hash[HashFd(x)]
    <3>1. /\ got[x] = <<>> /\ Len(coming[x]) = Len(A) /\ IsPrefix(got[x], Sent(x))
          /\ got[x] \in Seq(Seq(Nat)) /\ Len(coming[x]) \in 0 .. Len(A)
          /\ coming[x] = SubSeq(A, Len(A) - Len(coming[x]) + 1, Len(A))
      BY <1>1, <2>1, <2>3 DEF FdWhole
    <3>2. PICK off : Whole(x, A, off) BY <1>0, StreamIsBytes
    <3>3. /\ A \in Seq(Nat) /\ Len(A) \in Nat /\ n \in Nat /\ off[0] = 0
          /\ \A j \in 0 .. n : off[j] \in 0 .. Len(A)
      BY <1>0, <3>2, WholeIs
    <3>4. 0 \in 0 .. n /\ off[0] <= Len(A) - Len(coming[x])
      BY <3>1, <3>3
    <3>5. 0 = n \/ Len(A) - Len(coming[x]) < off[0 + 1]
      <4>1. ASSUME 0 # n PROVE 0 < off[1]
        <5>1. 0 \in 0 .. n - 1 BY <3>3, <4>1
        <5>2. plan[x][0 + 1] \in Nat /\ off[0 + 1] = off[0] + 2 + plan[x][0 + 1]
          BY <1>0, <3>2, <5>1, PackageAt
        <5>. QED BY <3>3, <5>2
      <4>2. Len(A) - Len(coming[x]) = 0 /\ 0 + 1 = 1 BY <3>1, <3>3
      <4>. QED BY <4>1, <4>2
    <3>6. KeptIn(list, x, Leftover(x, SubSeq(A, off[0] + 1, Len(A) - Len(coming[x]))))
      <4>1. Len(A) - Len(coming[x]) = 0 BY <3>1, <3>3
      <4>2. 0 \in 0 .. Len(A) /\ 0 \in 0 .. 0 BY <3>3
      <4>3. Leftover(x, SubSeq(A, 0 + 1, 0)) = <<>> BY <3>3, <4>2, LeftoverOf
      <4>4. HashFd(x) \in 0 .. HashSize - 1 BY <1>0, FdsFinite
      <4>5. ListSound(list, HashFd(x)) BY <1>0, <4>4, ListsAreSound
      <4>6. \A i \in DOMAIN list : list[i].id # x
        BY <1>1, <2>3, <4>5 DEF ListSound
      <4>. QED BY <3>3, <4>1, <4>3, <4>6 DEF KeptIn
    <3>7. Standing(x, n, list, A, off, 0, Len(A) - Len(coming[x]))
      BY <3>4, <3>5, <3>6 DEF Standing
    <3>8. got[x] = SubSeq(Sent(x), 1, 0)
      <4> DEFINE T == Seq(Nat)
                 W == Sent(x)
      <4>1. W \in Seq(T) BY <1>0, SentIs
      <4> HIDE DEF T, W
      <4>2. 0 \in 0 .. Len(W) BY <4>1
      <4>3. SubSeq(W, 1, 0) \in Seq(T) /\ Len(SubSeq(W, 1, 0)) = 0 BY <4>1, <4>2, FirstOnes
      <4>4. SubSeq(W, 1, 0) = <<>> BY <4>3
      <4>. QED BY <3>1, <4>4 DEF W
    <3>9. link'[x] = "started" BY <1>1, <1>2, <2>3
    <3>10. \E o, k : /\ Whole(x, A, o) /\ Standing(x, n, list, A, o, k, Len(A) - Len(coming[x]))
                     /\ connection[x] = "true" => got[x] = SubSeq(Sent(x), 1, k)
      BY <3>2, <3>7, <3>8
    <3>11. FdWhole(x, coming[x], got[x], "started", connection[x], list)
      BY <3>1, <3>10 DEF FdWhole
    <3>. QED BY <1>1, <3>9, <3>11
  <2>. QED BY <2>2, <2>3
<1>. QED BY <1>1, <1>4, PlanStays DEF StreamsWhole

(* A close takes the leftover of its own connection only.                   *)
LEMMA ClosedWhole ==
  ASSUME GateInv, StreamsWhole, NEW fd \in Fds, Closed(fd)
  PROVE  StreamsWhole'
<1>0. GateType /\ LeftoversOwned BY DEF GateInv, ConnectionsSound
<1>1. /\ plan' = plan /\ coming' = coming /\ hash' = Taken(fd) /\ netq' = netq /\ got' = got
      /\ link' = [link EXCEPT ![fd] = "closed"]
  BY DEF Closed
<1>2. link \in [Fds -> {"none", "accepted", "started", "closed"}]
      /\ connection \in [Fds -> {"nil", "true", "false"}]
  BY <1>0 DEF GateType
<1>3. \A x \in Fds : x # fd => link'[x] = link[x] /\ connection'[x] = connection[x]
  BY <1>1, <1>2 DEF Closed
<1>4. ASSUME NEW x \in Fds
      PROVE  FdWhole(x, coming'[x], got'[x], link'[x], connection'[x], hash'[HashFd(x)])
  <2>1. FdWhole(x, coming[x], got[x], link[x], connection[x], hash[HashFd(x)])
    BY DEF StreamsWhole
  <2>2. CASE x = fd
    <3>1. link'[x] = "closed" BY <1>1, <1>2, <2>2
    <3>. QED BY <1>1, <2>1, <3>1 DEF FdWhole
  <2>3. CASE x # fd
    <3>1. SameOf(hash[HashFd(x)], Taken(fd)[HashFd(x)], x) BY <1>0, <2>3, TakenSame
    <3>2. FdWhole(x, coming[x], got[x], link[x], connection[x], Taken(fd)[HashFd(x)])
      BY <2>1, <3>1, FdStays
    <3>. QED BY <1>1, <1>3, <2>3, <3>2
  <2>. QED BY <2>2, <2>3
<1>. QED BY <1>1, <1>4, PlanStays DEF StreamsWhole

(* What comes next of the bytes A of which cm are to come.                  *)
LEMMA NextBytes ==
  ASSUME NEW A \in Seq(Nat), NEW cm, Len(cm) \in 0 .. Len(A),
         cm = SubSeq(A, Len(A) - Len(cm) + 1, Len(A)), NEW n \in 1 .. Len(cm)
  PROVE  /\ SubSeq(cm, 1, n) = SubSeq(A, Len(A) - Len(cm) + 1, Len(A) - Len(cm) + n)
         /\ Len(SubSeq(cm, n + 1, Len(cm))) = Len(cm) - n
         /\ SubSeq(cm, n + 1, Len(cm)) = SubSeq(A, Len(A) - Len(cm) + n + 1, Len(A))
<1> DEFINE l == Len(cm)
           e == Len(A)
           p == e - l
<1>1. l \in 0 .. e /\ e \in Nat /\ n \in 1 .. l /\ p \in 0 .. e /\ e - p = l /\ p + l = e
  OBVIOUS
<1>2. cm = SubSeq(A, p + 1, e) OBVIOUS
<1>3. Len(cm) = l OBVIOUS
<1> HIDE DEF l, p, e
<1>4. cm \in Seq(Nat) /\ e \in 0 .. Len(A)
  <2>1. e \in 0 .. Len(A) BY <1>1 DEF e
  <2>. QED BY <1>1, <1>2, <2>1, PieceIs
<1>5. SubSeq(SubSeq(A, p + 1, e), 0 + 1, n) = SubSeq(A, p + 0 + 1, p + n)
  <2>1. n \in 0 .. e - p /\ 0 \in 0 .. n BY <1>1
  <2>. QED BY <1>1, <1>4, <2>1, PieceOfPiece
<1>6. SubSeq(SubSeq(A, p + 1, e), n + 1, l) = SubSeq(A, p + n + 1, p + l)
  <2>1. l \in 0 .. e - p /\ n \in 0 .. l BY <1>1
  <2>. QED BY <1>1, <1>4, <2>1, PieceOfPiece
<1>7. Len(SubSeq(cm, n + 1, l)) = l - n
  <2>1. l \in 0 .. Len(cm) /\ n \in 0 .. l BY <1>1, <1>3
  <2>. QED BY <1>4, <2>1, PieceIs
<1>8. 0 + 1 = 1 /\ p + 0 + 1 = p + 1 BY <1>1
<1>9. /\ SubSeq(cm, 1, n) = SubSeq(A, p + 1, p + n)
      /\ Len(SubSeq(cm, n + 1, l)) = l - n
      /\ SubSeq(cm, n + 1, l) = SubSeq(A, p + n + 1, e)
  BY <1>1, <1>2, <1>5, <1>6, <1>7, <1>8
<1>. QED BY <1>9 DEF l, p, e

(* A piece of data, cut.                                                    *)
LEMMA DataCuts ==
  ASSUME GateInv, StreamsWhole, NEW fd \in Fds, link[fd] = "started",
         NEW n \in 1 .. Len(coming[fd])
  PROVE  \E off, k :
           /\ Whole(fd, Stream(fd), off) /\ k \in 0 .. Len(plan[fd])
           /\ connection[fd] = "true" => got[fd] = SubSeq(Sent(fd), 1, k)
           /\ CutUpTo(fd, Stream(fd), off, k, Len(Stream(fd)) - Len(coming[fd]) + n,
                      Filtered(fd, SubSeq(coming[fd], 1, n)))
<1> DEFINE A == Stream(fd)
           cm == coming[fd]
           pos == Len(A) - Len(cm)
<1>0. GateType /\ LeftoversOwned /\ plan \in Plans BY DEF GateInv, ConnectionsSound, GateType
<1>1. FdWhole(fd, coming[fd], got[fd], link[fd], connection[fd], hash[HashFd(fd)])
  BY DEF StreamsWhole
<1>2. /\ cm = SubSeq(A, Len(A) - Len(cm) + 1, Len(A)) /\ Len(cm) \in 0 .. Len(A)
      /\ \E off, k : /\ Whole(fd, A, off)
                     /\ Standing(fd, Len(plan[fd]), hash[HashFd(fd)], A, off, k, pos)
                     /\ connection[fd] = "true" => got[fd] = SubSeq(Sent(fd), 1, k)
  BY <1>1 DEF FdWhole
<1>3. PICK off, k : /\ Whole(fd, A, off)
                    /\ Standing(fd, Len(plan[fd]), hash[HashFd(fd)], A, off, k, pos)
                    /\ connection[fd] = "true" => got[fd] = SubSeq(Sent(fd), 1, k)
  BY <1>2
<1>4. A \in Seq(Nat) /\ Len(A) \in Nat BY <1>0, StreamIsBytes
<1>5. n \in 1 .. Len(cm) OBVIOUS
<1>6. SubSeq(cm, 1, n) = SubSeq(A, pos + 1, pos + n)
  <2> HIDE DEF A, cm
  <2>. QED BY <1>2, <1>4, <1>5, NextBytes
<1> HIDE DEF A, cm
<1>7. pos \in Nat /\ pos + n \in 0 .. Len(A) /\ pos < pos + n BY <1>2, <1>4, <1>5
<1> HIDE DEF pos
<1>8. CutUpTo(fd, A, off, k, pos + n, Filtered(fd, SubSeq(A, pos + 1, pos + n)))
  BY <1>0, <1>3, <1>7, FilteredCuts
<1>9. k \in 0 .. Len(plan[fd]) BY <1>3 DEF Standing
<1>. QED BY <1>3, <1>6, <1>8, <1>9 DEF A, cm, pos

(* At most one leftover comes of a piece of data, one of fd.                *)
LEMMA RestIsOwned ==
  ASSUME GateInv, StreamsWhole, NEW fd \in Fds, link[fd] = "started",
         NEW n \in 1 .. Len(coming[fd])
  PROVE  \/ Filtered(fd, SubSeq(coming[fd], 1, n)).rest = <<>>
         \/ \E uc : Filtered(fd, SubSeq(coming[fd], 1, n)).rest = <<uc>> /\ uc.id = fd
<1>1. \E b : Filtered(fd, SubSeq(coming[fd], 1, n)).rest = Leftover(fd, b)
  BY DataCuts DEF CutUpTo
<1>. QED BY <1>1, LeftoverIds

(* What is handed over of the packages pushed, and the ring after it.       *)
LEMMA HandedOver ==
  ASSUME RingOk(netq, Seq(Nat)), netq.head = netq.tail, NEW packs \in Seq(Seq(Nat))
  PROVE  /\ Popped(PushAll(netq, packs)) = packs
         /\ RingOk([PushAll(netq, packs) EXCEPT !.head = PushAll(netq, packs).tail], Seq(Nat))
         /\ [PushAll(netq, packs) EXCEPT !.head = PushAll(netq, packs).tail].head
              = [PushAll(netq, packs) EXCEPT !.head = PushAll(netq, packs).tail].tail
<1> DEFINE T == Seq(Nat)
           r == PushAll(netq, packs)
           z == [r EXCEPT !.head = r.tail]
<1>1. RingOk(netq, T) /\ netq.head = netq.tail /\ packs \in Seq(T) /\ <<>> \in T OBVIOUS
<1> HIDE DEF T
<1>2. RingOk(r, T) /\ Popped(r) = packs BY <1>1, PushAllPops
<1> HIDE DEF r
<1>3. /\ r = [cap |-> r.cap, head |-> r.head, tail |-> r.tail, q |-> r.q]
      /\ r.cap \in Nat \ {0} /\ r.tail \in 0 .. r.cap - 1 /\ r.q \in [0 .. r.cap - 1 -> T]
  BY <1>2 DEF RingOk
<1>4. z = [cap |-> r.cap, head |-> r.tail, tail |-> r.tail, q |-> r.q]
  <2> DEFINE c == r.cap
             h == r.head
             t == r.tail
             q == r.q
  <2>1. r = [cap |-> c, head |-> h, tail |-> t, q |-> q] /\ r.tail = t BY <1>3
  <2> HIDE DEF c, h, t, q
  <2>2. [r EXCEPT !.head = r.tail] = [cap |-> c, head |-> t, tail |-> t, q |-> q]
    BY ONLY <2>1
  <2>. QED BY <2>2 DEF c, h, t, q
<1> HIDE DEF z
<1>5. z.cap = r.cap /\ z.head = r.tail /\ z.tail = r.tail /\ z.q = r.q BY <1>4
<1>6. RingOk(z, T) BY <1>3, <1>4, <1>5 DEF RingOk
<1>. QED BY <1>2, <1>5, <1>6 DEF z, r, T

(* The packages up to k, and those up to m, are those up to m.              *)
LEMMA PackagesJoin ==
  ASSUME plan \in Plans, NEW fd \in Fds, NEW k \in 0 .. Len(plan[fd]),
         NEW m \in k .. Len(plan[fd])
  PROVE  /\ SubSeq(Sent(fd), 1, k) \o SubSeq(Sent(fd), k + 1, m) = SubSeq(Sent(fd), 1, m)
         /\ SubSeq(Sent(fd), k + 1, m) \in Seq(Seq(Nat))
         /\ SubSeq(Sent(fd), 1, m) \in Seq(Seq(Nat))
         /\ IsPrefix(SubSeq(Sent(fd), 1, m), Sent(fd))
<1> DEFINE W == Sent(fd)
           T == Seq(Nat)
           l == Len(plan[fd])
<1>1. W \in Seq(T) /\ Len(W) = l BY SentIs
<1>2. k \in 0 .. l /\ m \in k .. l /\ l \in Nat BY PlanSizes
<1> HIDE DEF W, T, l
<1>3. /\ 1 \in 1 .. Len(W) + 1 /\ k \in 1 - 1 .. Len(W) /\ m \in k .. Len(W)
      /\ m \in 0 .. Len(W) /\ k \in 0 .. m
  BY <1>1, <1>2
<1>4. SubSeq(W, 1, k) \o SubSeq(W, k + 1, m) = SubSeq(W, 1, m)
  BY ONLY <1>1, <1>3, ConcatAdjacentSubSeq
<1>5. SubSeq(W, k + 1, m) \in Seq(T) BY ONLY <1>1, <1>3, PieceIs
<1>6. SubSeq(W, 1, m) \in Seq(T) /\ IsPrefix(SubSeq(W, 1, m), W)
  BY ONLY <1>1, <1>3, FirstOnes
<1>. QED BY <1>4, <1>5, <1>6 DEF W, T

(* A piece of data: the connection's packages go on, the others' leftovers   *)
(* stay.                                                                    *)
LEMMA DataWhole ==
  ASSUME GateInv, StreamsWhole, NEW fd \in Fds, NEW n \in 1 .. Len(coming[fd]), Data(fd, n)
  PROVE  StreamsWhole'
<1> DEFINE A == Stream(fd)
           cm == coming[fd]
           N == Len(plan[fd])
           pos == Len(A) - Len(cm) + n
           f == Filtered(fd, SubSeq(coming[fd], 1, n))
           r == PushAll(netq, f.packs)
           alone == Len(f.packs) = 1 /\ f.rest = <<>>
           g == HashFd(fd)
           left == Taken(fd)[g]
<1>0. /\ GateType /\ LeftoversOwned /\ plan \in Plans
      /\ RingOk(netq, Seq(Nat)) /\ netq.head = netq.tail
  BY DEF GateInv, ConnectionsSound, GateType, StreamsWhole
<1>1. /\ UNCHANGED <<plan, link, connection>> /\ link[fd] = "started"
      /\ coming' = [coming EXCEPT ![fd] = SubSeq(cm, n + 1, Len(cm))]
      /\ hash' = [Taken(fd) EXCEPT ![g] = f.rest \o left]
      /\ netq' = IF alone THEN netq ELSE [r EXCEPT !.head = r.tail]
      /\ got' = IF connection[fd] # "true" THEN got
                ELSE [got EXCEPT ![fd] = got[fd] \o (IF alone THEN f.packs ELSE Popped(r))]
  BY DEF Data
<1>2. PICK off, k : /\ Whole(fd, A, off) /\ k \in 0 .. N
                    /\ connection[fd] = "true" => got[fd] = SubSeq(Sent(fd), 1, k)
                    /\ CutUpTo(fd, A, off, k, pos, f)
  BY <1>1, DataCuts
<1>3. PICK m \in k .. N : /\ off[m] <= pos /\ (m = N \/ pos < off[m + 1])
                          /\ f.packs = SubSeq(Sent(fd), k + 1, m)
                          /\ f.rest = Leftover(fd, SubSeq(A, off[m] + 1, pos))
  BY <1>2 DEF CutUpTo
<1>4. f.rest = <<>> \/ \E uc : f.rest = <<uc>> /\ uc.id = fd BY <1>1, RestIsOwned
<1>5. /\ SubSeq(Sent(fd), 1, k) \o f.packs = SubSeq(Sent(fd), 1, m)
      /\ f.packs \in Seq(Seq(Nat)) /\ SubSeq(Sent(fd), 1, m) \in Seq(Seq(Nat))
      /\ IsPrefix(SubSeq(Sent(fd), 1, m), Sent(fd))
  <2> HIDE DEF f
  <2>. QED BY <1>0, <1>2, <1>3, PackagesJoin
<1>6. /\ FdWhole(fd, coming[fd], got[fd], link[fd], connection[fd], hash[g])
      /\ A \in Seq(Nat) /\ Len(A) \in Nat
  BY <1>0, StreamIsBytes DEF StreamsWhole
<1>7. /\ cm = SubSeq(A, Len(A) - Len(cm) + 1, Len(A)) /\ Len(cm) \in 0 .. Len(A)
      /\ IsPrefix(got[fd], Sent(fd)) /\ got[fd] \in Seq(Seq(Nat))
  BY <1>6 DEF FdWhole
<1>8. /\ DOMAIN Taken(fd) = 0 .. HashSize - 1 /\ g \in 0 .. HashSize - 1
      /\ ListSound(left, g) /\ \A i \in DOMAIN left : left[i].id # fd
      /\ left \in Seq(Range(left))
  <2>1. g \in 0 .. HashSize - 1 BY <1>0, FdsFinite
  <2>2. /\ DOMAIN Taken(fd) = 0 .. HashSize - 1
        /\ ListSound(left, g) /\ \A i \in DOMAIN left : left[i].id # fd
    BY <1>0, <2>1, TakenIsSound
  <2>. QED BY <2>1, <2>2 DEF ListSound
<1>9. /\ hash'[g] = f.rest \o left
      /\ \A h \in 0 .. HashSize - 1 : h # g => hash'[h] = Taken(fd)[h]
  BY <1>1, <1>8
<1>10. n \in 1 .. Len(cm) OBVIOUS
<1> HIDE DEF f, left, A, cm, g
<1>11. /\ coming'[fd] = SubSeq(cm, n + 1, Len(cm)) /\ \A x \in Fds : x # fd => coming'[x] = coming[x]
       /\ \A x \in Fds : x # fd => got'[x] = got[x]
       /\ DOMAIN coming' = Fds /\ DOMAIN got' = Fds
  <2>1. DOMAIN coming = Fds /\ DOMAIN got = Fds BY DEF StreamsWhole
  <2>2. got' = got \/ \E w : got' = [got EXCEPT ![fd] = w] BY <1>1
  <2>3. coming' = [coming EXCEPT ![fd] = SubSeq(cm, n + 1, Len(cm))] BY <1>1
  <2>4. /\ coming'[fd] = SubSeq(cm, n + 1, Len(cm)) /\ DOMAIN coming' = Fds
        /\ \A x \in Fds : x # fd => coming'[x] = coming[x]
    BY <2>1, <2>3
  <2>5. DOMAIN got' = Fds /\ \A x \in Fds : x # fd => got'[x] = got[x]
    BY <2>1, <2>2
  <2>. QED BY <2>4, <2>5
(* What stands in the list of fd now.                                       *)
<1>12. KeptIn(hash'[g], fd, f.rest)
  <2>1. CASE f.rest = <<>>
    <3>1. hash'[g] = left BY <1>8, <1>9, <2>1, ConcatEmptySeq
    <3>. QED BY <1>8, <2>1, <3>1 DEF KeptIn
  <2>2. ASSUME NEW uc, f.rest = <<uc>> PROVE KeptIn(hash'[g], fd, f.rest)
    <3>1. 1 \in DOMAIN (<<uc>> \o left) /\ (<<uc>> \o left)[1] = uc BY <1>8, ConsElementsOf
    <3>2. hash'[g] = <<uc>> \o left BY <1>9, <2>2
    <3>. QED BY <2>2, <3>1, <3>2 DEF KeptIn
  <2>. QED BY <1>4, <2>1, <2>2
(* The lists of the others.                                                 *)
<1>13. ASSUME NEW x \in Fds, x # fd PROVE SameOf(hash[HashFd(x)], hash'[HashFd(x)], x)
  <2>1. SameOf(hash[HashFd(x)], Taken(fd)[HashFd(x)], x) BY <1>0, <1>13, TakenSame
  <2>2. HashFd(x) \in 0 .. HashSize - 1 BY <1>0, FdsFinite
  <2>3. SameOf(Taken(fd)[HashFd(x)], hash'[HashFd(x)], x)
    <3>1. CASE HashFd(x) # g
      <4>1. hash'[HashFd(x)] = Taken(fd)[HashFd(x)] BY <1>9, <2>2, <3>1
      <4>. QED BY <4>1, SameOfIs
    <3>2. CASE HashFd(x) = g
      <4>1. Taken(fd)[HashFd(x)] = left BY <3>2 DEF left, g
      <4>2. CASE f.rest = <<>>
        <5>1. hash'[g] = left BY <1>8, <1>9, <4>2, ConcatEmptySeq
        <5>. QED BY <3>2, <4>1, <5>1, SameOfIs
      <4>3. ASSUME NEW uc, f.rest = <<uc>>, uc.id = fd
            PROVE  SameOf(Taken(fd)[HashFd(x)], hash'[HashFd(x)], x)
        <5>1. hash'[g] = <<uc>> \o left BY <1>9, <4>3
        <5>2. SameOf(left, <<uc>> \o left, x) BY <1>8, <1>13, <4>3, ConsElementsOf
        <5>. QED BY <3>2, <4>1, <5>1, <5>2
      <4>. QED BY <1>4, <4>2, <4>3
    <3>. QED BY <3>1, <3>2
  <2>. QED BY <2>1, <2>3, SameOfIs
<1>14. ASSUME NEW x \in Fds, x # fd
       PROVE  FdWhole(x, coming'[x], got'[x], link'[x], connection'[x], hash'[HashFd(x)])
  <2>1. FdWhole(x, coming[x], got[x], link[x], connection[x], hash[HashFd(x)])
    BY DEF StreamsWhole
  <2>2. SameOf(hash[HashFd(x)], hash'[HashFd(x)], x) BY <1>13, <1>14
  <2>3. FdWhole(x, coming[x], got[x], link[x], connection[x], hash'[HashFd(x)])
    BY <2>1, <2>2, FdStays
  <2>4. /\ coming'[x] = coming[x] /\ got'[x] = got[x] /\ link'[x] = link[x]
        /\ connection'[x] = connection[x]
    BY <1>1, <1>11, <1>14
  <2>. QED BY <2>3, <2>4
(* The ring, and what is handed over.                                       *)
<1>15. /\ Popped(r) = f.packs
       /\ RingOk(netq', Seq(Nat)) /\ netq'.head = netq'.tail
  <2> DEFINE z == [r EXCEPT !.head = r.tail]
  <2>1. Popped(r) = f.packs /\ RingOk(z, Seq(Nat)) /\ z.head = z.tail
    BY <1>0, <1>5, HandedOver
  <2>2. netq' = netq \/ netq' = z BY <1>1
  <2> HIDE DEF z
  <2>. QED BY <1>0, <2>1, <2>2
<1>16. /\ connection[fd] = "true" => got'[fd] = SubSeq(Sent(fd), 1, m)
       /\ IsPrefix(got'[fd], Sent(fd)) /\ got'[fd] \in Seq(Seq(Nat))
  <2>1. CASE connection[fd] = "true"
    <3>1. got' = [got EXCEPT ![fd] = got[fd] \o f.packs] BY <1>1, <1>15, <2>1
    <3>2. fd \in DOMAIN got BY DEF StreamsWhole
    <3>3. got'[fd] = got[fd] \o f.packs BY <3>1, <3>2
    <3>4. got'[fd] = SubSeq(Sent(fd), 1, m) BY <1>2, <1>5, <2>1, <3>3
    <3>. QED BY <1>5, <3>4
  <2>2. CASE connection[fd] # "true"
    <3>1. got' = got BY <1>1, <2>2
    <3>. QED BY <1>7, <2>2, <3>1
  <2>. QED BY <2>1, <2>2
<1>17. /\ Len(coming'[fd]) = Len(cm) - n
       /\ coming'[fd] = SubSeq(A, pos + 1, Len(A))
  BY <1>6, <1>7, <1>10, <1>11, NextBytes
<1>18. /\ pos = Len(A) - Len(coming'[fd]) /\ Len(coming'[fd]) \in 0 .. Len(A)
       /\ coming'[fd] = SubSeq(A, Len(A) - Len(coming'[fd]) + 1, Len(A))
  <2>1. pos = Len(A) - (Len(cm) - n) /\ Len(cm) - n \in 0 .. Len(A) BY <1>6, <1>7, <1>10
  <2>. QED BY <1>17, <2>1
<1>19. Standing(fd, N, hash'[g], A, off, m, Len(A) - Len(coming'[fd]))
  <2>1. m \in 0 .. N BY <1>0, <1>2, PlanSizes
  <2> HIDE DEF pos, N
  <2>. QED BY <1>3, <1>12, <1>18, <2>1 DEF Standing
<1>20. FdWhole(fd, coming'[fd], got'[fd], link'[fd], connection'[fd], hash'[g])
  <2>1. link'[fd] = "started" /\ connection'[fd] = connection[fd] BY <1>1
  <2> HIDE DEF pos, r, alone
  <2>2. \E o, l : /\ Whole(fd, A, o) /\ Standing(fd, N, hash'[g], A, o, l, Len(A) - Len(coming'[fd]))
                  /\ connection'[fd] = "true" => got'[fd] = SubSeq(Sent(fd), 1, l)
    BY <1>2, <1>16, <1>19, <2>1
  <2>. QED BY <1>16, <1>18, <2>1, <2>2 DEF FdWhole, A
<1>21. ASSUME NEW x \in Fds
       PROVE  FdWhole(x, coming'[x], got'[x], link'[x], connection'[x], hash'[HashFd(x)])
  BY <1>14, <1>20 DEF g
<1>22. plan' = plan BY <1>1
<1>. QED BY <1>11, <1>15, <1>21, <1>22, PlanStays

(* When all bytes are here nothing is left behind.                          *)
LEMMA WholePackages == GateInv /\ StreamsWhole => PackagesWhole
<1> SUFFICES ASSUME GateInv, StreamsWhole, NEW fd \in Fds
             PROVE  /\ IsPrefix(got[fd], Sent(fd))
                    /\ connection[fd] = "true" /\ coming[fd] = <<>> => got[fd] = Sent(fd)
  BY DEF PackagesWhole
<1> DEFINE A == Stream(fd)
           n == Len(plan[fd])
           W == Sent(fd)
           T == Seq(Nat)
<1>0. GateType /\ TableFollowsLink /\ plan \in Plans BY DEF GateInv, GateType
<1>1. FdWhole(fd, coming[fd], got[fd], link[fd], connection[fd], hash[HashFd(fd)])
  BY DEF StreamsWhole
<1>2. IsPrefix(got[fd], W) BY <1>1 DEF FdWhole
<1>3. W \in Seq(T) /\ Len(W) = n /\ n \in Nat BY <1>0, SentIs, PlanSizes
<1>4. A \in Seq(Nat) /\ Len(A) \in Nat BY <1>0, StreamIsBytes
<1>5. ASSUME connection[fd] = "true", coming[fd] = <<>> PROVE got[fd] = W
  <2>1. link[fd] = "started" \/ link[fd] = "accepted"
    BY <1>0, <1>5 DEF TableFollowsLink, GateType
  <2>2. Len(coming[fd]) = 0 BY <1>5
  <2>3. CASE link[fd] = "started"
    <3>1. PICK off, k : /\ Whole(fd, A, off)
                        /\ Standing(fd, n, hash[HashFd(fd)], A, off, k, Len(A) - Len(coming[fd]))
                        /\ got[fd] = SubSeq(W, 1, k)
      BY <1>1, <1>5, <2>3 DEF FdWhole
    <3>2. k \in 0 .. n /\ (k = n \/ Len(A) < off[k + 1])
      BY <1>4, <2>2, <3>1 DEF Standing
    <3>3. \A j \in 0 .. n : off[j] \in 0 .. Len(A) BY <1>0, <3>1, WholeIs
    <3> HIDE DEF A, n, W
    <3>4. k = n
      <4>1. ASSUME k # n PROVE FALSE
        <5>1. k + 1 \in 0 .. n BY <1>3, <3>2, <4>1
        <5>. QED BY <1>4, <3>2, <3>3, <4>1, <5>1
      <4>. QED BY <4>1
    <3> HIDE DEF T
    <3>. QED BY <1>3, <3>1, <3>4, SubSeqFull
  <2>4. CASE link[fd] = "accepted"
    <3>1. got[fd] = <<>> /\ Len(A) = 0 BY <1>1, <2>2, <2>4 DEF FdWhole
    <3>2. PICK off : Whole(fd, A, off) BY <1>0, StreamIsBytes
    <3>3. n = 0
      <4>1. ASSUME n # 0 PROVE FALSE
        <5>1. 0 \in 0 .. n - 1 BY <1>3, <4>1
        <5>2. plan[fd][0 + 1] \in Nat /\ off[0 + 1] = off[0] + 2 + plan[fd][0 + 1]
              /\ 0 + 1 \in 0 .. n
          BY <1>0, <3>2, <5>1, PackageAt
        <5>3. off[0] = 0 /\ \A j \in 0 .. n : off[j] \in 0 .. Len(A)
          BY <1>0, <3>2, WholeIs
        <5>. QED BY <3>1, <5>2, <5>3
      <4>. QED BY <4>1
    <3> HIDE DEF A, n, W, T
    <3>4. W = <<>> BY <1>3, <3>3
    <3>. QED BY <3>1, <3>4
  <2>. QED BY <2>1, <2>3, <2>4
<1>. QED BY <1>2, <1>5

LEMMA GateStutterWhole ==
  ASSUME GateInv, StreamsWhole, UNCHANGED gateVars
  PROVE  StreamsWhole'
<1>1. /\ plan' = plan /\ coming' = coming /\ hash' = hash /\ netq' = netq /\ got' = got
      /\ link' = link /\ connection' = connection
  BY DEF gateVars
<1>. QED BY <1>1, PlanStays DEF StreamsWhole

-----------------------------------------------------------------------------
(* The gate as a whole.                                                     *)

(* A piece of data: the leftover of the connection is replaced by at most    *)
(* one new one.                                                             *)
LEMMA DataKeeps ==
  ASSUME GateInv, StreamsWhole, NEW fd \in Fds, NEW n \in 1 .. Len(coming[fd]), Data(fd, n)
  PROVE  GateInv'
<1> DEFINE g == HashFd(fd)
           rest == Filtered(fd, SubSeq(coming[fd], 1, n)).rest
<1>0. GateType /\ TableFollowsLink /\ LeftoversOwned /\ ClientsCounted
  BY DEF GateInv, ConnectionsSound
<1>1. UNCHANGED <<plan, link, connection, client_number>> /\ link[fd] = "started"
      /\ hash' = [Taken(fd) EXCEPT ![g] = rest \o Taken(fd)[g]]
  BY DEF Data
<1>2. Fds' = Fds BY <1>1 DEF Fds
<1>3. g \in 0 .. HashSize - 1 BY <1>0, FdsFinite DEF GateType
<1>4. /\ DOMAIN Taken(fd) = 0 .. HashSize - 1
      /\ \A h \in 0 .. HashSize - 1 :
           /\ ListSound(Taken(fd)[h], h)
           /\ \A i \in DOMAIN Taken(fd)[h] : Taken(fd)[h][i].id # fd
  BY <1>0, TakenIsSound
<1>5. rest = <<>> \/ \E uc : rest = <<uc>> /\ uc.id = fd
  BY <1>1, RestIsOwned
<1> HIDE DEF rest
<1>6. ListSound(rest \o Taken(fd)[g], g)
  <2>1. ListSound(Taken(fd)[g], g) /\ \A i \in DOMAIN Taken(fd)[g] : Taken(fd)[g][i].id # fd
    BY <1>3, <1>4
  <2>2. CASE rest = <<>>
    <3>1. Taken(fd)[g] \in Seq(Range(Taken(fd)[g])) BY <2>1 DEF ListSound
    <3>2. rest \o Taken(fd)[g] = Taken(fd)[g] BY <2>2, <3>1
    <3>. QED BY <2>1, <3>2
  <2>3. ASSUME NEW uc, rest = <<uc>>, uc.id = fd PROVE ListSound(rest \o Taken(fd)[g], g)
    BY <1>1, <2>1, <2>3, ConsIsSound
  <2>. QED BY <1>5, <2>2, <2>3
<1> HIDE DEF g
<1>7. /\ DOMAIN hash' = 0 .. HashSize - 1
      /\ \A h \in 0 .. HashSize - 1 : ListSound(hash'[h], h)
  BY <1>1, <1>3, <1>4, <1>6
<1>8. GateType' /\ LeftoversOwned'
  <2>1. /\ link' \in [Fds -> {"none", "accepted", "started", "closed"}]
        /\ connection' \in [Fds -> {"nil", "true", "false"}] /\ client_number' \in Nat
    BY <1>0, <1>1 DEF GateType
  <2>. QED BY <1>1, <1>7, <2>1, SoundListsNext
<1>9. TableFollowsLink' BY <1>0, <1>1, <1>2 DEF TableFollowsLink
<1>10. ClientsCounted' BY <1>0, <1>1, <1>2 DEF ClientsCounted
<1>. QED BY <1>8, <1>9, <1>10 DEF GateInv, ConnectionsSound

(* Every step keeps what holds of the connections and of their bytes.       *)
LEMMA GateNextInv == GateInv /\ StreamsWhole /\ [GateNext]_gateVars => GateInv' /\ StreamsWhole'
<1> SUFFICES ASSUME GateInv, StreamsWhole, [GateNext]_gateVars
             PROVE  GateInv' /\ StreamsWhole'
  OBVIOUS
<1>1. CASE UNCHANGED gateVars BY <1>1, GateStutterKeeps, GateStutterWhole
<1>2. ASSUME NEW fd \in Fds, Accepted(fd) PROVE GateInv' /\ StreamsWhole'
  BY <1>2, AcceptedKeeps, AcceptedWhole
<1>3. ASSUME NEW fd \in Fds, OpenClient(fd) PROVE GateInv' /\ StreamsWhole'
  BY <1>3, OpenClientKeeps, OpenClientWhole
<1>4. ASSUME NEW fd \in Fds, CloseClient(fd) PROVE GateInv' /\ StreamsWhole'
  BY <1>4, CloseClientKeeps, CloseClientWhole
<1>5. ASSUME NEW fd \in Fds, Closed(fd) PROVE GateInv' /\ StreamsWhole'
  BY <1>5, ClosedKeeps, ClosedWhole
<1>6. ASSUME NEW fd \in Fds, NEW n \in 1 .. Len(coming[fd]), Data(fd, n)
      PROVE  GateInv' /\ StreamsWhole'
  BY <1>6, DataKeeps, DataWhole
<1>. QED BY <1>1, <1>2, <1>3, <1>4, <1>5, <1>6 DEF GateNext

(* For any peers, sizes, hash size and limit of clients: each leftover that  *)
(* the splitter keeps is the only one of a connection that is open, a close  *)
(* or an error takes it away (find_uncomplete, close_uncomplete,             *)
(* lua-netpack.c:90-112, 215-223), and client_number is the number of        *)
(* connections in gateserver's table and never above the limit               *)
(* (gateserver.lua:81-123).                                                 *)
THEOREM ConnectionsKept == GateSpec => []ConnectionsSound
<1>1. GateInv => ConnectionsSound BY DEF GateInv
<1>. QED BY GateInitInv, GateInitWhole, GateNextInv, <1>1, PTL DEF GateSpec

(* For any peers and packages, any base of the digits, any size of the queue  *)
(* and of the table: however TCP cuts the bytes and mixes the connections, a  *)
(* connection's packages are handed over whole and in the order in which they *)
(* were sent, and when all its bytes have come all its packages have been     *)
(* (filter_data_, push_more, push_data, expand_queue, lua-netpack.c:114-292). *)
THEOREM PackagesAreWhole == GateSpec => []PackagesWhole
<1>1. QED BY GateInitInv, GateInitWhole, GateNextInv, WholePackages, PTL DEF GateSpec
-----------------------------------------------------------------------------
(* The timing wheel.                                                        *)

(* Quotient and rest.                                                       *)
LEMMA QuotientAndRest ==
  ASSUME NEW b \in Nat \ {0}, NEW x \in Nat
  PROVE  x \div b \in Nat /\ x % b \in 0 .. b - 1 /\ x = b * (x \div b) + (x % b)
<1>1. x % b \in 0 .. b - 1 BY SMT
<1>2. x \div b \in Int BY SMT
<1>3. x = b * (x \div b) + (x % b) BY SMT
<1>4. x \div b \in Nat BY SMT
<1>. QED BY <1>1, <1>2, <1>3, <1>4

(* Multiplying keeps an order.                                              *)
LEMMA ProductGrows ==
  ASSUME NEW b \in Nat \ {0}, NEW p \in Nat, NEW q \in Nat, p < q
  PROVE  b * p + b <= b * q /\ b * p \in Nat /\ b * q \in Nat
<1>1. PICK d \in Nat : q = p + 1 + d
  <2>1. q - p - 1 \in Nat /\ q = p + 1 + (q - p - 1) OBVIOUS
  <2>. QED BY <2>1
<1>2. b * (p + 1 + d) = b * p + b + b * d OBVIOUS
<1>3. b * d \in Nat /\ b * p \in Nat /\ b * q \in Nat OBVIOUS
<1>. QED BY <1>1, <1>2, <1>3

(* They are the only ones.                                                  *)
LEMMA QuotientIs ==
  ASSUME NEW b \in Nat \ {0}, NEW x \in Nat, NEW q \in Nat, NEW r \in 0 .. b - 1, x = b * q + r
  PROVE  x \div b = q /\ x % b = r
<1> DEFINE p == x \div b
           s == x % b
<1>1. p \in Nat /\ s \in 0 .. b - 1 /\ x = b * p + s BY QuotientAndRest
<1> HIDE DEF p, s
<1> DEFINE bp == b * p
           bq == b * q
<1>2. bp \in Nat /\ bq \in Nat BY <1>1
<1>3. bp + s = bq + r BY <1>1
<1>4. ~(p < q)
  <2> SUFFICES ASSUME p < q PROVE FALSE OBVIOUS
  <2>1. bp + b <= bq BY <1>1, ProductGrows
  <2> HIDE DEF bp, bq
  <2>. QED BY <1>1, <1>2, <1>3, <2>1
<1>5. ~(q < p)
  <2> SUFFICES ASSUME q < p PROVE FALSE OBVIOUS
  <2>1. bq + b <= bp BY <1>1, ProductGrows
  <2> HIDE DEF bp, bq
  <2>. QED BY <1>1, <1>2, <1>3, <2>1
<1>6. p = q BY <1>1, <1>4, <1>5
<1>7. s = r BY <1>1, <1>2, <1>3, <1>6
<1>. QED BY <1>6, <1>7 DEF p, s

(* The next number is in the same block, or begins the next one.            *)
LEMMA NextInBlock ==
  ASSUME NEW b \in Nat \ {0}, NEW t \in Nat
  PROVE  (t + 1) \div b = IF (t + 1) % b = 0 THEN t \div b + 1 ELSE t \div b
<1> DEFINE p == t \div b
           s == t % b
<1>1. p \in Nat /\ s \in 0 .. b - 1 /\ t = b * p + s BY QuotientAndRest
<1> HIDE DEF p, s
<1>2. CASE s = b - 1
  <2>1. t + 1 = b * (p + 1) + 0
    <3>1. b * (p + 1) = b * p + b BY <1>1
    <3>. QED BY <1>1, <1>2, <3>1
  <2>2. t + 1 \in Nat /\ p + 1 \in Nat /\ 0 \in 0 .. b - 1 BY <1>1
  <2>3. (t + 1) \div b = p + 1 /\ (t + 1) % b = 0 BY <2>1, <2>2, QuotientIs
  <2>. QED BY <2>3 DEF p
<1>3. CASE s # b - 1
  <2>1. t + 1 = b * p + (s + 1) BY <1>1
  <2>2. t + 1 \in Nat /\ s + 1 \in 0 .. b - 1 BY <1>1, <1>3
  <2>3. (t + 1) \div b = p /\ (t + 1) % b = s + 1 BY <1>1, <2>1, <2>2, QuotientIs
  <2>4. s + 1 # 0 BY <1>1
  <2>. QED BY <2>3, <2>4 DEF p
<1>. QED BY <1>2, <1>3

(* Two numbers of a block are less than its length apart, and one before the *)
(* next block is not behind it.                                             *)
LEMMA SameBlock ==
  ASSUME NEW b \in Nat \ {0}, NEW x \in Nat, NEW t \in Nat
  PROVE  /\ x \div b = t \div b => t - x < b
         /\ x >= t => x \div b >= t \div b
<1> DEFINE p == t \div b
           s == t % b
           q == x \div b
           r == x % b
<1>1. p \in Nat /\ s \in 0 .. b - 1 /\ t = b * p + s BY QuotientAndRest
<1>2. q \in Nat /\ r \in 0 .. b - 1 /\ x = b * q + r BY QuotientAndRest
<1> HIDE DEF p, s, q, r
<1>3. q = p => t - x < b
  <2> SUFFICES ASSUME q = p PROVE t - x < b OBVIOUS
  <2> DEFINE y == b * p
  <2>1. y \in Nat /\ t = y + s /\ x = y + r BY <1>1, <1>2
  <2> HIDE DEF y
  <2>. QED BY <1>1, <1>2, <2>1
<1>4. x >= t => q >= p
  <2> SUFFICES ASSUME x >= t, q < p PROVE FALSE BY <1>1, <1>2
  <2> DEFINE y == b * p
             z == b * q
  <2>1. y \in Nat /\ z \in Nat /\ t = y + s /\ x = z + r BY <1>1, <1>2
  <2>2. z + b <= y BY <1>1, <1>2, ProductGrows
  <2> HIDE DEF y, z
  <2>. QED BY <1>1, <1>2, <2>1, <2>2
<1>. QED BY <1>3, <1>4 DEF p, q

(* The lengths of the blocks: a number's list is told by the smallest block   *)
(* that it shares with the time.                                            *)
Block(i) == 2 ^ Bits(i)
Turn == 2 ^ TimeBits
Half == 2 ^ (TimeBits - 1)
Side == 2 ^ LevelShift
Digit(x, i) == (x \div Block(i)) % Side
Agree(x, t, i) == x \div Block(i) = t \div Block(i)
First(x, t, i) == Agree(x, t, i) /\ \A j \in 0 .. i - 1 : ~Agree(x, t, j)
PlaceAt(x, i) == IF i = 0 THEN <<-1, x % Block(0)>> ELSE <<i - 1, Digit(x, i - 1)>>

LEMMA BlocksAre ==
  /\ Side \in Nat \ {0, 1} /\ Block(0) \in Nat \ {0, 1}
  /\ Turn = Block(4) /\ Block(0) = 2 ^ NearShift
  /\ \A i \in 0 .. 4 : Block(i) \in Nat \ {0}
  /\ \A i \in 0 .. 3 : Block(i + 1) = Block(i) * Side
  /\ Half \in Nat /\ Turn = 2 * Half
  /\ \A i \in 0 .. 3 : Block(i) <= Half
<1>1. /\ NearShift \in Nat /\ LevelShift \in Nat
      /\ 2 ^ NearShift \in Nat \ {0, 1} /\ Side \in Nat \ {0, 1}
      /\ \A i \in 0 .. 3 : Block(i + 1) = Block(i) * Side
      /\ Half \in Nat /\ Turn = 2 * Half
  BY WheelAssumption, PowersAssumption DEF WheelAssumption, PowersAssumption, Block, Side, Half, Turn
<1>2. Bits(0) = NearShift /\ Bits(4) = TimeBits
  BY <1>1 DEF Bits, TimeBits
<1>3. Block(0) = 2 ^ NearShift /\ Turn = Block(4) BY <1>2 DEF Block, Turn
<1> HIDE DEF Block, Side, Half, Turn
<1>4. Block(0) \in Nat \ {0, 1} BY <1>1, <1>3
<1>5. ASSUME NEW b \in Nat \ {0} PROVE b * Side \in Nat \ {0} /\ b + b <= b * Side
  <2>1. PICK d \in Nat : Side = 2 + d
    <3>1. Side - 2 \in Nat /\ Side = 2 + (Side - 2) BY <1>1
    <3>. QED BY <3>1
  <2>2. b * (2 + d) = b + b + b * d /\ b * d \in Nat BY <1>5
  <2>. QED BY <1>5, <2>1, <2>2
<1>6. Block(1) \in Nat \ {0} /\ Block(0) + Block(0) <= Block(1)
  BY <1>1, <1>4, <1>5
<1>7. Block(2) \in Nat \ {0} /\ Block(1) + Block(1) <= Block(2)
  <2>1. Block(1 + 1) = Block(1) * Side BY <1>1
  <2>. QED BY <1>6, <1>5, <2>1
<1>8. Block(3) \in Nat \ {0} /\ Block(2) + Block(2) <= Block(3)
  <2>1. Block(2 + 1) = Block(2) * Side BY <1>1
  <2>. QED BY <1>7, <1>5, <2>1
<1>9. Block(4) \in Nat \ {0} /\ Block(3) + Block(3) <= Block(4)
  <2>1. Block(3 + 1) = Block(3) * Side BY <1>1
  <2>. QED BY <1>8, <1>5, <2>1
<1>10. \A i \in 0 .. 4 : Block(i) \in Nat \ {0} BY <1>4, <1>6, <1>7, <1>8, <1>9
<1>11. \A i \in 0 .. 3 : Block(i) <= Half
  <2>1. Block(3) <= Half /\ Block(2) <= Half /\ Block(1) <= Half /\ Block(0) <= Half
    BY <1>1, <1>3, <1>4, <1>6, <1>7, <1>8, <1>9
  <2>. QED BY <2>1
<1>. QED BY <1>1, <1>3, <1>4, <1>10, <1>11

(* All numbers share the greatest block.                                    *)
LEMMA AllAgree ==
  ASSUME NEW x \in 0 .. Turn - 1, NEW t \in 0 .. Turn - 1
  PROVE  /\ Agree(x, t, 4)
         /\ \E i \in 0 .. 4 : First(x, t, i)
<1>1. Turn \in Nat \ {0} /\ Turn = Block(4) BY BlocksAre
<1> HIDE DEF Turn
<1>2. ASSUME NEW y \in 0 .. Turn - 1 PROVE y \div Turn = 0
  <2>1. y \in Nat /\ 0 \in Nat /\ y = Turn * 0 + y BY <1>1
  <2>. QED BY ONLY <1>1, <1>2, <2>1, QuotientIs
<1>3. Agree(x, t, 4) BY <1>1, <1>2 DEF Agree
<1> DEFINE Those == {i \in Nat : i \in 0 .. 4 /\ Agree(x, t, i)}
<1>4. 4 \in Those BY <1>3
<1>5. PICK i \in Those : \A j \in Those : i <= j BY <1>4, LeastNumber
<1>6. i \in 0 .. 4 /\ Agree(x, t, i) OBVIOUS
<1>7. ASSUME NEW j \in 0 .. i - 1 PROVE ~Agree(x, t, j)
  <2>1. j \in Nat /\ j \in 0 .. 4 /\ ~(i <= j) BY <1>6
  <2>2. j \notin Those BY <1>5, <2>1
  <2>. QED BY <2>1, <2>2
<1>8. First(x, t, i) BY <1>6, <1>7 DEF First
<1>. QED BY <1>3, <1>6, <1>8

(* add_node, by the smallest block shared.                                  *)
LEMMA PlaceBy ==
  ASSUME NEW x, NEW t, NEW i \in 0 .. 4, First(x, t, i)
  PROVE  Place(x, t) = PlaceAt(x, i)
<1>1. Block(0) = 2 ^ NearShift BY BlocksAre
<1> DEFINE agree == {j \in 0 .. 2 : Agree(x, t, j + 1)}
           level == IF agree = {} THEN 3 ELSE CHOOSE k \in agree : \A j \in agree : k <= j
<1>2. Place(x, t) = IF Agree(x, t, 0) THEN <<-1, x % Block(0)>> ELSE <<level, Digit(x, level)>>
  BY <1>1 DEF Place, Agree, Block, Digit, Side
<1>3. Agree(x, t, i) /\ \A j \in 0 .. i - 1 : ~Agree(x, t, j) BY DEF First
<1>4. CASE i = 0 BY <1>2, <1>3, <1>4 DEF PlaceAt
<1>5. CASE i = 4
  <2>1. \A j \in 0 .. 2 : j + 1 \in 0 .. i - 1 BY <1>5
  <2>2. agree = {} BY <1>3, <2>1
  <2>3. 0 \in 0 .. i - 1 /\ i - 1 = 3 /\ i # 0 BY <1>5
  <2>. QED BY <1>2, <1>3, <2>2, <2>3 DEF PlaceAt
<1>6. CASE i \in 1 .. 3
  <2>1. i - 1 \in 0 .. 2 /\ i - 1 + 1 = i /\ 0 \in 0 .. i - 1 /\ i # 0 BY <1>6
  <2>2. i - 1 \in agree BY <1>3, <2>1
  <2>3. ASSUME NEW j \in agree PROVE i - 1 <= j
    <3>1. j \in 0 .. 2 /\ Agree(x, t, j + 1) OBVIOUS
    <3>2. j + 1 \notin 0 .. i - 1 BY <1>3, <3>1
    <3>. QED BY <1>6, <3>1, <3>2
  <2>4. \A k \in agree : k \in 0 .. 2 OBVIOUS
  <2> HIDE DEF agree
  <2>5. \A k \in agree : (\A j \in agree : k <= j) => k = i - 1 BY <1>6, <2>2, <2>3, <2>4
  <2>6. (CHOOSE k \in agree : \A j \in agree : k <= j) = i - 1 BY <2>2, <2>3, <2>5
  <2>7. level = i - 1 BY <2>2, <2>6
  <2>. QED BY <1>2, <1>3, <2>1, <2>7 DEF PlaceAt
<1>. QED BY <1>4, <1>5, <1>6

LEMMA PlaceIsThere ==
  ASSUME NEW x \in 0 .. Turn - 1, NEW t \in 0 .. Turn - 1
  PROVE  Place(x, t) \in Positions
<1>1. PICK i \in 0 .. 4 : First(x, t, i) BY AllAgree
<1>2. Place(x, t) = PlaceAt(x, i) BY <1>1, PlaceBy
<1>3. Positions = ({-1} \X (0 .. Block(0) - 1)) \cup ((0 .. 3) \X (0 .. Side - 1))
  BY BlocksAre DEF Positions, Side
<1>4. Turn \in Nat /\ Side \in Nat \ {0} /\ \A j \in 0 .. 4 : Block(j) \in Nat \ {0}
  BY BlocksAre
<1> HIDE DEF Turn, Side, Block
<1>5. x \in Nat BY <1>4
<1>6. CASE i = 0
  <2>0. Block(0) \in Nat \ {0} BY <1>4
  <2>1. x % Block(0) \in 0 .. Block(0) - 1 BY <2>0, <1>5, QuotientAndRest
  <2>. QED BY <1>2, <1>3, <1>6, <2>1 DEF PlaceAt
<1>7. CASE i # 0
  <2>1. i - 1 \in 0 .. 3 BY <1>7
  <2>2. x \div Block(i - 1) \in Nat
    <3>1. i - 1 \in 0 .. 4 BY <2>1
    <3>2. Block(i - 1) \in Nat \ {0} BY <1>4, <3>1
    <3>. QED BY <1>5, <3>2, QuotientAndRest
  <2>3. Digit(x, i - 1) \in 0 .. Side - 1 BY <1>4, <2>2, QuotientAndRest DEF Digit
  <2>. QED BY <1>2, <1>3, <1>7, <2>1, <2>3 DEF PlaceAt
<1>. QED BY <1>6, <1>7

(* One level up: quotient, rest and digit.                                  *)
LEMMA OneLevelUp ==
  ASSUME NEW x \in Nat, NEW i \in 0 .. 3
  PROVE  /\ x \div Block(i + 1) = (x \div Block(i)) \div Side
         /\ x % Block(i + 1) = Block(i) * Digit(x, i) + (x % Block(i))
         /\ Digit(x, i) \in 0 .. Side - 1 /\ x % Block(i) \in 0 .. Block(i) - 1
         /\ x \div Block(i) \in Nat /\ x \div Block(i + 1) \in Nat
<1> DEFINE b == Block(i)
           c == Block(i + 1)
           l == Side
           p == x \div b
           s == x % b
           u == p \div l
           v == p % l
<1>1. b \in Nat \ {0} /\ l \in Nat \ {0} /\ c \in Nat \ {0} /\ c = b * l
  <2>1. i \in 0 .. 4 /\ i + 1 \in 0 .. 4 OBVIOUS
  <2>. QED BY <2>1, BlocksAre
<1>2. v = Digit(x, i) BY DEF Digit
<1> HIDE DEF b, c, l
<1>3. p \in Nat /\ s \in 0 .. b - 1 /\ x = b * p + s BY <1>1, QuotientAndRest
<1> HIDE DEF p, s
<1>4. u \in Nat /\ v \in 0 .. l - 1 /\ p = l * u + v BY <1>1, <1>3, QuotientAndRest
<1> HIDE DEF u, v
<1>5. x = c * u + (b * v + s)
  <2>1. b * (l * u + v) = (b * l) * u + b * v BY <1>1, <1>4
  <2>. QED BY <1>1, <1>3, <1>4, <2>1
<1>6. b * v + s \in 0 .. c - 1
  <2> DEFINE bv == b * v
             bl == b * l
  <2>1. v \in Nat /\ l \in Nat /\ v < l BY <1>1, <1>4
  <2>2. bv + b <= bl /\ bv \in Nat /\ bl \in Nat BY <1>1, <2>1, ProductGrows
  <2>3. c = bl BY <1>1
  <2> HIDE DEF bv, bl
  <2>4. bv + s \in 0 .. c - 1 BY <1>1, <1>3, <2>2, <2>3
  <2>. QED BY <2>4 DEF bv
<1>7. x \div c = u /\ x % c = b * v + s
  <2> DEFINE r == b * v + s
  <2>1. r \in 0 .. c - 1 /\ x = c * u + r BY <1>5, <1>6
  <2> HIDE DEF r
  <2>2. x \div c = u /\ x % c = r BY <1>1, <1>4, <2>1, QuotientIs
  <2>. QED BY <2>2 DEF r
<1>8. x \div c = (x \div b) \div l BY <1>7 DEF u, p
<1>9. x % c = b * Digit(x, i) + (x % b) BY <1>2, <1>7 DEF s
<1>10. Digit(x, i) \in 0 .. l - 1 /\ x % b \in 0 .. b - 1 /\ x \div b \in Nat BY <1>2, <1>3, <1>4 DEF s, p
<1>11. x \div c \in Nat BY <1>4, <1>7
<1>. QED BY <1>8, <1>9, <1>10, <1>11 DEF b, c, l

(* Numbers that share a block share the greater ones.                       *)
LEMMA AgreeUp ==
  ASSUME NEW x \in Nat, NEW t \in Nat, NEW j \in 0 .. 4, NEW k \in 0 .. 4, j <= k, Agree(x, t, j)
  PROVE  Agree(x, t, k)
<1>1. ASSUME NEW i \in 0 .. 3, Agree(x, t, i) PROVE Agree(x, t, i + 1)
  <2>1. x \div Block(i + 1) = (x \div Block(i)) \div Side BY OneLevelUp
  <2>2. t \div Block(i + 1) = (t \div Block(i)) \div Side BY OneLevelUp
  <2>3. x \div Block(i) = t \div Block(i) BY <1>1 DEF Agree
  <2>4. x \div Block(i + 1) = t \div Block(i + 1) BY ONLY <2>1, <2>2, <2>3
  <2>. QED BY <2>4 DEF Agree
<1>2. /\ Agree(x, t, 0) => Agree(x, t, 1)
      /\ Agree(x, t, 1) => Agree(x, t, 2)
      /\ Agree(x, t, 2) => Agree(x, t, 3)
      /\ Agree(x, t, 3) => Agree(x, t, 4)
  <2>1. 0 + 1 = 1 /\ 1 + 1 = 2 /\ 2 + 1 = 3 /\ 3 + 1 = 4 OBVIOUS
  <2>. QED BY <1>1, <2>1
<1>3. j \in {0, 1, 2, 3, 4} /\ k \in {0, 1, 2, 3, 4} OBVIOUS
<1> HIDE DEF Agree
<1>. QED BY <1>2, <1>3

(* Numbers that share a block have its digit, and below it a digit that       *)
(* differs tells blocks apart.                                              *)
LEMMA DigitsDiffer ==
  ASSUME NEW x, NEW t, NEW i, Agree(x, t, i)
  PROVE  Digit(x, i) = Digit(t, i)
BY DEF Agree, Digit

(* The tick and the number after it, within a turn.                         *)
LEMMA NextTick ==
  ASSUME NEW t \in 0 .. Turn - 1
  PROVE  /\ (t + 1) % Turn \in 0 .. Turn - 1
         /\ (t + 1) % Turn = IF t = Turn - 1 THEN 0 ELSE t + 1
<1>1. Turn \in Nat \ {0} BY BlocksAre
<1> HIDE DEF Turn
<1>2. CASE t = Turn - 1
  <2>1. t + 1 \in Nat /\ 1 \in Nat /\ 0 \in 0 .. Turn - 1 /\ t + 1 = Turn * 1 + 0 BY <1>1, <1>2
  <2>2. (t + 1) % Turn = 0 BY ONLY <1>1, <2>1, QuotientIs
  <2>. QED BY <1>2, <2>1, <2>2
<1>3. CASE t # Turn - 1
  <2>1. t + 1 \in Nat /\ 0 \in Nat /\ t + 1 \in 0 .. Turn - 1 /\ t + 1 = Turn * 0 + (t + 1)
    BY <1>1, <1>3
  <2>2. (t + 1) % Turn = t + 1 BY ONLY <1>1, <2>1, QuotientIs
  <2>. QED BY <1>3, <2>1, <2>2
<1>. QED BY <1>2, <1>3

(* The tick at which a timer is due.                                        *)
LEMMA DueTick ==
  ASSUME NEW t \in 0 .. Turn - 1, NEW r \in 0 .. Half - 1
  PROVE  /\ (t + r) % Turn \in 0 .. Turn - 1
         /\ (t + r) % Turn = IF t + r < Turn THEN t + r ELSE t + r - Turn
<1>1. Turn \in Nat \ {0} /\ Half \in Nat /\ Turn = 2 * Half BY BlocksAre
<1> HIDE DEF Turn, Half
<1>2. CASE t + r < Turn
  <2>1. t + r \in Nat /\ 0 \in Nat /\ t + r \in 0 .. Turn - 1 /\ t + r = Turn * 0 + (t + r)
    BY <1>1, <1>2
  <2>2. (t + r) % Turn = t + r BY ONLY <1>1, <2>1, QuotientIs
  <2>. QED BY <1>2, <2>1, <2>2
<1>3. CASE ~(t + r < Turn)
  <2>1. t + r \in Nat /\ 1 \in Nat /\ t + r - Turn \in 0 .. Turn - 1 /\ t + r = Turn * 1 + (t + r - Turn)
    BY <1>1, <1>3
  <2>2. (t + r) % Turn = t + r - Turn BY ONLY <1>1, <2>1, QuotientIs
  <2>. QED BY <1>3, <2>1, <2>2
<1>. QED BY <1>2, <1>3

(* When a tick begins a block, what is due within half a turn is not in the   *)
(* block that it leaves.                                                    *)
LEMMA BlockIsLeft ==
  ASSUME NEW t \in 0 .. Turn - 1, NEW r \in 1 .. Half - 1, NEW i \in 0 .. 3,
         ((t + 1) % Turn) % Block(i) = 0
  PROVE  ~Agree((t + r) % Turn, t, i)
<1>1. /\ Turn \in Nat /\ Half \in Nat /\ Turn = 2 * Half
      /\ Block(i) \in Nat \ {0} /\ Block(i) <= Half
  <2>1. i \in 0 .. 4 OBVIOUS
  <2>. QED BY <2>1, BlocksAre
<1> DEFINE x == (t + r) % Turn
           u == (t + 1) % Turn
           b == Block(i)
<1>2. r \in 0 .. Half - 1 BY <1>1
<1>3. x \in 0 .. Turn - 1 /\ x = IF t + r < Turn THEN t + r ELSE t + r - Turn BY <1>2, DueTick
<1>4. u = IF t = Turn - 1 THEN 0 ELSE t + 1 BY NextTick
<1>5. u % b = 0 OBVIOUS
<1>6. b \in Nat \ {0} /\ b <= Half BY <1>1
<1> SUFFICES ASSUME x \div b = t \div b PROVE FALSE BY DEF Agree
<1> HIDE DEF x, u, b, Turn, Half
<1>7. x \in Nat /\ t \in Nat BY <1>1, <1>3
<1>8. t - x < b BY <1>6, <1>7, SameBlock
<1>9. CASE t + r < Turn
  <2>1. x = t + r /\ t # Turn - 1 /\ u = t + 1 BY <1>1, <1>3, <1>4, <1>9
  <2>2. (t + 1) % b = 0 BY <1>5, <2>1
  <2>3. (t + 1) \div b = t \div b + 1 BY <1>6, <1>7, <2>2, NextInBlock
  <2>4. t + 1 \in Nat /\ x >= t + 1 BY <1>1, <1>7, <2>1
  <2>5. x \div b >= (t + 1) \div b BY <1>6, <1>7, <2>4, SameBlock
  <2>6. t \div b \in Nat BY <1>6, <1>7, QuotientAndRest
  <2> DEFINE q == t \div b
  <2>7. q \in Nat /\ q >= q + 1 BY <2>3, <2>5, <2>6
  <2> HIDE DEF q
  <2>. QED BY <2>7
<1>10. CASE ~(t + r < Turn)
  <2>1. x = t + r - Turn BY <1>3, <1>10
  <2>. QED BY <1>1, <1>6, <1>7, <1>8, <2>1
<1>. QED BY <1>9, <1>10

(* The level that comes down at a tick: the greatest whose block begins.     *)
Begins(u, e) ==
  /\ \A i \in 0 .. e : u % Block(i) = 0
  /\ \A i \in e + 1 .. 3 : u % Block(i) # 0

(* timer_shift moves that level's list, if there is one.                    *)
LEMMA ShiftsLevel ==
  ASSUME NEW u \in 0 .. Turn - 1
  PROVE  \E e \in -1 .. 3 :
           /\ Begins(u, e)
           /\ Shifted(u) = IF e = -1 THEN wheel ELSE MoveList(<<e, Digit(u, e)>>, u)
<1>1. /\ Turn \in Nat \ {0} /\ Turn = Block(4) /\ Block(0) = 2 ^ NearShift
      /\ Side \in Nat \ {0} /\ \A i \in 0 .. 4 : Block(i) \in Nat \ {0}
  BY BlocksAre
<1> DEFINE levels == {i \in 0 .. 3 : Digit(u, i) # 0}
           least == CHOOSE i \in levels : \A j \in levels : i <= j
<1>2. Shifted(u) = IF u = 0 THEN MoveList(<<3, 0>>, u)
                   ELSE IF u % Block(0) # 0 THEN wheel
                   ELSE MoveList(<<least, Digit(u, least)>>, u)
  BY <1>1 DEF Shifted, Digit, Block, Side
<1>3. u \in Nat BY <1>1
<1>4. ASSUME NEW i \in 0 .. 3 PROVE u % Block(i + 1) = Block(i) * Digit(u, i) + (u % Block(i))
  BY <1>3, OneLevelUp
<1>5. ASSUME NEW i \in 0 .. 3 PROVE Digit(u, i) \in 0 .. Side - 1 /\ u % Block(i) \in 0 .. Block(i) - 1
  BY <1>3, OneLevelUp
<1> DEFINE rest(i) == u % Block(i)
<1>6. ASSUME NEW i \in 0 .. 3 PROVE rest(i + 1) = 0 <=> rest(i) = 0 /\ Digit(u, i) = 0
  <2> DEFINE d == Digit(u, i)
             b == Block(i)
             s == u % Block(i)
  <2>1. rest(i + 1) = b * d + s BY <1>4
  <2>2. d \in Nat /\ s \in Nat /\ b \in Nat \ {0} BY <1>1, <1>5
  <2> HIDE DEF d, b, s, rest
  <2>3. b * d \in Nat /\ (b * d = 0 <=> d = 0) BY <2>2
  <2>4. rest(i + 1) = 0 <=> s = 0 /\ d = 0 BY <2>1, <2>2, <2>3
  <2>. QED BY <2>4 DEF d, s, rest
<1>7. rest(4) = u
  <2>1. 0 \in Nat /\ u \in 0 .. Turn - 1 /\ u = Turn * 0 + u BY <1>1
  <2>2. u % Turn = u BY ONLY <1>1, <1>3, <2>1, QuotientIs
  <2>. QED BY <1>1, <2>2
<1> HIDE DEF rest
<1>8. /\ rest(1) = 0 <=> rest(0) = 0 /\ Digit(u, 0) = 0
      /\ rest(2) = 0 <=> rest(1) = 0 /\ Digit(u, 1) = 0
      /\ rest(3) = 0 <=> rest(2) = 0 /\ Digit(u, 2) = 0
      /\ u = 0 <=> rest(3) = 0 /\ Digit(u, 3) = 0
  <2>1. 0 + 1 = 1 /\ 1 + 1 = 2 /\ 2 + 1 = 3 /\ 3 + 1 = 4 OBVIOUS
  <2>. QED BY <1>6, <1>7, <2>1
<1>9. ASSUME NEW e \in -1 .. 3, \A i \in 0 .. e : rest(i) = 0, \A i \in e + 1 .. 3 : rest(i) # 0
      PROVE  Begins(u, e)
  BY <1>9 DEF rest, Begins
<1>10. CASE u = 0
  <2>1. rest(0) = 0 /\ rest(1) = 0 /\ rest(2) = 0 /\ rest(3) = 0 /\ Digit(u, 3) = 0 BY <1>8, <1>10
  <2>2. \A i \in 0 .. 3 : rest(i) = 0
    <3>1. \A i \in 0 .. 3 : i \in {0, 1, 2, 3} OBVIOUS
    <3>. QED BY <2>1, <3>1
  <2>3. \A i \in 3 + 1 .. 3 : rest(i) # 0 OBVIOUS
  <2>4. 3 \in -1 .. 3 OBVIOUS
  <2>5. Begins(u, 3) BY <1>9, <2>2, <2>3, <2>4
  <2>. QED BY <1>2, <1>10, <2>1, <2>4, <2>5
<1>11. CASE u # 0 /\ rest(0) # 0
  <2>1. rest(1) # 0 /\ rest(2) # 0 /\ rest(3) # 0 BY <1>8, <1>11
  <2>2. \A i \in -1 + 1 .. 3 : rest(i) # 0
    <3>1. \A i \in -1 + 1 .. 3 : i \in {0, 1, 2, 3} OBVIOUS
    <3>. QED BY <1>11, <2>1, <3>1
  <2>3. \A i \in 0 .. -1 : rest(i) = 0 OBVIOUS
  <2>4. -1 \in -1 .. 3 OBVIOUS
  <2>5. Begins(u, -1) BY <1>9, <2>2, <2>3, <2>4
  <2>6. Shifted(u) = wheel BY <1>2, <1>11 DEF rest
  <2>. QED BY <2>4, <2>5, <2>6
<1>12. CASE u # 0 /\ rest(0) = 0
  <2>1. PICK e \in 0 .. 3 : /\ Digit(u, e) # 0 /\ \A i \in 0 .. e : rest(i) = 0
                            /\ \A i \in e + 1 .. 3 : rest(i) # 0
                            /\ \A i \in 0 .. e - 1 : Digit(u, i) = 0
    <3>1. CASE rest(1) # 0
      <4>1. Digit(u, 0) # 0 /\ rest(2) # 0 /\ rest(3) # 0 BY <1>8, <1>12, <3>1
      <4>2. 0 \in 0 .. 3 /\ (\A i \in 0 .. 0 : i = 0) /\ (\A i \in 0 + 1 .. 3 : i \in {1, 2, 3})
            /\ \A i \in 0 .. 0 - 1 : FALSE
        OBVIOUS
      <4>. QED BY <1>12, <3>1, <4>1, <4>2
    <3>2. CASE rest(1) = 0 /\ rest(2) # 0
      <4>1. Digit(u, 1) # 0 /\ rest(3) # 0 /\ Digit(u, 0) = 0 BY <1>8, <1>12, <3>2
      <4>2. 1 \in 0 .. 3 /\ (\A i \in 0 .. 1 : i \in {0, 1}) /\ (\A i \in 1 + 1 .. 3 : i \in {2, 3})
            /\ \A i \in 0 .. 1 - 1 : i = 0
        OBVIOUS
      <4>. QED BY <1>12, <3>2, <4>1, <4>2
    <3>3. CASE rest(1) = 0 /\ rest(2) = 0 /\ rest(3) # 0
      <4>1. Digit(u, 2) # 0 /\ Digit(u, 0) = 0 /\ Digit(u, 1) = 0 BY <1>8, <1>12, <3>3
      <4>2. 2 \in 0 .. 3 /\ (\A i \in 0 .. 2 : i \in {0, 1, 2}) /\ (\A i \in 2 + 1 .. 3 : i = 3)
            /\ \A i \in 0 .. 2 - 1 : i \in {0, 1}
        OBVIOUS
      <4>. QED BY <1>12, <3>3, <4>1, <4>2
    <3>4. CASE rest(1) = 0 /\ rest(2) = 0 /\ rest(3) = 0
      <4>1. Digit(u, 3) # 0 /\ Digit(u, 0) = 0 /\ Digit(u, 1) = 0 /\ Digit(u, 2) = 0
        BY <1>8, <1>12, <3>4
      <4>2. 3 \in 0 .. 3 /\ (\A i \in 0 .. 3 : i \in {0, 1, 2, 3}) /\ (\A i \in 3 + 1 .. 3 : FALSE)
            /\ \A i \in 0 .. 3 - 1 : i \in {0, 1, 2}
        OBVIOUS
      <4>. QED BY <1>12, <3>4, <4>1, <4>2
    <3>. QED BY <3>1, <3>2, <3>3, <3>4
  <2>2. Begins(u, e) /\ e \in -1 .. 3 /\ e # -1
    <3>1. e \in -1 .. 3 /\ e # -1 OBVIOUS
    <3>. QED BY <1>9, <2>1, <3>1
  <2>3. e \in levels BY <2>1
  <2>4. ASSUME NEW j \in levels PROVE e <= j
    <3>1. j \in 0 .. 3 /\ Digit(u, j) # 0 OBVIOUS
    <3>2. j \notin 0 .. e - 1 BY <2>1, <3>1
    <3>. QED BY <3>1, <3>2
  <2>5. \A j \in levels : j \in 0 .. 3 OBVIOUS
  <2> HIDE DEF levels
  <2>6. \A k \in levels : (\A j \in levels : k <= j) => k = e BY <2>3, <2>4, <2>5
  <2>7. least = e BY <2>3, <2>4, <2>6
  <2>8. Shifted(u) = MoveList(<<e, Digit(u, e)>>, u)
    <3>1. u % Block(0) = 0 BY <1>12 DEF rest
    <3> HIDE DEF least
    <3>. QED BY <1>2, <1>12, <2>7, <3>1
  <2>. QED BY <2>2, <2>8
<1>. QED BY <1>10, <1>11, <1>12

(* A timer that does not wait in the list that comes down is where it         *)
(* belongs at the next tick too.                                            *)
LEMMA StillPlaced ==
  ASSUME NEW t \in 0 .. Turn - 1, NEW r \in 1 .. Half - 1, NEW e \in -1 .. 3,
         Begins((t + 1) % Turn, e)
  PROVE  LET x == (t + r) % Turn
             u == (t + 1) % Turn
         IN \/ Place(x, u) = Place(x, t)
            \/ e # -1 /\ Place(x, t) = <<e, Digit(u, e)>>
<1> DEFINE x == (t + r) % Turn
           u == (t + 1) % Turn
<1>1. /\ Turn \in Nat \ {0} /\ Turn = Block(4) /\ Half \in Nat /\ Turn = 2 * Half
      /\ \A i \in 0 .. 4 : Block(i) \in Nat \ {0}
  BY BlocksAre
<1>2. x \in 0 .. Turn - 1 /\ u \in 0 .. Turn - 1
  <2>1. r \in 0 .. Half - 1 BY <1>1
  <2>. QED BY <2>1, DueTick, NextTick
<1>3. x \in Nat /\ t \in Nat /\ u \in Nat BY <1>1, <1>2
<1>4. ASSUME NEW i \in 0 .. e PROVE ~Agree(x, t, i)
  <2>1. i \in 0 .. 3 OBVIOUS
  <2>2. u % Block(i) = 0 BY DEF Begins
  <2>. QED BY <2>1, <2>2, BlockIsLeft
<1>5. ASSUME NEW i \in e + 1 .. 4 PROVE Agree(x, u, i) <=> Agree(x, t, i)
  <2>1. CASE i = 4
    <3>1. Agree(x, u, 4) /\ Agree(x, t, 4) BY <1>2, AllAgree
    <3>. QED BY <2>1, <3>1
  <2>2. CASE i # 4
    <3>1. i \in e + 1 .. 3 /\ i \in 0 .. 4 BY <2>2
    <3>2. u % Block(i) # 0 BY <3>1 DEF Begins
    <3>3. Block(i) \in Nat \ {0} BY <1>1, <3>1
    <3>4. u = t + 1
      <4>1. CASE t = Turn - 1
        <5>1. u = 0 BY <4>1, NextTick
        <5>2. 0 % Block(i) = 0
          <6> DEFINE b == Block(i)
          <6>1. b \in Nat \ {0} BY <3>3
          <6> HIDE DEF b
          <6>2. 0 \in Nat /\ 0 \in 0 .. b - 1 /\ 0 = b * 0 + 0 BY <6>1
          <6>3. 0 % b = 0 BY ONLY <6>1, <6>2, QuotientIs
          <6>. QED BY <6>3 DEF b
        <5>. QED BY <3>2, <5>1, <5>2
      <4>2. CASE t # Turn - 1 BY <4>2, NextTick
      <4>. QED BY <4>1, <4>2
    <3>5. u \div Block(i) = t \div Block(i)
      <4>1. (t + 1) % Block(i) # 0 BY <3>2, <3>4
      <4>2. (t + 1) \div Block(i) = t \div Block(i) BY <1>3, <3>3, <4>1, NextInBlock
      <4>. QED BY <3>4, <4>2
    <3>. QED BY <3>5 DEF Agree
  <2>. QED BY <2>1, <2>2
<1>6. PICK i \in 0 .. 4 : First(x, t, i) BY <1>2, AllAgree
<1>7. Agree(x, t, i) /\ \A j \in 0 .. i - 1 : ~Agree(x, t, j) BY <1>6 DEF First
<1>8. Place(x, t) = PlaceAt(x, i) BY <1>6, PlaceBy
<1>9. ASSUME NEW j \in 0 .. 4, NEW k \in 0 .. 4, j <= k, Agree(x, u, j) PROVE Agree(x, u, k)
  BY <1>3, <1>9, AgreeUp
<1>10. ASSUME First(x, u, i) PROVE Place(x, u) = Place(x, t)
  BY <1>8, <1>10, PlaceBy
<1>11. (e # -1 /\ Digit(x, e) # Digit(u, e)) => ~Agree(x, u, e) BY DigitsDiffer
<1> HIDE DEF x, u
<1>12. i \in e + 1 .. 4
  <2>1. i \notin 0 .. e BY <1>4, <1>7
  <2>. QED BY <2>1
<1>13. Agree(x, u, i) BY <1>5, <1>7, <1>12
<1>14. ASSUME NEW j \in e + 1 .. i - 1 PROVE ~Agree(x, u, j)
  <2>1. j \in e + 1 .. 4 /\ j \in 0 .. i - 1 OBVIOUS
  <2>. QED BY <1>5, <1>7, <2>1
<1>15. CASE i = e + 1 /\ e # -1 /\ Digit(x, e) = Digit(u, e)
  <2>1. i # 0 /\ i - 1 = e BY <1>15
  <2>2. Place(x, t) = <<e, Digit(u, e)>> BY <1>8, <1>15, <2>1 DEF PlaceAt
  <2>. QED BY <1>15, <2>2 DEF x, u
<1>16. CASE ~(i = e + 1 /\ e # -1 /\ Digit(x, e) = Digit(u, e))
  <2>1. ASSUME NEW j \in 0 .. i - 1 PROVE ~Agree(x, u, j)
    <3>1. CASE j \in e + 1 .. i - 1 BY <1>14, <3>1
    <3>2. CASE j <= e /\ i # e + 1
      <4>1. e + 1 \in e + 1 .. i - 1 /\ e + 1 \in 0 .. 4 /\ j \in 0 .. 4 /\ j <= e + 1
        BY <1>12, <3>2
      <4>2. ~Agree(x, u, e + 1) BY <1>14, <4>1
      <4>. QED BY <1>9, <4>1, <4>2
    <3>3. CASE j <= e /\ i = e + 1
      <4>1. e # -1 /\ e \in 0 .. 4 /\ j \in 0 .. 4 BY <3>3
      <4>2. ~Agree(x, u, e) BY <1>11, <1>16, <3>3, <4>1
      <4>. QED BY <1>9, <3>3, <4>1, <4>2
    <3>4. j \in e + 1 .. i - 1 \/ (j <= e /\ i # e + 1) \/ (j <= e /\ i = e + 1) OBVIOUS
    <3>. QED BY <3>1, <3>2, <3>3, <3>4
  <2>2. First(x, u, i) BY <1>13, <2>1 DEF First
  <2>3. Place(x, u) = Place(x, t) BY <1>10, <2>2
  <2>. QED BY <2>3 DEF x, u
<1>. QED BY <1>15, <1>16

TimerNode == [id : Timers, expire : 0 .. Turn - 1]
IsWheel(w) == w \in [Positions -> Seq(TimerNode)]

(* A timer is in one place.                                                 *)
OnceOnly(w) ==
  \A p, q \in Positions : \A i \in DOMAIN w[p], j \in DOMAIN w[q] :
    w[p][i].id = w[q][j].id => p = q /\ i = j

LEMMA NodeAdded ==
  ASSUME NEW w, IsWheel(w), NEW n \in TimerNode, NEW now \in 0 .. Turn - 1
  PROVE  LET p == Place(n.expire, now)
             z == AddNode(w, n, now)
             last == Len(w[p]) + 1
         IN /\ p \in Positions /\ IsWheel(z)
            /\ \A q \in Positions : \A i \in DOMAIN z[q] :
                 \/ i \in DOMAIN w[q] /\ z[q][i] = w[q][i]
                 \/ q = p /\ i = last /\ z[q][i] = n
            /\ \A q \in Positions : \A i \in DOMAIN w[q] : i \in DOMAIN z[q] /\ z[q][i] = w[q][i]
            /\ last \in DOMAIN z[p] /\ z[p][last] = n /\ last \notin DOMAIN w[p]
<1> DEFINE p == Place(n.expire, now)
           z == AddNode(w, n, now)
           last == Len(w[p]) + 1
<1>1. p \in Positions
  <2>1. n.expire \in 0 .. Turn - 1 BY DEF TimerNode
  <2>. QED BY <2>1, PlaceIsThere
<1>2. w \in [Positions -> Seq(TimerNode)] BY DEF IsWheel
<1>3. z = [w EXCEPT ![p] = Append(@, n)] BY DEF AddNode
<1> HIDE DEF p, z
<1>4. /\ z \in [Positions -> Seq(TimerNode)]
      /\ z[p] = Append(w[p], n) /\ \A q \in Positions : q # p => z[q] = w[q]
  <2>1. w[p] \in Seq(TimerNode) BY <1>1, <1>2
  <2>2. Append(w[p], n) \in Seq(TimerNode) BY <2>1
  <2>3. z \in [Positions -> Seq(TimerNode)] BY ONLY <1>2, <1>3, <2>2
  <2>. QED BY ONLY <1>1, <1>2, <1>3, <2>3
<1>5. w[p] \in Seq(TimerNode) BY <1>1, <1>2
<1>6. /\ DOMAIN w[p] = 1 .. Len(w[p]) /\ DOMAIN z[p] = 1 .. last /\ Len(w[p]) \in Nat
      /\ \A i \in 1 .. Len(w[p]) : z[p][i] = w[p][i]
      /\ z[p][last] = n
  BY ONLY <1>4, <1>5, n \in TimerNode
<1>7. last \in 1 .. last /\ last \notin 1 .. Len(w[p]) BY <1>6
<1>8. \A i \in 1 .. last : i \in 1 .. Len(w[p]) \/ i = last BY <1>6
<1>9. \A i \in 1 .. Len(w[p]) : i \in 1 .. last BY <1>6
<1> HIDE DEF last
<1>10. ASSUME NEW q \in Positions
       PROVE  /\ \A i \in DOMAIN z[q] : \/ i \in DOMAIN w[q] /\ z[q][i] = w[q][i]
                                        \/ q = p /\ i = last /\ z[q][i] = n
              /\ \A i \in DOMAIN w[q] : i \in DOMAIN z[q] /\ z[q][i] = w[q][i]
  <2>1. CASE q = p BY <1>6, <1>8, <1>9, <2>1
  <2>2. CASE q # p BY <1>4, <2>2
  <2>. QED BY <2>1, <2>2
<1>. QED BY <1>1, <1>4, <1>6, <1>7, <1>10 DEF p, z, last, IsWheel

LEMMA NodeAddedOnce ==
  ASSUME NEW w, IsWheel(w), NEW n \in TimerNode, NEW now \in 0 .. Turn - 1, OnceOnly(w),
         \A q \in Positions : \A i \in DOMAIN w[q] : w[q][i].id # n.id
  PROVE  OnceOnly(AddNode(w, n, now))
<1> DEFINE p == Place(n.expire, now)
           z == AddNode(w, n, now)
           last == Len(w[p]) + 1
<1>1. \A q \in Positions : \A i \in DOMAIN z[q] :
        \/ i \in DOMAIN w[q] /\ z[q][i] = w[q][i]
        \/ q = p /\ i = last /\ z[q][i] = n
  BY NodeAdded
<1> HIDE DEF p, z, last
<1> SUFFICES ASSUME NEW q \in Positions, NEW r \in Positions, NEW i \in DOMAIN z[q], NEW j \in DOMAIN z[r],
                    z[q][i].id = z[r][j].id
             PROVE  q = r /\ i = j
  BY DEF OnceOnly, z
<1>2. \/ i \in DOMAIN w[q] /\ z[q][i] = w[q][i]
      \/ q = p /\ i = last /\ z[q][i] = n
  BY <1>1
<1>3. \/ j \in DOMAIN w[r] /\ z[r][j] = w[r][j]
      \/ r = p /\ j = last /\ z[r][j] = n
  BY <1>1
<1>4. CASE i \in DOMAIN w[q] /\ z[q][i] = w[q][i] /\ j \in DOMAIN w[r] /\ z[r][j] = w[r][j]
  BY <1>4 DEF OnceOnly
<1>. QED BY <1>2, <1>3, <1>4

(* The nodes of a list added one after another.                             *)
Moves(f, last, p, now) ==
  f = [k \in 0 .. last |-> IF k = 0 THEN [wheel EXCEPT ![p] = <<>>]
                           ELSE AddNode(f[k - 1], wheel[p][k], now)]

LEMMA MovesExist ==
  ASSUME NEW p, NEW now, NEW last \in Nat
  PROVE  \E f : Moves(f, last, p, now)
<1> DEFINE Fails == {k \in Nat : ~\E f : Moves(f, k, p, now)}
           first == [wheel EXCEPT ![p] = <<>>]
<1> SUFFICES ASSUME Fails # {} PROVE FALSE OBVIOUS
<1>1. PICK k \in Fails : \A j \in Fails : k <= j BY LeastNumber
<1>2. k \in Nat /\ ~\E f : Moves(f, k, p, now) OBVIOUS
<1>a. \A f, j : Moves(f, j, p, now) <=> f = [i \in 0 .. j |-> IF i = 0 THEN first ELSE AddNode(f[i - 1], wheel[p][i], now)]
  BY DEF Moves
<1> HIDE DEF first
<1>3. CASE k = 0
  <2> DEFINE f == [j \in 0 .. 0 |-> first]
  <2>1. \A j \in 0 .. 0 : j = 0 OBVIOUS
  <2>2. f = [j \in 0 .. 0 |-> IF j = 0 THEN first ELSE AddNode(f[j - 1], wheel[p][j], now)] BY <2>1
  <2>. QED BY <1>2, <1>3, <1>a, <2>2
<1>4. CASE k # 0
  <2>1. k - 1 \in Nat /\ k - 1 \notin Fails BY <1>1, <1>2, <1>4
  <2>2. PICK f : Moves(f, k - 1, p, now) BY <2>1
  <2>3. \A j \in 0 .. k - 1 : f[j] = IF j = 0 THEN first ELSE AddNode(f[j - 1], wheel[p][j], now)
    BY <2>2, <1>a
  <2> DEFINE h == [j \in 0 .. k |-> IF j = k THEN AddNode(f[k - 1], wheel[p][k], now) ELSE f[j]]
  <2>4. \A j \in 0 .. k - 1 : h[j] = f[j] BY <1>2
  <2>5. h[k] = AddNode(h[k - 1], wheel[p][k], now) BY <1>2, <1>4, <2>4
  <2>7. ASSUME NEW j \in 0 .. k
        PROVE  h[j] = IF j = 0 THEN first ELSE AddNode(h[j - 1], wheel[p][j], now)
    <3>1. CASE j = k BY <1>4, <2>5, <3>1
    <3>2. CASE j = 0 BY <1>2, <1>4, <2>3, <2>4, <3>2
    <3>3. CASE j # 0 /\ j # k
      <4>1. j \in 0 .. k - 1 /\ j - 1 \in 0 .. k - 1 BY <1>2, <3>3
      <4>. QED BY <2>3, <2>4, <3>3, <4>1
    <3>. QED BY <3>1, <3>2, <3>3
  <2>8. h = [j \in 0 .. k |-> h[j]] OBVIOUS
  <2> HIDE DEF h
  <2>9. h = [j \in 0 .. k |-> IF j = 0 THEN first ELSE AddNode(h[j - 1], wheel[p][j], now)]
    BY <2>7, <2>8
  <2>10. Moves(h, k, p, now) BY <2>9, <1>a
  <2>. QED BY <1>2, <2>10
<1>. QED BY <1>3, <1>4

LEMMA MoveListIs ==
  ASSUME NEW p, NEW now, Len(wheel[p]) \in Nat
  PROVE  \E f : /\ f[0] = [wheel EXCEPT ![p] = <<>>]
                /\ \A k \in 1 .. Len(wheel[p]) : f[k] = AddNode(f[k - 1], wheel[p][k], now)
                /\ MoveList(p, now) = f[Len(wheel[p])]
<1> DEFINE P(f) == f = [k \in 0 .. Len(wheel[p]) |->
                          IF k = 0 THEN [wheel EXCEPT ![p] = <<>>]
                          ELSE AddNode(f[k - 1], wheel[p][k], now)]
<1>1. \A f : P(f) <=> Moves(f, Len(wheel[p]), p, now) BY DEF Moves
<1>2. MoveList(p, now) = (CHOOSE f : P(f))[Len(wheel[p])] BY DEF MoveList
<1> HIDE DEF P
<1>3. \E f : P(f) BY <1>1, MovesExist
<1>4. P(CHOOSE f : P(f)) BY <1>3
<1>5. PICK f : f = CHOOSE g : P(g) OBVIOUS
<1>6. Moves(f, Len(wheel[p]), p, now) BY <1>1, <1>4, <1>5
<1>7. \A k \in 0 .. Len(wheel[p]) : f[k] = IF k = 0 THEN [wheel EXCEPT ![p] = <<>>]
                                           ELSE AddNode(f[k - 1], wheel[p][k], now)
  BY <1>6 DEF Moves
<1>8. f[0] = [wheel EXCEPT ![p] = <<>>]
  <2> DEFINE first == [wheel EXCEPT ![p] = <<>>]
             added(k) == AddNode(f[k - 1], wheel[p][k], now)
  <2>1. \A k \in 0 .. Len(wheel[p]) : f[k] = IF k = 0 THEN first ELSE added(k) BY <1>7
  <2>2. 0 \in 0 .. Len(wheel[p]) OBVIOUS
  <2> HIDE DEF first, added
  <2>3. f[0] = first BY <2>1, <2>2
  <2>. QED BY <2>3 DEF first
<1>9. \A k \in 1 .. Len(wheel[p]) : k \in 0 .. Len(wheel[p]) /\ k # 0 OBVIOUS
<1>. QED BY <1>2, <1>5, <1>7, <1>8, <1>9

(* The wheel when k nodes of the list p have been moved.                    *)
Carried(w, p, now, k) ==
  /\ IsWheel(w) /\ OnceOnly(w)
  /\ \A q \in Positions : \A i \in DOMAIN w[q] :
       \/ q # p /\ \E j \in DOMAIN wheel[q] : w[q][i] = wheel[q][j]
       \/ Place(w[q][i].expire, now) = q /\ \E m \in 1 .. k : w[q][i] = wheel[p][m]
  /\ \A q \in Positions : q # p => \A i \in DOMAIN wheel[q] : \E j \in DOMAIN w[q] : w[q][j] = wheel[q][i]
  /\ \A m \in 1 .. k : \E q \in Positions : \E j \in DOMAIN w[q] : w[q][j] = wheel[p][m]

LEMMA NoneCarried ==
  ASSUME IsWheel(wheel), OnceOnly(wheel), NEW p \in Positions, NEW now
  PROVE  Carried([wheel EXCEPT ![p] = <<>>], p, now, 0)
<1> DEFINE w == [wheel EXCEPT ![p] = <<>>]
<1>1. wheel \in [Positions -> Seq(TimerNode)] BY DEF IsWheel
<1>2. <<>> \in Seq(TimerNode) OBVIOUS
<1>3. w \in [Positions -> Seq(TimerNode)] /\ w[p] = <<>> /\ \A q \in Positions : q # p => w[q] = wheel[q]
  BY ONLY <1>1, <1>2, p \in Positions
<1>4. DOMAIN w[p] = {} BY <1>3
<1>5. \A m : m \notin 1 .. 0 OBVIOUS
<1> HIDE DEF w
<1>6. OnceOnly(w)
  <2> SUFFICES ASSUME NEW q \in Positions, NEW r \in Positions, NEW i \in DOMAIN w[q], NEW j \in DOMAIN w[r],
                      w[q][i].id = w[r][j].id
               PROVE  q = r /\ i = j
    BY DEF OnceOnly
  <2>1. q # p /\ r # p BY <1>4
  <2>2. w[q] = wheel[q] /\ w[r] = wheel[r] BY <1>3, <2>1
  <2>. QED BY <2>2 DEF OnceOnly
<1>. QED BY <1>3, <1>4, <1>5, <1>6 DEF w, Carried, IsWheel

LEMMA OneMoreCarried ==
  ASSUME IsWheel(wheel), OnceOnly(wheel), NEW p \in Positions, NEW now \in 0 .. Turn - 1, NEW w,
         NEW k \in 1 .. Len(wheel[p]), Carried(w, p, now, k - 1)
  PROVE  Carried(AddNode(w, wheel[p][k], now), p, now, k)
<1> DEFINE n == wheel[p][k]
           z == AddNode(w, n, now)
           place == Place(n.expire, now)
<1>1. wheel[p] \in Seq(TimerNode) BY DEF IsWheel
<1>2. Len(wheel[p]) \in Nat /\ DOMAIN wheel[p] = 1 .. Len(wheel[p]) BY <1>1
<1>3. n \in TimerNode /\ k \in DOMAIN wheel[p] BY <1>1, <1>2
<1>4. \A m \in 1 .. k - 1 : m \in 1 .. k /\ m \in DOMAIN wheel[p] /\ m # k BY <1>2
<1>5. k \in 1 .. k /\ \A m \in 1 .. k : m \in 1 .. k - 1 \/ m = k BY <1>2
<1>6. /\ IsWheel(w) /\ OnceOnly(w)
      /\ \A q \in Positions : \A i \in DOMAIN w[q] :
           \/ q # p /\ \E j \in DOMAIN wheel[q] : w[q][i] = wheel[q][j]
           \/ Place(w[q][i].expire, now) = q /\ \E m \in 1 .. k - 1 : w[q][i] = wheel[p][m]
      /\ \A q \in Positions : q # p => \A i \in DOMAIN wheel[q] : \E j \in DOMAIN w[q] : w[q][j] = wheel[q][i]
      /\ \A m \in 1 .. k - 1 : \E q \in Positions : \E j \in DOMAIN w[q] : w[q][j] = wheel[p][m]
  BY DEF Carried
<1>7. ASSUME NEW q \in Positions, NEW i \in DOMAIN w[q] PROVE w[q][i].id # n.id
  <2>1. CASE q # p /\ \E j \in DOMAIN wheel[q] : w[q][i] = wheel[q][j]
    BY <1>3, <2>1 DEF OnceOnly
  <2>2. CASE \E m \in 1 .. k - 1 : w[q][i] = wheel[p][m]
    BY <1>3, <1>4, <2>2 DEF OnceOnly
  <2>. QED BY <1>6, <2>1, <2>2
<1> HIDE DEF n, IsWheel, OnceOnly, Positions, Turn
<1>8. /\ place \in Positions /\ IsWheel(z)
      /\ \A q \in Positions : \A i \in DOMAIN z[q] :
           \/ i \in DOMAIN w[q] /\ z[q][i] = w[q][i]
           \/ q = place /\ i = Len(w[place]) + 1 /\ z[q][i] = n
      /\ \A q \in Positions : \A i \in DOMAIN w[q] : i \in DOMAIN z[q] /\ z[q][i] = w[q][i]
      /\ Len(w[place]) + 1 \in DOMAIN z[place] /\ z[place][Len(w[place]) + 1] = n
  BY <1>3, <1>6, NodeAdded
<1>9. OnceOnly(z) BY <1>3, <1>6, <1>7, NodeAddedOnce
<1>10. n = wheel[p][k] BY DEF n
<1> HIDE DEF z
<1>11. ASSUME NEW q \in Positions, NEW i \in DOMAIN z[q]
       PROVE  \/ q # p /\ \E j \in DOMAIN wheel[q] : z[q][i] = wheel[q][j]
              \/ Place(z[q][i].expire, now) = q /\ \E m \in 1 .. k : z[q][i] = wheel[p][m]
  <2>1. CASE i \in DOMAIN w[q] /\ z[q][i] = w[q][i]
    <3>1. \/ q # p /\ \E j \in DOMAIN wheel[q] : w[q][i] = wheel[q][j]
          \/ Place(w[q][i].expire, now) = q /\ \E m \in 1 .. k - 1 : w[q][i] = wheel[p][m]
      BY <1>6, <2>1
    <3>. QED BY <1>4, <2>1, <3>1
  <2>2. CASE q = place /\ z[q][i] = n
    BY <1>5, <1>10, <2>2
  <2>. QED BY <1>8, <2>1, <2>2
<1>12. ASSUME NEW q \in Positions, q # p, NEW i \in DOMAIN wheel[q]
       PROVE  \E j \in DOMAIN z[q] : z[q][j] = wheel[q][i]
  <2>1. PICK j \in DOMAIN w[q] : w[q][j] = wheel[q][i] BY <1>6, <1>12
  <2>. QED BY <1>8, <2>1
<1>13. ASSUME NEW m \in 1 .. k
       PROVE  \E q \in Positions : \E j \in DOMAIN z[q] : z[q][j] = wheel[p][m]
  <2>1. CASE m = k BY <1>8, <1>10, <2>1
  <2>2. CASE m \in 1 .. k - 1
    <3>1. PICK q \in Positions : \E j \in DOMAIN w[q] : w[q][j] = wheel[p][m] BY <1>6, <2>2
    <3>. QED BY <1>8, <3>1
  <2>. QED BY <1>5, <2>1, <2>2
<1>. QED BY <1>8, <1>9, <1>11, <1>12, <1>13 DEF Carried, z, n

LEMMA ListCarried ==
  ASSUME IsWheel(wheel), OnceOnly(wheel), NEW p \in Positions, NEW now \in 0 .. Turn - 1
  PROVE  Carried(MoveList(p, now), p, now, Len(wheel[p]))
<1>1. Len(wheel[p]) \in Nat
  <2>1. wheel[p] \in Seq(TimerNode) BY DEF IsWheel
  <2>. QED BY <2>1
<1>2. PICK f : /\ f[0] = [wheel EXCEPT ![p] = <<>>]
               /\ \A k \in 1 .. Len(wheel[p]) : f[k] = AddNode(f[k - 1], wheel[p][k], now)
               /\ MoveList(p, now) = f[Len(wheel[p])]
  BY <1>1, MoveListIs
<1> DEFINE Fails == {k \in Nat : k <= Len(wheel[p]) /\ ~Carried(f[k], p, now, k)}
<1>3. Fails = {}
  <2> SUFFICES ASSUME Fails # {} PROVE FALSE OBVIOUS
  <2>1. PICK k \in Fails : \A j \in Fails : k <= j BY LeastNumber
  <2>2. k \in Nat /\ k <= Len(wheel[p]) /\ ~Carried(f[k], p, now, k) OBVIOUS
  <2>3. k # 0
    <3>1. Carried(f[0], p, now, 0) BY <1>2, NoneCarried
    <3>. QED BY <2>2, <3>1
  <2>4. k - 1 \in Nat /\ k - 1 <= Len(wheel[p]) /\ k \in 1 .. Len(wheel[p]) /\ ~(k <= k - 1)
    BY <1>1, <2>2, <2>3
  <2>5. Carried(f[k - 1], p, now, k - 1) BY <2>1, <2>4
  <2>6. Carried(AddNode(f[k - 1], wheel[p][k], now), p, now, k) BY <2>4, <2>5, OneMoreCarried
  <2>. QED BY <1>2, <2>2, <2>4, <2>6
<1>4. Len(wheel[p]) <= Len(wheel[p]) BY <1>1
<1>5. Carried(f[Len(wheel[p])], p, now, Len(wheel[p])) BY <1>1, <1>3, <1>4
<1>. QED BY <1>2, <1>5

TimerType ==
  /\ time \in 0 .. Turn - 1 /\ IsWheel(wheel) /\ dispatching \in Seq(TimerNode)
  /\ tpc \in {"out", "exec0", "hand1", "exec1"}
  /\ remaining \in [Timers -> -1 .. Half - 1]

(* A timer in the wheel is due when its node says, and it is where add_node   *)
(* would put it now.                                                        *)
Placed ==
  \A p \in Positions : \A i \in DOMAIN wheel[p] :
    /\ remaining[wheel[p][i].id] >= 0
    /\ wheel[p][i].expire = (time + remaining[wheel[p][i].id]) % Turn
    /\ Place(wheel[p][i].expire, time) = p

(* A list that has been taken is due now, and its timers are nowhere else.    *)
Handed ==
  /\ dispatching # <<>> => tpc = "hand1"
  /\ \A i \in DOMAIN dispatching :
       /\ remaining[dispatching[i].id] = 0
       /\ \A j \in DOMAIN dispatching : dispatching[i].id = dispatching[j].id => i = j
       /\ \A p \in Positions : \A j \in DOMAIN wheel[p] : dispatching[i].id # wheel[p][j].id

(* No pending timer is forgotten.                                           *)
Somewhere(n) ==
  \/ \E p \in Positions : \E i \in DOMAIN wheel[p] : wheel[p][i].id = n
  \/ \E i \in DOMAIN dispatching : dispatching[i].id = n

Kept == \A n \in Timers : remaining[n] >= 0 => Somewhere(n)

NoneDue == tpc \in {"out", "exec0"} => \A n \in Timers : remaining[n] # 0

TimerInv == TimerType /\ Placed /\ OnceOnly(wheel) /\ Handed /\ Kept /\ NoneDue

LEMMA TimerBounds ==
  /\ Turn \in Nat \ {0, 1} /\ Half \in Nat \ {0} /\ Turn = 2 * Half
  /\ Timeouts = 1 .. Half - 1
<1>1. Block(0) \in Nat \ {0} /\ Block(0) <= Half /\ Half \in Nat /\ Turn = 2 * Half
  BY BlocksAre
<1>. QED BY <1>1 DEF Timeouts, Half

LEMMA OnTimeFollows == TimerInv => OnTime
<1> SUFFICES ASSUME TimerInv PROVE OnTime OBVIOUS
<1>1. \A n \in Timers : remaining[n] >= -1
  BY TimerBounds DEF TimerInv, TimerType
<1>. QED BY <1>1 DEF OnTime, TimerInv, Placed, Handed, NoneDue

LEMMA TimerInitInv == TimerInit => TimerInv
<1> SUFFICES ASSUME TimerInit PROVE TimerInv OBVIOUS
<1> USE DEF TimerInit
<1>1. time \in 0 .. Turn - 1 BY TimerBounds DEF Turn
<1>2. IsWheel(wheel)
  <2>1. <<>> \in Seq(TimerNode) OBVIOUS
  <2>. QED BY <2>1 DEF IsWheel
<1>3. remaining \in [Timers -> -1 .. Half - 1]
  <2>1. -1 \in -1 .. Half - 1 BY TimerBounds
  <2>. QED BY <2>1
<1>4. \A p \in Positions : DOMAIN wheel[p] = {} OBVIOUS
<1>5. DOMAIN dispatching = {} /\ dispatching \in Seq(TimerNode) OBVIOUS
<1>6. \A n \in Timers : remaining[n] = -1 OBVIOUS
<1>7. TimerType BY <1>1, <1>2, <1>3, <1>5 DEF TimerType
<1>8. Placed /\ OnceOnly(wheel) BY <1>4 DEF Placed, OnceOnly
<1>9. Handed /\ Kept /\ NoneDue BY <1>5, <1>6 DEF Handed, Kept, NoneDue
<1>. QED BY <1>7, <1>8, <1>9 DEF TimerInv

(* A timer is in the list of the tick when it is due at once, and only then.  *)
LEMMA DueIsNow ==
  ASSUME NEW t \in 0 .. Turn - 1, NEW r \in 0 .. Half - 1
  PROVE  Place((t + r) % Turn, t) = <<-1, t % 2 ^ NearShift>> <=> r = 0
<1>1. Turn \in Nat \ {0, 1} /\ Half \in Nat \ {0} /\ Turn = 2 * Half BY TimerBounds
<1>2. Block(0) \in Nat \ {0, 1} /\ Block(0) = 2 ^ NearShift BY BlocksAre
<1> DEFINE x == (t + r) % Turn
           b == Block(0)
<1>3. x \in 0 .. Turn - 1 /\ x = IF t + r < Turn THEN t + r ELSE t + r - Turn BY DueTick
<1>4. \/ x \div b = t \div b /\ Place(x, t) = <<-1, x % b>>
      \/ x \div b # t \div b /\ \E l \in 0 .. 3 : \E d : Place(x, t) = <<l, d>>
  <2>1. PICK i \in 0 .. 4 : First(x, t, i) BY <1>3, AllAgree
  <2>2. Place(x, t) = PlaceAt(x, i) BY <2>1, PlaceBy
  <2>3. x \div b = t \div b <=> i = 0
    <3>1. Agree(x, t, i) /\ \A j \in 0 .. i - 1 : ~Agree(x, t, j) BY <2>1 DEF First
    <3>2. i # 0 => 0 \in 0 .. i - 1 OBVIOUS
    <3>. QED BY <3>1, <3>2 DEF Agree
  <2>4. i = 0 => Place(x, t) = <<-1, x % b>> BY <2>2 DEF PlaceAt
  <2>5. i # 0 => Place(x, t) = <<i - 1, Digit(x, i - 1)>> /\ i - 1 \in 0 .. 3 BY <2>2 DEF PlaceAt
  <2>. QED BY <2>3, <2>4, <2>5
<1> HIDE DEF x, b, Turn, Half
<1>5. x \in Nat /\ t \in Nat /\ b \in Nat \ {0} BY <1>1, <1>2, <1>3 DEF b
<1>6. CASE r = 0
  <2>1. x = t BY <1>1, <1>3, <1>6
  <2>. QED BY <1>2, <1>4, <1>6, <2>1 DEF x, b
<1>7. CASE r # 0
  <2>1. x # t BY <1>1, <1>3, <1>7
  <2>2. x = b * (x \div b) + (x % b) /\ t = b * (t \div b) + (t % b) BY <1>5, QuotientAndRest
  <2>3. ~(x \div b = t \div b /\ x % b = t % b) BY <2>1, <2>2
  <2>4. Place(x, t) # <<-1, t % b>>
    <3> DEFINE c == x % b
               d == t % b
    <3> HIDE DEF c, d
    <3>1. CASE x \div b = t \div b /\ Place(x, t) = <<-1, c>>
      <4>1. c # d BY <2>3, <3>1 DEF c, d
      <4>2. <<-1, c>> # <<-1, d>> BY <4>1
      <4>. QED BY <3>1, <4>2 DEF d
    <3>2. CASE \E l \in 0 .. 3 : \E e : Place(x, t) = <<l, e>>
      <4>1. PICK l \in 0 .. 3 : \E e : Place(x, t) = <<l, e>> BY <3>2
      <4>2. PICK e : Place(x, t) = <<l, e>> BY <4>1
      <4>3. l # -1 OBVIOUS
      <4>4. <<l, e>> # <<-1, d>> BY <4>3
      <4>. QED BY <4>2, <4>4 DEF d
    <3>3. \/ Place(x, t) = <<-1, c>> /\ x \div b = t \div b
          \/ \E l \in 0 .. 3 : \E e : Place(x, t) = <<l, e>>
      BY <1>4 DEF c
    <3>. QED BY <3>1, <3>2, <3>3
  <2>. QED BY <1>2, <1>7, <2>4 DEF x, b
<1>. QED BY <1>6, <1>7

(* The same of a timer in the wheel.                                        *)
LEMMA DueList ==
  ASSUME TimerInv
  PROVE  /\ Due \in Positions /\ wheel[Due] \in Seq(TimerNode)
         /\ \A i \in DOMAIN wheel[Due] : remaining[wheel[Due][i].id] = 0
         /\ \A p \in Positions : p # Due => \A i \in DOMAIN wheel[p] : remaining[wheel[p][i].id] # 0
         /\ \A p \in Positions : \A i \in DOMAIN wheel[p] :
              /\ wheel[p][i] \in TimerNode /\ wheel[p][i].id \in Timers
              /\ remaining[wheel[p][i].id] \in 0 .. Half - 1
<1> USE DEF TimerInv, TimerType
<1>1. Due \in Positions
  <2>1. time \in Nat /\ Block(0) \in Nat \ {0} /\ Block(0) = 2 ^ NearShift BY BlocksAre
  <2>2. time % Block(0) \in 0 .. Block(0) - 1 BY <2>1, QuotientAndRest
  <2>3. time % 2 ^ NearShift \in 0 .. 2 ^ NearShift - 1 BY <2>1, <2>2
  <2> DEFINE d == time % 2 ^ NearShift
  <2> HIDE DEF d
  <2>4. <<-1, d>> \in {-1} \X (0 .. 2 ^ NearShift - 1) BY <2>3 DEF d
  <2>. QED BY <2>4 DEF Due, Positions, d
<1>2. ASSUME NEW p \in Positions PROVE wheel[p] \in Seq(TimerNode)
  BY <1>2 DEF IsWheel
<1>3. ASSUME NEW p \in Positions, NEW i \in DOMAIN wheel[p]
      PROVE  /\ wheel[p][i] \in TimerNode /\ wheel[p][i].id \in Timers
             /\ remaining[wheel[p][i].id] \in 0 .. Half - 1
  <2>1. wheel[p][i] \in TimerNode BY <1>2
  <2>2. wheel[p][i].id \in Timers BY <2>1 DEF TimerNode
  <2>3. remaining[wheel[p][i].id] >= 0 BY DEF Placed
  <2>4. remaining[wheel[p][i].id] \in -1 .. Half - 1 BY <2>2
  <2>. QED BY <2>1, <2>2, <2>3, <2>4, TimerBounds
<1>4. ASSUME NEW p \in Positions, NEW i \in DOMAIN wheel[p]
      PROVE  p = Due <=> remaining[wheel[p][i].id] = 0
  <2> DEFINE r == remaining[wheel[p][i].id]
  <2>1. r \in 0 .. Half - 1 BY <1>3
  <2>2. wheel[p][i].expire = (time + r) % Turn /\ Place(wheel[p][i].expire, time) = p BY DEF Placed
  <2>3. time \in 0 .. Turn - 1 OBVIOUS
  <2> HIDE DEF r
  <2>4. Place((time + r) % Turn, time) = <<-1, time % 2 ^ NearShift>> <=> r = 0
    BY <2>1, <2>3, DueIsNow
  <2>5. p = <<-1, time % 2 ^ NearShift>> <=> r = 0 BY <2>2, <2>4
  <2>. QED BY <2>5 DEF Due, r
<1>. QED BY <1>1, <1>2, <1>3, <1>4

LEMMA TimerAddKeeps ==
  ASSUME TimerInv, NEW n \in Timers, NEW wait \in Timeouts, TimerAdd(n, wait)
  PROVE  TimerInv'
<1> DEFINE node == [id |-> n, expire |-> (time + wait) % Turn]
           place == Place(node.expire, time)
<1>1. /\ TimerType /\ Placed /\ OnceOnly(wheel) /\ Handed /\ Kept /\ NoneDue
      /\ tpc # "exec0" /\ tpc # "exec1" /\ remaining[n] = -1
      /\ wheel' = AddNode(wheel, node, time)
      /\ remaining' = [remaining EXCEPT ![n] = wait]
      /\ time' = time /\ dispatching' = dispatching /\ tpc' = tpc
  BY DEF TimerInv, TimerAdd, Unlocked, Turn
<1>2. wait \in 1 .. Half - 1 /\ wait \in 0 .. Half - 1 /\ wait \in -1 .. Half - 1
  BY TimerBounds
<1>3. node \in TimerNode
  <2>1. (time + wait) % Turn \in 0 .. Turn - 1 BY <1>1, <1>2, DueTick DEF TimerType
  <2>. QED BY <2>1 DEF TimerNode
<1>4. \A p \in Positions : \A i \in DOMAIN wheel[p] : wheel[p][i].id \in Timers /\ wheel[p][i].id # n
  BY <1>1, DueList DEF Placed
<1>5. remaining' \in [Timers -> -1 .. Half - 1] /\ remaining'[n] = wait
      /\ \A m \in Timers : m # n => remaining'[m] = remaining[m]
  BY <1>1, <1>2 DEF TimerType
<1>6. node.id = n /\ node.expire = (time + wait) % Turn OBVIOUS
<1>7. IsWheel(wheel) /\ time \in 0 .. Turn - 1 BY <1>1 DEF TimerType
<1> HIDE DEF node
<1>8. /\ place \in Positions /\ IsWheel(wheel')
      /\ \A q \in Positions : \A i \in DOMAIN wheel'[q] :
           \/ i \in DOMAIN wheel[q] /\ wheel'[q][i] = wheel[q][i]
           \/ q = place /\ i = Len(wheel[place]) + 1 /\ wheel'[q][i] = node
      /\ \A q \in Positions : \A i \in DOMAIN wheel[q] : i \in DOMAIN wheel'[q] /\ wheel'[q][i] = wheel[q][i]
      /\ Len(wheel[place]) + 1 \in DOMAIN wheel'[place] /\ wheel'[place][Len(wheel[place]) + 1] = node
  BY <1>1, <1>3, <1>7, NodeAdded
<1>9. OnceOnly(wheel')
  <2>1. \A p \in Positions : \A i \in DOMAIN wheel[p] : wheel[p][i].id # node.id BY <1>4, <1>6
  <2>. QED BY <1>1, <1>3, <1>7, <2>1, NodeAddedOnce
<1>10. TimerType' BY <1>1, <1>5, <1>8 DEF TimerType, Turn, Half, TimerNode, IsWheel, Positions
<1>11. Placed'
  <2> SUFFICES ASSUME NEW p \in Positions, NEW i \in DOMAIN wheel'[p]
               PROVE  /\ remaining'[wheel'[p][i].id] >= 0
                      /\ wheel'[p][i].expire = (time + remaining'[wheel'[p][i].id]) % Turn
                      /\ Place(wheel'[p][i].expire, time) = p
    BY <1>1 DEF Placed, Turn, Positions
  <2>1. CASE i \in DOMAIN wheel[p] /\ wheel'[p][i] = wheel[p][i]
    <3>1. remaining'[wheel[p][i].id] = remaining[wheel[p][i].id] BY <1>4, <1>5, <2>1
    <3>2. /\ remaining[wheel[p][i].id] >= 0
          /\ wheel[p][i].expire = (time + remaining[wheel[p][i].id]) % Turn
          /\ Place(wheel[p][i].expire, time) = p
      BY <1>1, <2>1 DEF Placed
    <3>. QED BY <2>1, <3>1, <3>2
  <2>2. CASE p = place /\ wheel'[p][i] = node
    <3>1. wait >= 0 BY <1>2
    <3>. QED BY <1>5, <1>6, <2>2, <3>1
  <2>. QED BY <1>8, <2>1, <2>2
<1>12. Handed'
  <2>1. ASSUME NEW i \in DOMAIN dispatching
        PROVE  /\ remaining'[dispatching[i].id] = 0
               /\ \A p \in Positions : \A j \in DOMAIN wheel'[p] : dispatching[i].id # wheel'[p][j].id
    <3>1. dispatching[i].id \in Timers /\ remaining[dispatching[i].id] = 0
      <4>1. dispatching \in Seq(TimerNode) BY <1>1 DEF TimerType
      <4>2. dispatching[i] \in TimerNode BY <4>1
      <4>. QED BY <1>1, <4>2 DEF TimerNode, Handed
    <3>2. dispatching[i].id # n BY <1>1, <3>1
    <3>3. remaining'[dispatching[i].id] = 0 BY <1>5, <3>1, <3>2
    <3>4. ASSUME NEW p \in Positions, NEW j \in DOMAIN wheel'[p]
          PROVE  dispatching[i].id # wheel'[p][j].id
      <4>1. CASE j \in DOMAIN wheel[p] /\ wheel'[p][j] = wheel[p][j] BY <1>1, <4>1 DEF Handed
      <4>2. CASE wheel'[p][j] = node BY <1>6, <3>2, <4>2
      <4>. QED BY <1>8, <4>1, <4>2
    <3>. QED BY <3>3, <3>4
  <2>. QED BY <1>1, <2>1 DEF Handed, Positions
<1>13. Kept'
  <2> SUFFICES ASSUME NEW m \in Timers, remaining'[m] >= 0 PROVE Somewhere(m)' BY DEF Kept
  <2>1. CASE m = n
    <3>1. wheel'[place][Len(wheel[place]) + 1].id = m BY <1>6, <1>8, <2>1
    <3>. QED BY <1>8, <3>1 DEF Somewhere, Positions
  <2>2. CASE m # n
    <3>1. Somewhere(m) BY <1>1, <1>5, <2>2 DEF Kept
    <3>2. CASE \E p \in Positions : \E i \in DOMAIN wheel[p] : wheel[p][i].id = m
      BY <1>8, <3>2 DEF Somewhere, Positions
    <3>3. CASE \E i \in DOMAIN dispatching : dispatching[i].id = m BY <1>1, <3>3 DEF Somewhere
    <3>. QED BY <3>1, <3>2, <3>3 DEF Somewhere
  <2>. QED BY <2>1, <2>2
<1>14. NoneDue'
  <2>1. wait # 0 BY <1>2
  <2>. QED BY <1>1, <1>5, <2>1 DEF NoneDue
<1>15. OnceOnly(wheel)' BY <1>9 DEF OnceOnly, Positions
<1>. QED BY <1>10, <1>11, <1>12, <1>13, <1>14, <1>15 DEF TimerInv

(* What changes no list and no timer.                                       *)
LEMMA TimerQuiet ==
  ASSUME TimerInv, UNCHANGED <<time, wheel, dispatching, remaining>>,
         tpc' = tpc \/ (tpc = "out" /\ tpc' = "exec0") \/ (dispatching = <<>> /\ tpc' = "exec1")
  PROVE  TimerInv'
<1>1. TimerType' BY DEF TimerInv, TimerType, IsWheel, TimerNode, Turn, Half, Positions
<1>2. Placed' BY DEF TimerInv, Placed, Turn, Positions
<1>3. OnceOnly(wheel)' BY DEF TimerInv, OnceOnly, Positions
<1>4. Handed' BY DEF TimerInv, Handed, Positions
<1>5. Kept' BY DEF TimerInv, Kept, Somewhere, Positions
<1>6. NoneDue' BY DEF TimerInv, NoneDue
<1>. QED BY <1>1, <1>2, <1>3, <1>4, <1>5, <1>6 DEF TimerInv

LEMMA ExecuteKeeps ==
  ASSUME TimerInv, Execute
  PROVE  TimerInv'
<1>1. /\ TimerType /\ Placed /\ OnceOnly(wheel) /\ Handed /\ Kept /\ NoneDue
      /\ tpc \in {"exec0", "exec1"} /\ wheel[Due] # <<>>
      /\ dispatching' = wheel[Due] /\ wheel' = [wheel EXCEPT ![Due] = <<>>]
      /\ tpc' = IF tpc = "exec0" THEN "hand0" ELSE "hand1"
      /\ time' = time /\ remaining' = remaining
  BY DEF TimerInv, Execute
<1>2. /\ Due \in Positions /\ wheel[Due] \in Seq(TimerNode)
      /\ \A i \in DOMAIN wheel[Due] : remaining[wheel[Due][i].id] = 0
      /\ \A p \in Positions : \A i \in DOMAIN wheel[p] :
              /\ wheel[p][i] \in TimerNode /\ wheel[p][i].id \in Timers
              /\ remaining[wheel[p][i].id] \in 0 .. Half - 1
  BY DueList
<1>3. PICK k : k \in DOMAIN wheel[Due]
  <2>1. wheel[Due] # <<>> /\ wheel[Due] \in Seq(TimerNode) BY <1>1, <1>2
  <2>2. Len(wheel[Due]) \in Nat \ {0} /\ DOMAIN wheel[Due] = 1 .. Len(wheel[Due]) BY ONLY <2>1
  <2>3. 1 \in 1 .. Len(wheel[Due]) BY <2>2
  <2>. QED BY <2>2, <2>3
<1>4. tpc = "exec1" /\ tpc' = "hand1"
  <2>1. tpc # "exec0" BY <1>1, <1>2, <1>3 DEF NoneDue
  <2>. QED BY <1>1, <2>1
<1>5. dispatching = <<>> BY <1>1, <1>4 DEF Handed
<1>6. IsWheel(wheel') /\ wheel'[Due] = <<>> /\ \A p \in Positions : p # Due => wheel'[p] = wheel[p]
  <2>1. wheel \in [Positions -> Seq(TimerNode)] BY <1>1 DEF TimerType, IsWheel
  <2>2. <<>> \in Seq(TimerNode) OBVIOUS
  <2> DEFINE d == Due
  <2>3. d \in Positions /\ wheel' = [wheel EXCEPT ![d] = <<>>] BY <1>1, <1>2
  <2> HIDE DEF d
  <2>4. wheel' \in [Positions -> Seq(TimerNode)] /\ wheel'[d] = <<>> /\ \A p \in Positions : p # d => wheel'[p] = wheel[p]
    BY ONLY <2>1, <2>2, <2>3
  <2>. QED BY <2>4 DEF d, IsWheel
<1>7. DOMAIN wheel'[Due] = {} BY <1>6
<1>8. \A p \in Positions : \A i \in DOMAIN wheel'[p] : p # Due /\ i \in DOMAIN wheel[p] /\ wheel'[p][i] = wheel[p][i]
  BY <1>6, <1>7
<1> HIDE DEF Due
<1>9. TimerType'
  BY <1>1, <1>2, <1>4, <1>6 DEF TimerType, Turn, Half, TimerNode, IsWheel, Positions
<1>10. Placed' BY <1>1, <1>8 DEF Placed, Turn, Positions
<1>11. OnceOnly(wheel')
  <2> SUFFICES ASSUME NEW p \in Positions, NEW q \in Positions, NEW i \in DOMAIN wheel'[p], NEW j \in DOMAIN wheel'[q],
                      wheel'[p][i].id = wheel'[q][j].id
               PROVE  p = q /\ i = j
    BY DEF OnceOnly
  <2>1. /\ i \in DOMAIN wheel[p] /\ wheel'[p][i] = wheel[p][i]
        /\ j \in DOMAIN wheel[q] /\ wheel'[q][j] = wheel[q][j]
    BY <1>8
  <2>. QED BY <1>1, <2>1 DEF OnceOnly
<1>12. Handed'
  <2>1. ASSUME NEW i \in DOMAIN wheel[Due]
        PROVE  /\ remaining[wheel[Due][i].id] = 0
               /\ \A j \in DOMAIN wheel[Due] : wheel[Due][i].id = wheel[Due][j].id => i = j
               /\ \A p \in Positions : \A j \in DOMAIN wheel'[p] : wheel[Due][i].id # wheel'[p][j].id
    <3>1. remaining[wheel[Due][i].id] = 0 BY <1>2
    <3>2. \A j \in DOMAIN wheel[Due] : wheel[Due][i].id = wheel[Due][j].id => i = j
      BY <1>1, <1>2 DEF OnceOnly
    <3>3. ASSUME NEW p \in Positions, NEW j \in DOMAIN wheel'[p] PROVE wheel[Due][i].id # wheel'[p][j].id
      <4>1. p # Due /\ j \in DOMAIN wheel[p] /\ wheel'[p][j] = wheel[p][j] BY <1>8
      <4>. QED BY <1>1, <1>2, <4>1 DEF OnceOnly
    <3>. QED BY <3>1, <3>2, <3>3
  <2>. QED BY <1>1, <1>4, <2>1 DEF Handed, Positions
<1>13. Kept'
  <2> SUFFICES ASSUME NEW m \in Timers, remaining[m] >= 0 PROVE Somewhere(m)' BY <1>1 DEF Kept
  <2>1. Somewhere(m) BY <1>1 DEF Kept
  <2>2. DOMAIN dispatching = {} BY <1>5
  <2>3. PICK p \in Positions : \E i \in DOMAIN wheel[p] : wheel[p][i].id = m
    BY <2>1, <2>2 DEF Somewhere
  <2>4. PICK i \in DOMAIN wheel[p] : wheel[p][i].id = m BY <2>3
  <2>5. CASE p = Due
    <3>1. i \in DOMAIN dispatching' /\ dispatching'[i].id = m BY <1>1, <2>4, <2>5
    <3>. QED BY <3>1 DEF Somewhere
  <2>6. CASE p # Due
    <3>1. i \in DOMAIN wheel'[p] /\ wheel'[p][i].id = m BY <1>6, <2>4, <2>6
    <3>. QED BY <3>1 DEF Somewhere, Positions
  <2>. QED BY <2>5, <2>6
<1>14. NoneDue' BY <1>4 DEF NoneDue
<1>15. OnceOnly(wheel)' BY <1>11 DEF OnceOnly, Positions
<1>. QED BY <1>9, <1>10, <1>12, <1>13, <1>14, <1>15 DEF TimerInv

LEMMA DispatchKeeps ==
  ASSUME TimerInv, DispatchNode
  PROVE  TimerInv'
<1>1. /\ TimerType /\ Placed /\ OnceOnly(wheel) /\ Handed /\ Kept /\ NoneDue
      /\ time' = time /\ wheel' = wheel
  BY DEF TimerInv, DispatchNode
<1>2. tpc = "hand1" BY <1>1 DEF TimerType, DispatchNode
<1>3. CASE dispatching = <<>>
  <2>1. UNCHANGED <<time, wheel, dispatching, remaining>> /\ tpc' = "exec1"
    BY <1>1, <1>2, <1>3 DEF DispatchNode
  <2>. QED BY <1>3, <2>1, TimerQuiet
<1>4. CASE dispatching # <<>>
  <2> DEFINE n == Head(dispatching).id
  <2>1. /\ remaining' = [remaining EXCEPT ![n] = -1]
        /\ dispatching' = Tail(dispatching) /\ tpc' = tpc
    BY <1>4 DEF DispatchNode
  <2>2. dispatching \in Seq(TimerNode) BY <1>1 DEF TimerType
  <2>3. /\ Len(dispatching) \in Nat \ {0} /\ DOMAIN dispatching = 1 .. Len(dispatching)
        /\ 1 \in DOMAIN dispatching /\ dispatching[1] \in TimerNode /\ Head(dispatching) = dispatching[1]
        /\ dispatching' \in Seq(TimerNode)
        /\ DOMAIN dispatching' = 1 .. Len(dispatching) - 1
        /\ \A i \in DOMAIN dispatching' : dispatching'[i] = dispatching[i + 1] /\ i + 1 \in DOMAIN dispatching
    BY ONLY <1>4, <2>1, <2>2
  <2>4. n \in Timers /\ n = dispatching[1].id BY <2>3 DEF TimerNode
  <2> HIDE DEF n
  <2>5. /\ remaining'[n] = -1 /\ remaining' \in [Timers -> -1 .. Half - 1]
        /\ \A m \in Timers : m # n => remaining'[m] = remaining[m]
    <3>1. -1 \in -1 .. Half - 1 BY TimerBounds
    <3>. QED BY <1>1, <2>1, <2>4, <3>1 DEF TimerType
  <2>6. \A p \in Positions : \A i \in DOMAIN wheel[p] : wheel[p][i].id \in Timers /\ wheel[p][i].id # n
    BY <1>1, <2>3, <2>4, DueList DEF Handed
  <2>7. TimerType'
    BY <1>1, <1>2, <2>1, <2>3, <2>5 DEF TimerType, Turn, Half, TimerNode, IsWheel, Positions
  <2>8. Placed'
    <3>1. \A p \in Positions : \A i \in DOMAIN wheel[p] : remaining'[wheel[p][i].id] = remaining[wheel[p][i].id]
      BY <2>5, <2>6
    <3>. QED BY <1>1, <3>1 DEF Placed, Turn, Positions
  <2>9. OnceOnly(wheel)' BY <1>1 DEF OnceOnly, Positions
  <2>10. Handed'
    <3>1. ASSUME NEW i \in DOMAIN dispatching'
          PROVE  /\ remaining'[dispatching'[i].id] = 0
                 /\ \A j \in DOMAIN dispatching' : dispatching'[i].id = dispatching'[j].id => i = j
                 /\ \A p \in Positions : \A j \in DOMAIN wheel[p] : dispatching'[i].id # wheel[p][j].id
      <4>1. i \in Nat \ {0} /\ i + 1 # 1 /\ i + 1 \in DOMAIN dispatching /\ dispatching'[i] = dispatching[i + 1]
        BY <2>3
      <4>2. dispatching[i + 1].id \in Timers /\ dispatching[i + 1].id # n /\ remaining[dispatching[i + 1].id] = 0
        <5>1. dispatching[i + 1] \in TimerNode BY <2>2, <4>1
        <5>. QED BY <1>1, <2>3, <2>4, <4>1, <5>1 DEF Handed, TimerNode
      <4>3. remaining'[dispatching'[i].id] = 0 BY <2>5, <4>1, <4>2
      <4>4. ASSUME NEW j \in DOMAIN dispatching', dispatching'[i].id = dispatching'[j].id PROVE i = j
        <5>1. j \in Nat /\ j + 1 \in DOMAIN dispatching /\ dispatching'[j] = dispatching[j + 1] BY <2>3
        <5>2. i + 1 = j + 1 BY <1>1, <4>1, <4>4, <5>1 DEF Handed
        <5>. QED BY <4>1, <5>1, <5>2
      <4>5. \A p \in Positions : \A j \in DOMAIN wheel[p] : dispatching'[i].id # wheel[p][j].id
        BY <1>1, <4>1 DEF Handed
      <4>. QED BY <4>3, <4>4, <4>5
    <3>. QED BY <1>1, <1>2, <2>1, <3>1 DEF Handed, Positions
  <2>11. Kept'
    <3> SUFFICES ASSUME NEW m \in Timers, remaining'[m] >= 0 PROVE Somewhere(m)' BY DEF Kept
    <3>1. m # n BY <2>5
    <3>2. Somewhere(m) BY <1>1, <2>5, <3>1 DEF Kept
    <3>3. CASE \E p \in Positions : \E i \in DOMAIN wheel[p] : wheel[p][i].id = m
      BY <1>1, <3>3 DEF Somewhere, Positions
    <3>4. CASE \E i \in DOMAIN dispatching : dispatching[i].id = m
      <4>1. PICK i \in DOMAIN dispatching : dispatching[i].id = m BY <3>4
      <4>2. i # 1 BY <2>4, <3>1, <4>1
      <4>3. i - 1 \in DOMAIN dispatching' /\ i - 1 + 1 = i BY <2>3, <4>2
      <4>4. dispatching'[i - 1].id = m BY <2>3, <4>1, <4>3
      <4>. QED BY <4>3, <4>4 DEF Somewhere
    <3>. QED BY <3>2, <3>3, <3>4 DEF Somewhere
  <2>12. NoneDue' BY <1>2, <2>1 DEF NoneDue
  <2>. QED BY <2>7, <2>8, <2>9, <2>10, <2>11, <2>12 DEF TimerInv
<1>. QED BY <1>3, <1>4

(* One tick later a timer waits one tick less.                              *)
LEMMA TickLater ==
  ASSUME NEW t \in 0 .. Turn - 1, NEW r \in 1 .. Half - 1
  PROVE  (t + r) % Turn = (((t + 1) % Turn) + (r - 1)) % Turn
<1> DEFINE u == (t + 1) % Turn
<1>1. Turn \in Nat \ {0, 1} /\ Half \in Nat \ {0} /\ Turn = 2 * Half BY TimerBounds
<1>2. r \in 0 .. Half - 1 /\ r - 1 \in 0 .. Half - 1 BY <1>1
<1>3. u \in 0 .. Turn - 1 /\ u = IF t = Turn - 1 THEN 0 ELSE t + 1 BY NextTick
<1>4. (t + r) % Turn = IF t + r < Turn THEN t + r ELSE t + r - Turn BY <1>2, DueTick
<1> HIDE DEF u
<1>5. (u + (r - 1)) % Turn = IF u + (r - 1) < Turn THEN u + (r - 1) ELSE u + (r - 1) - Turn
  BY <1>2, <1>3, DueTick
<1> DEFINE y == (t + r) % Turn
           z == (u + (r - 1)) % Turn
<1>6. y = IF t + r < Turn THEN t + r ELSE t + r - Turn BY <1>4
<1>7. z = IF u + (r - 1) < Turn THEN u + (r - 1) ELSE u + (r - 1) - Turn BY <1>5
<1> HIDE DEF y, z, Turn, Half
<1>8. y = z BY <1>1, <1>3, <1>6, <1>7
<1>. QED BY <1>8 DEF y, z, u

(* After the shift every timer is where it belongs at the new tick.          *)
LEMMA ShiftPlaces ==
  ASSUME TimerInv, tpc = "exec0"
  PROVE  LET u == (time + 1) % Turn
             w == Shifted(u)
         IN /\ IsWheel(w) /\ OnceOnly(w)
            /\ \A q \in Positions : \A i \in DOMAIN w[q] :
                 /\ Place(w[q][i].expire, u) = q
                 /\ \E p \in Positions : \E j \in DOMAIN wheel[p] : w[q][i] = wheel[p][j]
            /\ \A p \in Positions : \A j \in DOMAIN wheel[p] :
                 \E q \in Positions : \E i \in DOMAIN w[q] : w[q][i] = wheel[p][j]
<1> DEFINE u == (time + 1) % Turn
           w == Shifted(u)
<1>1. TimerType /\ Placed /\ OnceOnly(wheel) /\ NoneDue BY DEF TimerInv
<1>2. time \in 0 .. Turn - 1 /\ IsWheel(wheel) BY <1>1 DEF TimerType
<1>3. u \in 0 .. Turn - 1 BY <1>2, NextTick
<1>4. PICK e \in -1 .. 3 :
        /\ Begins(u, e)
        /\ Shifted(u) = IF e = -1 THEN wheel ELSE MoveList(<<e, Digit(u, e)>>, u)
  BY <1>3, ShiftsLevel
<1> DEFINE down == <<e, Digit(u, e)>>
<1>5. ASSUME NEW p \in Positions, NEW j \in DOMAIN wheel[p], e = -1 \/ p # down
      PROVE  Place(wheel[p][j].expire, u) = p
  <2> DEFINE r == remaining[wheel[p][j].id]
  <2>1. wheel[p][j].id \in Timers /\ r \in 0 .. Half - 1 BY DueList
  <2>2. r # 0 BY <1>1, <2>1 DEF NoneDue
  <2>3. wheel[p][j].expire = (time + r) % Turn /\ Place(wheel[p][j].expire, time) = p BY <1>1 DEF Placed
  <2>4. r \in 1 .. Half - 1 BY <2>1, <2>2, TimerBounds
  <2> HIDE DEF r
  <2>5. \/ Place((time + r) % Turn, u) = Place((time + r) % Turn, time)
        \/ e # -1 /\ Place((time + r) % Turn, time) = down
    BY <1>2, <1>4, <2>4, StillPlaced
  <2>. QED BY <1>5, <2>3, <2>5
<1> HIDE DEF u, down
<1>6. CASE e = -1
  <2>1. w = wheel BY <1>4, <1>6
  <2> HIDE DEF w
  <2>. QED BY <1>1, <1>2, <1>5, <1>6, <2>1 DEF w, u
<1>7. CASE e # -1
  <2>1. down \in Positions
    <3>1. u \in Nat /\ e \in 0 .. 3 BY <1>3, <1>7, TimerBounds
    <3>2. Digit(u, e) \in 0 .. Side - 1 BY <3>1, OneLevelUp
    <3> DEFINE d == Digit(u, e)
    <3> HIDE DEF d
    <3>3. <<e, d>> \in (0 .. 3) \X (0 .. 2 ^ LevelShift - 1) BY <3>1, <3>2 DEF d, Side
    <3>. QED BY <3>3 DEF d, down, Positions
  <2>2. w = MoveList(down, u) BY <1>4, <1>7 DEF down
  <2>3. Carried(w, down, u, Len(wheel[down])) BY <1>1, <1>2, <1>3, <2>1, <2>2, ListCarried
  <2>4. DOMAIN wheel[down] = 1 .. Len(wheel[down])
    <3>1. wheel[down] \in Seq(TimerNode) BY <1>2, <2>1 DEF IsWheel
    <3>. QED BY <3>1
  <2> HIDE DEF w
  <2>5. ASSUME NEW q \in Positions, NEW i \in DOMAIN w[q]
        PROVE  /\ Place(w[q][i].expire, u) = q
               /\ \E p \in Positions : \E j \in DOMAIN wheel[p] : w[q][i] = wheel[p][j]
    <3>1. CASE q # down /\ \E j \in DOMAIN wheel[q] : w[q][i] = wheel[q][j]
      BY <1>5, <3>1
    <3>2. CASE Place(w[q][i].expire, u) = q /\ \E m \in 1 .. Len(wheel[down]) : w[q][i] = wheel[down][m]
      BY <2>1, <2>4, <3>2
    <3>. QED BY <2>3, <3>1, <3>2 DEF Carried
  <2>6. ASSUME NEW p \in Positions, NEW j \in DOMAIN wheel[p]
        PROVE  \E q \in Positions : \E i \in DOMAIN w[q] : w[q][i] = wheel[p][j]
    <3>1. CASE p = down BY <2>3, <2>4, <3>1 DEF Carried
    <3>2. CASE p # down BY <2>3, <3>2 DEF Carried
    <3>. QED BY <3>1, <3>2
  <2>. QED BY <2>3, <2>5, <2>6 DEF Carried, w, u
<1>. QED BY <1>6, <1>7

LEMMA TimerShiftKeeps ==
  ASSUME TimerInv, TimerShift
  PROVE  TimerInv'
<1> DEFINE u == (time + 1) % Turn
<1>1. /\ TimerType /\ Placed /\ OnceOnly(wheel) /\ Handed /\ Kept /\ NoneDue
      /\ tpc = "exec0" /\ tpc' = "exec1" /\ time' = u /\ wheel' = Shifted(u)
      /\ remaining' = [n \in Timers |-> IF remaining[n] = -1 THEN -1 ELSE remaining[n] - 1]
      /\ dispatching' = dispatching
  BY DEF TimerInv, TimerShift, Turn
<1>2. dispatching = <<>> BY <1>1 DEF Handed
<1>3. time \in 0 .. Turn - 1 /\ u \in 0 .. Turn - 1 BY <1>1, NextTick DEF TimerType
<1>4. /\ IsWheel(wheel') /\ OnceOnly(wheel')
      /\ \A q \in Positions : \A i \in DOMAIN wheel'[q] :
           /\ Place(wheel'[q][i].expire, u) = q
           /\ \E p \in Positions : \E j \in DOMAIN wheel[p] : wheel'[q][i] = wheel[p][j]
      /\ \A p \in Positions : \A j \in DOMAIN wheel[p] :
           \E q \in Positions : \E i \in DOMAIN wheel'[q] : wheel'[q][i] = wheel[p][j]
  BY <1>1, ShiftPlaces
<1>5. remaining' \in [Timers -> -1 .. Half - 1]
      /\ \A n \in Timers : /\ remaining'[n] >= 0 => remaining[n] >= 0
                           /\ remaining[n] > 0 => remaining'[n] = remaining[n] - 1
  <2>1. ASSUME NEW n \in Timers
        PROVE  /\ remaining'[n] = IF remaining[n] = -1 THEN -1 ELSE remaining[n] - 1
               /\ remaining[n] \in -1 .. Half - 1 /\ remaining[n] # 0
    BY <1>1 DEF TimerType, NoneDue
  <2>2. ASSUME NEW n \in Timers
        PROVE  /\ remaining'[n] \in -1 .. Half - 1
               /\ remaining'[n] >= 0 => remaining[n] >= 0
               /\ remaining[n] > 0 => remaining'[n] = remaining[n] - 1
    BY <2>1, TimerBounds
  <2>. QED BY <1>1, <2>2
<1> HIDE DEF u
<1>6. TimerType'
  BY <1>1, <1>2, <1>3, <1>4, <1>5 DEF TimerType, Turn, Half, TimerNode, IsWheel, Positions
<1>7. Placed'
  <2> SUFFICES ASSUME NEW q \in Positions, NEW i \in DOMAIN wheel'[q]
               PROVE  /\ remaining'[wheel'[q][i].id] >= 0
                      /\ wheel'[q][i].expire = (u + remaining'[wheel'[q][i].id]) % Turn
                      /\ Place(wheel'[q][i].expire, u) = q
    BY <1>1 DEF Placed, Turn, Positions
  <2>1. PICK p \in Positions : \E j \in DOMAIN wheel[p] : wheel'[q][i] = wheel[p][j] BY <1>4
  <2>2. PICK j \in DOMAIN wheel[p] : wheel'[q][i] = wheel[p][j] BY <2>1
  <2> DEFINE n == wheel[p][j].id
             r == remaining[n]
  <2>3. n \in Timers /\ r \in 0 .. Half - 1 BY DueList
  <2>4. r # 0 BY <1>1, <2>3 DEF NoneDue
  <2>5. wheel[p][j].expire = (time + r) % Turn BY <1>1 DEF Placed
  <2>6. r \in 1 .. Half - 1 /\ r > 0 BY <2>3, <2>4, TimerBounds
  <2> HIDE DEF r
  <2>7. (time + r) % Turn = (u + (r - 1)) % Turn BY <1>3, <2>6, TickLater DEF u
  <2>8. remaining'[n] = r - 1 BY <1>5, <2>3, <2>6 DEF r
  <2>9. r - 1 >= 0 BY <2>6, TimerBounds
  <2>10. wheel'[q][i].id = n BY <2>2
  <2> HIDE DEF n
  <2>. QED BY <1>4, <2>2, <2>5, <2>7, <2>8, <2>9, <2>10
<1>8. OnceOnly(wheel)' BY <1>4 DEF OnceOnly, Positions
<1>9. Handed'
  <2>1. DOMAIN dispatching' = {} BY <1>1, <1>2
  <2>. QED BY <1>1, <1>2, <2>1 DEF Handed
<1>10. Kept'
  <2> SUFFICES ASSUME NEW n \in Timers, remaining'[n] >= 0 PROVE Somewhere(n)' BY DEF Kept
  <2>1. Somewhere(n) BY <1>1, <1>5 DEF Kept
  <2>2. DOMAIN dispatching = {} BY <1>2
  <2>3. PICK p \in Positions : \E j \in DOMAIN wheel[p] : wheel[p][j].id = n
    BY <2>1, <2>2 DEF Somewhere
  <2>4. PICK j \in DOMAIN wheel[p] : wheel[p][j].id = n BY <2>3
  <2>5. PICK q \in Positions : \E i \in DOMAIN wheel'[q] : wheel'[q][i] = wheel[p][j] BY <1>4
  <2>6. \E i \in DOMAIN wheel'[q] : wheel'[q][i].id = n BY <2>4, <2>5
  <2>. QED BY <2>6 DEF Somewhere, Positions
<1>11. NoneDue' BY <1>1 DEF NoneDue
<1>. QED BY <1>6, <1>7, <1>8, <1>9, <1>10, <1>11 DEF TimerInv

LEMMA UpdateDoneKeeps ==
  ASSUME TimerInv, UpdateDone
  PROVE  TimerInv'
<1>1. /\ TimerType /\ Placed /\ OnceOnly(wheel) /\ Handed /\ Kept /\ NoneDue
      /\ tpc = "exec1" /\ wheel[Due] = <<>> /\ tpc' = "out"
      /\ UNCHANGED <<time, wheel, dispatching, remaining>>
  BY DEF TimerInv, UpdateDone
<1>2. dispatching = <<>> BY <1>1 DEF Handed
<1>3. ASSUME NEW n \in Timers PROVE remaining[n] # 0
  <2> SUFFICES ASSUME remaining[n] = 0 PROVE FALSE OBVIOUS
  <2>1. Somewhere(n) BY <1>1 DEF Kept
  <2>2. DOMAIN dispatching = {} /\ DOMAIN wheel[Due] = {} BY <1>1, <1>2
  <2>3. PICK p \in Positions : \E j \in DOMAIN wheel[p] : wheel[p][j].id = n
    BY <2>1, <2>2 DEF Somewhere
  <2>4. p # Due BY <2>2, <2>3
  <2>. QED BY <2>3, <2>4, DueList
<1>4. TimerType' BY <1>1 DEF TimerType, IsWheel, TimerNode, Turn, Half, Positions
<1>5. Placed' BY <1>1 DEF Placed, Turn, Positions
<1>6. OnceOnly(wheel)' BY <1>1 DEF OnceOnly, Positions
<1>7. Handed' BY <1>1, <1>2 DEF Handed, Positions
<1>8. Kept' BY <1>1 DEF Kept, Somewhere, Positions
<1>9. NoneDue' BY <1>1, <1>3 DEF NoneDue
<1>. QED BY <1>4, <1>5, <1>6, <1>7, <1>8, <1>9 DEF TimerInv

LEMMA TimerNextInv == TimerInv /\ [TimerNext]_timerVars => TimerInv'
<1> SUFFICES ASSUME TimerInv, [TimerNext]_timerVars PROVE TimerInv' OBVIOUS
<1>1. ASSUME NEW n \in Timers, NEW wait \in Timeouts, TimerAdd(n, wait) PROVE TimerInv'
  BY <1>1, TimerAddKeeps
<1>2. ASSUME NEW d \in 0 .. MaxTicks, UpdateTime(d) PROVE TimerInv'
  BY <1>2, TimerQuiet DEF UpdateTime
<1>3. CASE TimerUpdate BY <1>3, TimerQuiet DEF TimerUpdate
<1>4. CASE Execute BY <1>4, ExecuteKeeps
<1>5. CASE DispatchNode BY <1>5, DispatchKeeps
<1>6. CASE TimerShift BY <1>6, TimerShiftKeeps
<1>7. CASE UpdateDone BY <1>7, UpdateDoneKeeps
<1>8. CASE UNCHANGED timerVars BY <1>8, TimerQuiet DEF timerVars
<1>. QED BY <1>1, <1>2, <1>3, <1>4, <1>5, <1>6, <1>7, <1>8 DEF TimerNext

(* For any lengths of the lists and levels, any timers and timeouts: a timer  *)
(* fires at the tick it asked for, and until then it is where add_node would  *)
(* put it now.  At each tick the level that timer_shift moves down is the     *)
(* greatest whose block begins there, and the timers of all other lists stay  *)
(* where they belong, across the wrap of the time too (skynet_timer.c:71-182). *)
THEOREM TimersAreOnTime == TimerSpec => []OnTime
<1>1. QED BY TimerInitInv, TimerNextInv, OnTimeFollows, PTL DEF TimerSpec
=============================================================================
