--------------------------- MODULE HandleStorage ----------------------------
(***************************************************************************)
(* The table of handles (skynet_handle.c) under its readers-writer spin     *)
(* lock (rwlock.h).  Threads launch services (skynet_context_new registers  *)
(* them), look contexts up, retire them one by one or all together.  One    *)
(* action is one atomic access to the lock, or what is done while it is     *)
(* held; looking up is two, finding the context and counting it.            *)
(*                                                                         *)
(* The names are those of the table alone, so that the module can stand     *)
(* beside others in one instance.                                          *)
(***************************************************************************)
EXTENDS Integers, FiniteSets

CONSTANTS Callers,      \* the threads
          Contexts,     \* pieces of memory for contexts, used again when freed
          SlotSize,     \* DEFAULT_SLOT_SIZE
          HandleMask,   \* HANDLE_MASK
          Null

ASSUME TableAssumption ==
  /\ IsFiniteSet(Callers) /\ Null \notin Contexts
  /\ SlotSize \in Nat \ {0} /\ \E k \in 0 .. 24 : SlotSize = 2 ^ k
  /\ HandleMask \in Nat /\ \E k \in 1 .. 24 : HandleMask = 2 ^ k - 1

VARIABLES write, read,  \* the lock
          slot_size, slot, handle_index,
          handle,       \* ctx->handle, 0 until skynet_context_new assigns it
          ctxref,       \* ctx->ref, 0 for free memory
          th,           \* where each thread is
          aborted       \* an assertion has failed

lockVars == <<write, read>>
tableVars == <<slot_size, slot, handle_index, handle, ctxref, aborted>>
handleVars == <<lockVars, tableVars, th>>

IdleThread == [todo |-> "idle", lock |-> "none", h |-> 0, c |-> Null, i |-> 0, n |-> 0]

HandleInit ==
  /\ write = FALSE /\ read = 0
  /\ slot_size = SlotSize /\ slot = [i \in 0 .. SlotSize - 1 |-> Null]
  /\ handle_index = 1
  /\ handle = [c \in Contexts |-> 0] /\ ctxref = [c \in Contexts |-> 0]
  /\ th = [t \in Callers |-> IdleThread]
  /\ aborted = FALSE

Todo(t, what) == th[t].todo = what
Set(t, r) == th' = [th EXCEPT ![t] = r]
-----------------------------------------------------------------------------
(* rwlock_rlock, rwlock_runlock, rwlock_wlock, rwlock_wunlock.  A reader    *)
(* counts itself and looks again whether a writer has come.                 *)
ReadWaits(t) ==
  /\ th[t].lock = "read?" /\ ~write
  /\ Set(t, [th[t] EXCEPT !.lock = "clear"])
  /\ UNCHANGED <<lockVars, tableVars>>

ReadCounts(t) ==
  /\ th[t].lock = "clear"
  /\ read' = read + 1 /\ Set(t, [th[t] EXCEPT !.lock = "counted"])
  /\ UNCHANGED <<write, tableVars>>

(* Fault: the reader does not look again.                                   *)
ReadCheckedBlindly(t) ==
  /\ th[t].lock = "counted"
  /\ Set(t, [th[t] EXCEPT !.lock = "read"])
  /\ UNCHANGED <<lockVars, tableVars>>

ReadChecked(t) ==
  /\ th[t].lock = "counted"
  /\ \/ /\ write /\ read' = read - 1 /\ Set(t, [th[t] EXCEPT !.lock = "read?"])
     \/ /\ ~write /\ Set(t, [th[t] EXCEPT !.lock = "read"]) /\ UNCHANGED read
  /\ UNCHANGED <<write, tableVars>>

WriteLock(t) ==
  /\ th[t].lock = "write?" /\ ~write
  /\ write' = TRUE /\ Set(t, [th[t] EXCEPT !.lock = "drain"])
  /\ UNCHANGED <<read, tableVars>>

Drained(t) ==
  /\ th[t].lock = "drain" /\ read = 0
  /\ Set(t, [th[t] EXCEPT !.lock = "write"])
  /\ UNCHANGED <<lockVars, tableVars>>

LockStep(t) == ReadWaits(t) \/ ReadCounts(t) \/ ReadChecked(t) \/ WriteLock(t) \/ Drained(t)
-----------------------------------------------------------------------------
(* What a service's handler may ask for.                                    *)

(* skynet_context_new: two references, one for the table, one for itself.   *)
NewContext(t, c) ==
  /\ Todo(t, "idle") /\ ctxref[c] = 0 /\ \A u \in Callers : th[u].c # c
  /\ handle' = [handle EXCEPT ![c] = 0] /\ ctxref' = [ctxref EXCEPT ![c] = 2]
  /\ Set(t, [IdleThread EXCEPT !.todo = "register", !.lock = "write?", !.c = c])
  /\ UNCHANGED <<lockVars, slot_size, slot, handle_index, aborted>>

(* skynet_handle_grab, with a handle heard of before or since reused.       *)
Lookup(t, h) ==
  /\ Todo(t, "idle")
  /\ Set(t, [IdleThread EXCEPT !.todo = "find", !.lock = "read?", !.h = h])
  /\ UNCHANGED <<lockVars, tableVars>>

RetireOne(t, h) ==
  /\ Todo(t, "idle")
  /\ Set(t, [IdleThread EXCEPT !.todo = "retire", !.lock = "write?", !.h = h, !.i = -1])
  /\ UNCHANGED <<lockVars, tableVars>>

(* skynet_handle_retireall walks through the slots until a walk finds none. *)
RetireAll(t) ==
  /\ Todo(t, "idle")
  /\ Set(t, [IdleThread EXCEPT !.todo = "visit", !.lock = "read?"])
  /\ UNCHANGED <<lockVars, tableVars>>
-----------------------------------------------------------------------------
(* skynet_handle_register: the first number from handle_index on whose slot *)
(* is free; a full table is doubled first.  ctx->handle is assigned after   *)
(* the lock is given up.                                                    *)
Number(i) == (i + handle_index) % (HandleMask + 1)
FreeAt == {i \in 0 .. slot_size - 1 : slot[Number(i) % slot_size] = Null}

TakeSlot(t) ==
  /\ th[t].lock = "write" /\ Todo(t, "register") /\ FreeAt # {}
  /\ LET h == Number(CHOOSE i \in FreeAt : \A j \in FreeAt : i <= j) IN
     /\ slot' = [slot EXCEPT ![h % slot_size] = th[t].c]
     /\ handle_index' = h + 1
     /\ Set(t, [th[t] EXCEPT !.todo = "assign", !.lock = "none", !.h = h])
  /\ write' = FALSE
  /\ UNCHANGED <<read, slot_size, handle, ctxref, aborted>>

(* Every context goes where its handle says.                                *)
Rehash ==
  [k \in 0 .. 2 * slot_size - 1 |->
     LET from == {i \in 0 .. slot_size - 1 : handle[slot[i]] % (2 * slot_size) = k} IN
     IF from = {} THEN Null ELSE slot[CHOOSE i \in from : TRUE]]

Collision ==
  \E i, j \in 0 .. slot_size - 1 :
    i # j /\ handle[slot[i]] % (2 * slot_size) = handle[slot[j]] % (2 * slot_size)

Expand(t) ==
  /\ th[t].lock = "write" /\ Todo(t, "register") /\ FreeAt = {}
  /\ 2 * slot_size - 1 <= HandleMask
  /\ IF Collision THEN aborted' = TRUE /\ UNCHANGED <<slot, slot_size>>
     ELSE slot' = Rehash /\ slot_size' = 2 * slot_size /\ UNCHANGED aborted
  /\ UNCHANGED <<lockVars, handle_index, handle, ctxref, th>>

AssignHandle(t) ==
  /\ Todo(t, "assign")
  /\ handle' = [handle EXCEPT ![th[t].c] = th[t].h]
  /\ Set(t, [th[t] EXCEPT !.todo = "release", !.i = -1])
  /\ UNCHANGED <<lockVars, slot_size, slot, handle_index, ctxref, aborted>>

(* Is the context in the slot of `h` the one that has this handle?          *)
Found(h) == LET c == slot[h % slot_size] IN c # Null /\ handle[c] = h

Find(t) ==
  /\ th[t].lock = "read" /\ Todo(t, "find")
  /\ IF Found(th[t].h)
     THEN /\ Set(t, [th[t] EXCEPT !.todo = "count", !.c = slot[th[t].h % slot_size]])
          /\ UNCHANGED read
     ELSE Set(t, IdleThread) /\ read' = read - 1
  /\ UNCHANGED <<write, tableVars>>

(* skynet_context_grab, then the lock is given up; the caller will release.  *)
Count(t) ==
  /\ Todo(t, "count")
  /\ ctxref' = [ctxref EXCEPT ![th[t].c] = @ + 1]
  /\ read' = read - 1
  /\ Set(t, [th[t] EXCEPT !.todo = "release", !.lock = "none", !.i = -1])
  /\ UNCHANGED <<write, slot_size, slot, handle_index, handle, aborted>>

(* skynet_handle_retire; i >= 0 when skynet_handle_retireall calls it.       *)
TakeOut(t) ==
  /\ th[t].lock = "write" /\ Todo(t, "retire")
  /\ IF Found(th[t].h)
     THEN /\ slot' = [slot EXCEPT ![th[t].h % slot_size] = Null]
          /\ Set(t, [th[t] EXCEPT !.todo = "release", !.lock = "none", !.n = 1,
                                  !.c = slot[th[t].h % slot_size]])
     ELSE /\ UNCHANGED slot
          /\ Set(t, IF th[t].i < 0 THEN IdleThread
                    ELSE [th[t] EXCEPT !.todo = "walk", !.lock = "none"])
  /\ write' = FALSE
  /\ UNCHANGED <<read, slot_size, handle_index, handle, ctxref, aborted>>

LetGo(t) ==
  /\ Todo(t, "release")
  /\ ctxref' = [ctxref EXCEPT ![th[t].c] = @ - 1]
  /\ Set(t, IF th[t].i < 0 THEN IdleThread ELSE [th[t] EXCEPT !.todo = "walk", !.c = Null])
  /\ UNCHANGED <<lockVars, slot_size, slot, handle_index, handle, aborted>>

Visit(t) ==
  /\ th[t].lock = "read" /\ Todo(t, "visit")
  /\ LET c == slot[th[t].i]
         h == IF c = Null THEN 0 ELSE handle[c] IN
     Set(t, IF h = 0 THEN [th[t] EXCEPT !.todo = "walk", !.lock = "none"]
            ELSE [th[t] EXCEPT !.todo = "retire", !.lock = "write?", !.h = h])
  /\ read' = read - 1
  /\ UNCHANGED <<write, tableVars>>

Walk(t) ==
  /\ Todo(t, "walk")
  /\ Set(t, IF th[t].i + 1 < slot_size
            THEN [th[t] EXCEPT !.todo = "visit", !.lock = "read?", !.i = @ + 1]
            ELSE IF th[t].n = 0 THEN IdleThread
            ELSE [IdleThread EXCEPT !.todo = "visit", !.lock = "read?"])
  /\ UNCHANGED <<lockVars, tableVars>>
-----------------------------------------------------------------------------
HandleNext ==
  /\ ~aborted
  /\ \E t \in Callers :
       \/ LockStep(t)
       \/ TakeSlot(t) \/ Expand(t) \/ AssignHandle(t) \/ Find(t) \/ Count(t)
       \/ TakeOut(t) \/ LetGo(t) \/ Visit(t) \/ Walk(t) \/ RetireAll(t)
       \/ \E c \in Contexts : NewContext(t, c)
       \/ \E h \in 1 .. HandleMask : Lookup(t, h) \/ RetireOne(t, h)

HandleSpec == HandleInit /\ [][HandleNext]_handleVars
-----------------------------------------------------------------------------
(* A writer has the table to itself: the readers' second look at `write`    *)
(* and the writer's wait for `read` leave no gap (rwlock.h:20-39).          *)
LockExcludes ==
  \A t, u \in Callers :
    th[t].lock = "write" /\ t # u => th[u].lock \notin {"write", "read"}

(* Contexts in the table, and contexts a thread has found, are not freed    *)
(* before they are counted (skynet_handle.c:142-144).                       *)
FoundAlive ==
  /\ \A i \in 0 .. slot_size - 1 : slot[i] # Null => ctxref[slot[i]] > 0
  /\ \A t \in Callers : th[t].todo \in {"count", "release"} => ctxref[th[t].c] > 0
=============================================================================
