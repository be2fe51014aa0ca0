------------------------------ MODULE Mailbox -------------------------------
(***************************************************************************)
(* The scheduler of skynet: worker threads that share one global queue of  *)
(* mailboxes (skynet_mq.c), dispatch their messages (skynet_server.c) and  *)
(* sleep when there are none (skynet_start.c), while services are launched *)
(* and retired and their contexts are reference counted.                   *)
(*                                                                         *)
(* One action is one critical section: what a thread does under the lock   *)
(* of a mailbox (with the global queue's lock inside), under the lock of   *)
(* the handle storage, or one atomic decrement.  Handlers and the timer    *)
(* and socket threads may do anything between two of them: send, kill,     *)
(* launch.                                                                 *)
(***************************************************************************)
EXTENDS Integers, Sequences, FiniteSets

CONSTANTS Handles,      \* the services, one context and one mailbox each
          Boot,         \* those launched before the threads start, in order
          Workers,      \* the worker threads
          Pollers,      \* the timer and socket threads
          Weight,       \* Weight[w]: how many messages w takes from a mailbox
          MaxSends,     \* bound on the messages that are sent
          System,       \* the source of timer and socket messages
          None

(* The last part is arithmetic that the provers have to be told.            *)
ASSUME ThreadsAssumption ==
  /\ IsFiniteSet(Workers) /\ IsFiniteSet(Pollers) /\ Workers \cap Pollers = {}
  /\ Weight \in [Workers -> Int] /\ MaxSends \in Nat
  /\ None \notin Workers \cup Pollers
  /\ \A w \in Workers : Weight[w] >= 0 => 2 ^ Weight[w] \in Nat \ {0}

ASSUME HandlesAssumption ==
  /\ System \notin Handles /\ None \notin Handles
  /\ Boot \in Seq(Handles)
  /\ \A i, j \in 1 .. Len(Boot) : Boot[i] = Boot[j] => i = j

VARIABLES slot,         \* the handle storage: which handles are registered
          ctx, ref,     \* the contexts: their memory and ctx->ref
          mq, queue,    \* the mailboxes: their memory and their messages
          in_global, release,
          global,       \* Q, the global queue of mailboxes
          op,           \* the send or release a thread is in the middle of
          launch,       \* the skynet_context_new it is in the middle of
          disp,         \* a worker in skynet_context_message_dispatch
          quit,         \* m->quit
          sent          \* the number of sends so far, bounded by MaxSends

vars == <<slot, ctx, ref, mq, queue, in_global, release, global, op, launch, disp,
          quit, sent>>

Threads == Workers \cup Pollers
Booted == {Boot[i] : i \in 1 .. Len(Boot)}
Messages == [src : Handles \cup {System}, type : {"text", "error"}]

NoOp == [at |-> "idle", h |-> None, m |-> None]
NoLaunch == [at |-> "idle", h |-> None]

Init ==
  /\ slot = [h \in Handles |-> IF h \in Booted THEN "live" ELSE "unused"]
  /\ ctx = [h \in Handles |-> IF h \in Booted THEN "alive" ELSE "none"]
  /\ ref = [h \in Handles |-> IF h \in Booted THEN 1 ELSE 0]
  /\ mq = ctx
  /\ queue = [h \in Handles |-> <<>>]
  /\ in_global = [h \in Handles |-> h \in Booted]
  /\ release = [h \in Handles |-> FALSE]
  /\ global = Boot
  /\ op = [t \in Threads |-> NoOp]
  /\ launch = [w \in Workers |-> NoLaunch]
  /\ disp = [w \in Workers |-> [at |-> "top", q |-> None, nq |-> None, first |-> FALSE, left |-> 0]]
  /\ quit = FALSE /\ sent = 0

-----------------------------------------------------------------------------
(* The two locked operations that put a mailbox into the global queue.     *)

(* Fault: the flag is set but not looked at.                               *)
MqPushAlways(h, m) ==
  /\ queue' = [queue EXCEPT ![h] = Append(@, m)]
  /\ in_global' = [in_global EXCEPT ![h] = TRUE]
  /\ global' = Append(global, h)

(* skynet_mq_push: the mailbox enters the global queue unless it is there  *)
(* or some worker has it.                                                  *)
MqPush(h, m) ==
  /\ queue' = [queue EXCEPT ![h] = Append(@, m)]
  /\ in_global' = [in_global EXCEPT ![h] = TRUE]
  /\ global' = IF in_global[h] THEN global ELSE Append(global, h)

(* Fault: the next message is relied on to bring the mailbox back.         *)
MarkReleaseOnly(h) ==
  /\ release' = [release EXCEPT ![h] = TRUE]
  /\ UNCHANGED global

(* skynet_mq_mark_release, called when the context is deleted.             *)
MarkRelease(h) ==
  /\ release' = [release EXCEPT ![h] = TRUE]
  /\ global' = IF in_global[h] THEN global ELSE Append(global, h)

(* The thread goes on with an operation on `h`.                            *)
Busy(t, a, h, m) == op' = [op EXCEPT ![t] = [at |-> a, h |-> h, m |-> m]]
-----------------------------------------------------------------------------
(* skynet_context_push, skynet_context_release, skynet_handle_retire: what  *)
(* a thread does with somebody's context.                                   *)

(* The service on whose behalf a thread runs: the one whose init function  *)
(* it is in, the one whose message it handles; the pollers are the system. *)
Acting(t) ==
  /\ op[t].at = "idle"
  /\ t \in Workers => \/ launch[t].at = "init"
                      \/ disp[t].at = "cb" /\ launch[t].at = "idle"

Self(t) == IF t \in Pollers THEN System
           ELSE IF launch[t].at = "init" THEN launch[t].h ELSE disp[t].q

(* A handle is known to others when the service's init function may have   *)
(* told it.                                                                *)
Send(t, h) ==
  /\ Acting(t) /\ mq[h] # "none" /\ sent < MaxSends /\ ~quit
  /\ sent' = sent + 1
  /\ Busy(t, "grab", h, [src |-> Self(t), type |-> "text"])
  /\ UNCHANGED <<slot, ctx, ref, mq, queue, in_global, release, global, launch, disp, quit>>

(* The commands LOGON, LOGOFF and SIGNAL and the monitor thread's mark of  *)
(* an endless loop only hold the context for a moment.                     *)
Touch(t, h) ==
  /\ Acting(t) /\ mq[h] # "none" /\ sent < MaxSends /\ ~quit
  /\ sent' = sent + 1
  /\ Busy(t, "grab", h, None)
  /\ UNCHANGED <<slot, ctx, ref, mq, queue, in_global, release, global, launch, disp, quit>>

(* skynet_handle_grab; without a context the send fails.                   *)
Grab(t) ==
  /\ op[t].at = "grab"
  /\ LET h == op[t].h IN
     IF slot[h] = "live"
     THEN /\ ref' = [ref EXCEPT ![h] = @ + 1]
          /\ Busy(t, IF op[t].m = None THEN "release" ELSE "push", h, op[t].m)
     ELSE /\ op' = [op EXCEPT ![t] = NoOp]
          /\ UNCHANGED ref
  /\ UNCHANGED <<slot, ctx, mq, queue, in_global, release, global, launch, disp, quit, sent>>

Push(t) ==
  /\ op[t].at = "push"
  /\ MqPush(op[t].h, op[t].m)
  /\ Busy(t, "release", op[t].h, None)
  /\ UNCHANGED <<slot, ctx, ref, mq, release, launch, disp, quit, sent>>

(* The thread has initialised a service and gives up its own reference.    *)
Launched(t) == t \in Workers /\ launch[t].at = "publish"

(* skynet_context_release: an atomic decrement; the last one deletes.  A   *)
(* launcher whose reference was not the last keeps the pointer it gets.    *)
Release(t) ==
  /\ op[t].at = "release"
  /\ LET h == op[t].h IN
     /\ ref' = [ref EXCEPT ![h] = @ - 1]
     /\ op' = [op EXCEPT ![t] = IF ref[h] = 1 THEN [@ EXCEPT !.at = "delete"]
                                ELSE IF Launched(t) THEN [@ EXCEPT !.at = "publish"] ELSE NoOp]
  /\ UNCHANGED <<slot, ctx, mq, queue, in_global, release, global, launch, disp, quit, sent>>

(* delete_context                                                          *)
Delete(t) ==
  /\ op[t].at = "delete"
  /\ MarkRelease(op[t].h)
  /\ ctx' = [ctx EXCEPT ![op[t].h] = "freed"]
  /\ op' = [op EXCEPT ![t] = NoOp]
  /\ UNCHANGED <<slot, ref, mq, queue, in_global, launch, disp, quit, sent>>

(* skynet_handle_retire gives up the storage's reference.  Any handler may *)
(* kill any service, itself included, and the command ABORT all of them    *)
(* (skynet_handle_retireall).                                              *)
Retire(t, h) ==
  /\ slot[h] = "live"
  /\ slot' = [slot EXCEPT ![h] = "retired"]
  /\ Busy(t, "release", h, None)

Kill(w, h) ==
  /\ w \in Workers /\ Acting(w) /\ Retire(w, h)
  /\ UNCHANGED <<ctx, ref, mq, queue, in_global, release, global, launch, disp, quit, sent>>
-----------------------------------------------------------------------------
(* skynet_context_new, called from a handler.                              *)

Step(w, a) == launch' = [launch EXCEPT ![w] = [@ EXCEPT !.at = a]]
Launching(w, a) == op[w].at = "idle" /\ launch[w].at = a

Register(w, h) ==
  /\ disp[w].at = "cb" /\ Launching(w, "idle") /\ slot[h] = "unused"
  /\ slot' = [slot EXCEPT ![h] = "live"]
  /\ ctx' = [ctx EXCEPT ![h] = "alive"]
  /\ ref' = [ref EXCEPT ![h] = 2]
  /\ launch' = [launch EXCEPT ![w] = [at |-> "create", h |-> h]]
  /\ UNCHANGED <<mq, queue, in_global, release, global, op, disp, quit, sent>>

(* in_global is set though the mailbox is in nobody's hands: no message    *)
(* puts it into the global queue before the init function has returned.    *)
MqCreate(w) ==
  /\ Launching(w, "create")
  /\ LET h == launch[w].h IN
     /\ mq' = [mq EXCEPT ![h] = "alive"]
     /\ in_global' = [in_global EXCEPT ![h] = TRUE]
  /\ Step(w, "init")
  /\ UNCHANGED <<slot, ctx, ref, queue, release, global, op, disp, quit, sent>>

(* The init function returns; the launcher gives up its reference.  What a *)
(* failure logs before that is one of the sends of the state "init".       *)
InitReturns(w) ==
  /\ Launching(w, "init")
  /\ \/ Step(w, "publish")
     \/ Step(w, "failed")
  /\ Busy(w, "release", launch[w].h, None)
  /\ UNCHANGED <<slot, ctx, ref, mq, queue, in_global, release, global, disp, quit, sent>>

(* The mailbox enters the global queue.  With the pointer that release     *)
(* returned, ctx->init is written before and the service is announced       *)
(* after it, without a reference.                                          *)
Publish(w) ==
  /\ launch[w].at = "publish"
  /\ \/ op[w].at = "idle" /\ UNCHANGED op
     \/ op[w].at = "publish" /\ op' = [op EXCEPT ![w] = [@ EXCEPT !.at = "announce"]]
  /\ global' = Append(global, launch[w].h)
  /\ launch' = [launch EXCEPT ![w] = NoLaunch]
  /\ UNCHANGED <<slot, ctx, ref, mq, queue, in_global, release, disp, quit, sent>>

(* The handle read from a context, or from memory that is no longer one.   *)
ReadHandle(h) == IF ctx[h] = "alive" THEN {h} ELSE {System} \cup {g \in Handles : mq[g] # "none"}

(* skynet_error sends "LAUNCH" to the log service, one of those launched   *)
(* before the threads start, in the new service's name.                    *)
Announce(w) ==
  /\ op[w].at = "announce"
  /\ \E logger \in Booted, src \in ReadHandle(op[w].h) :
       Busy(w, "grab", logger, [src |-> src, type |-> "text"])
  /\ UNCHANGED <<slot, ctx, ref, mq, queue, in_global, release, global, launch, disp, quit, sent>>

(* After a failure the launcher retires the handle, if nobody has yet, and *)
(* releases the mailbox.                                                   *)
FailRetire(w) ==
  /\ Launching(w, "failed")
  /\ \/ Retire(w, launch[w].h)
     \/ slot[launch[w].h] # "live" /\ UNCHANGED <<slot, op>>
  /\ Step(w, "reap")
  /\ UNCHANGED <<ctx, ref, mq, queue, in_global, release, global, disp, quit, sent>>

FailReap(w) ==
  /\ Launching(w, "reap")
  /\ LET h == launch[w].h IN
     \/ /\ release[h] /\ Step(w, "drop") /\ UNCHANGED global
     \/ /\ ~release[h] /\ global' = Append(global, h)
        /\ launch' = [launch EXCEPT ![w] = NoLaunch]
  /\ UNCHANGED <<slot, ctx, ref, mq, queue, in_global, release, op, disp, quit, sent>>

(* _drop_queue: each message is answered with an error to its source; the  *)
(* empty mailbox is freed.                                                 *)
DropOne(t, h) ==
  /\ queue[h] # <<>>
  /\ queue' = [queue EXCEPT ![h] = Tail(@)]
  /\ IF Head(queue[h]).src = System THEN UNCHANGED op
     ELSE Busy(t, "grab", Head(queue[h]).src, [src |-> h, type |-> "error"])

FreeQueue(h) ==
  /\ queue[h] = <<>>
  /\ mq' = [mq EXCEPT ![h] = "freed"]
  /\ in_global' = [in_global EXCEPT ![h] = FALSE]

FailDrop(w) ==
  /\ Launching(w, "drop")
  /\ LET h == launch[w].h IN
     \/ DropOne(w, h) /\ UNCHANGED <<mq, in_global, launch>>
     \/ FreeQueue(h) /\ launch' = [launch EXCEPT ![w] = NoLaunch] /\ UNCHANGED <<queue, op>>
  /\ UNCHANGED <<slot, ctx, ref, release, global, disp, quit, sent>>
-----------------------------------------------------------------------------
(* thread_worker and skynet_context_message_dispatch                        *)

At(w, a) == disp[w].at = a /\ op[w].at = "idle" /\ launch[w].at = "idle"
Goto(w, a) == disp' = [disp EXCEPT ![w] = [@ EXCEPT !.at = a]]
Keep(w, a, q) == disp' = [disp EXCEPT ![w] = [@ EXCEPT !.at = a, !.q = q, !.nq = None]]

(* skynet_globalmq_pop                                                     *)
GlobalPop(w, found, empty) ==
  IF global = <<>>
  THEN Keep(w, empty, None) /\ UNCHANGED global
  ELSE Keep(w, found, Head(global)) /\ global' = Tail(global)

Top(w) ==
  /\ At(w, "top")
  /\ IF quit THEN Keep(w, "exit", None) /\ UNCHANGED global
     ELSE IF disp[w].q # None THEN Goto(w, "grab") /\ UNCHANGED global
     ELSE GlobalPop(w, "grab", "doze")
  /\ UNCHANGED <<slot, ctx, ref, mq, queue, in_global, release, op, launch, quit, sent>>

(* Fault: the context is looked up without taking a reference.             *)
GrabContextUncounted(w) ==
  /\ At(w, "grab")
  /\ IF slot[disp[w].q] = "live"
     THEN disp' = [disp EXCEPT ![w] = [@ EXCEPT !.at = "pop", !.first = TRUE, !.left = 0]]
     ELSE Goto(w, "reap")
  /\ UNCHANGED <<slot, ctx, ref, mq, queue, in_global, release, global, op, launch, quit, sent>>

(* The context is found by the mailbox's handle and held while messages    *)
(* are taken.                                                              *)
GrabContext(w) ==
  /\ At(w, "grab")
  /\ LET h == disp[w].q IN
     IF slot[h] = "live"
     THEN /\ ref' = [ref EXCEPT ![h] = @ + 1]
          /\ disp' = [disp EXCEPT ![w] = [@ EXCEPT !.at = "pop", !.first = TRUE, !.left = 0]]
     ELSE Goto(w, "reap") /\ UNCHANGED ref
  /\ UNCHANGED <<slot, ctx, mq, queue, in_global, release, global, op, launch, quit, sent>>

(* skynet_mq_release: as long as somebody still holds the context, the      *)
(* mailbox goes round.                                                     *)
Reap(w) ==
  /\ At(w, "reap")
  /\ \/ release[disp[w].q] /\ Goto(w, "drop") /\ UNCHANGED global
     \/ ~release[disp[w].q] /\ Keep(w, "next", None) /\ global' = Append(global, disp[w].q)
  /\ UNCHANGED <<slot, ctx, ref, mq, queue, in_global, release, op, launch, quit, sent>>

Drop(w) ==
  /\ At(w, "drop")
  /\ LET h == disp[w].q IN
     \/ DropOne(w, h) /\ UNCHANGED <<mq, in_global, disp>>
     \/ FreeQueue(h) /\ Keep(w, "next", None) /\ UNCHANGED <<queue, op>>
  /\ UNCHANGED <<slot, ctx, ref, release, global, launch, quit, sent>>

NextQueue(w) ==
  /\ At(w, "next")
  /\ GlobalPop(w, "top", "top")
  /\ UNCHANGED <<slot, ctx, ref, mq, queue, in_global, release, op, launch, quit, sent>>

(* Fault: an empty mailbox is left with its flag set.                      *)
PopKeepingFlag(w) ==
  /\ At(w, "pop")
  /\ LET h == disp[w].q IN
     \/ /\ queue[h] # <<>>
        /\ queue' = [queue EXCEPT ![h] = Tail(@)]
        /\ Goto(w, "cb") /\ UNCHANGED op
     \/ /\ queue[h] = <<>>
        /\ Busy(w, "release", h, None) /\ Keep(w, "next", None)
        /\ UNCHANGED queue
  /\ UNCHANGED <<slot, ctx, ref, mq, in_global, release, global, launch, quit, sent>>

(* Fault: the mailbox is put back before the message is handled.           *)
PopSharing(w) ==
  /\ At(w, "pop")
  /\ LET h == disp[w].q IN
     \/ /\ queue[h] # <<>>
        /\ queue' = [queue EXCEPT ![h] = Tail(@)]
        /\ Goto(w, "cb") /\ global' = Append(global, h)
        /\ UNCHANGED <<in_global, op>>
     \/ /\ queue[h] = <<>>
        /\ in_global' = [in_global EXCEPT ![h] = FALSE]
        /\ Busy(w, "release", h, None) /\ Keep(w, "next", None)
        /\ UNCHANGED <<queue, global>>
  /\ UNCHANGED <<slot, ctx, ref, mq, release, launch, quit, sent>>

(* skynet_mq_pop: an empty mailbox is left alone, out of the global queue. *)
Pop(w) ==
  /\ At(w, "pop")
  /\ LET h == disp[w].q IN
     \/ /\ queue[h] # <<>>
        /\ queue' = [queue EXCEPT ![h] = Tail(@)]
        /\ Goto(w, IF disp[w].first /\ Weight[w] >= 0 THEN "length" ELSE "cb")
        /\ UNCHANGED <<in_global, op>>
     \/ /\ queue[h] = <<>>
        /\ in_global' = [in_global EXCEPT ![h] = FALSE]
        /\ Busy(w, "release", h, None) /\ Keep(w, "next", None)
        /\ UNCHANGED queue
  /\ UNCHANGED <<slot, ctx, ref, mq, release, global, launch, quit, sent>>

(* skynet_mq_length: how many messages the worker will take.               *)
Length(w) ==
  /\ At(w, "length")
  /\ LET n == Len(queue[disp[w].q]) \div 2 ^ Weight[w] IN
     disp' = [disp EXCEPT ![w] = [@ EXCEPT !.at = "cb", !.left = IF n > 1 THEN n - 1 ELSE 0]]
  /\ UNCHANGED <<slot, ctx, ref, mq, queue, in_global, release, global, op, launch, quit, sent>>

(* The handler returns.                                                    *)
Return(w) ==
  /\ At(w, "cb")
  /\ disp' = [disp EXCEPT ![w] =
       IF @.left = 0 THEN [@ EXCEPT !.at = "rotate"]
       ELSE [@ EXCEPT !.at = "pop", !.first = FALSE, !.left = disp[w].left - 1]]
  /\ UNCHANGED <<slot, ctx, ref, mq, queue, in_global, release, global, op, launch, quit, sent>>

(* Another mailbox is taken if there is one; then this one goes to the end *)
(* of the global queue.  Otherwise the worker keeps it.                    *)
Rotate(w) ==
  /\ At(w, "rotate")
  /\ IF global = <<>>
     THEN Goto(w, "top") /\ Busy(w, "release", disp[w].q, None) /\ UNCHANGED global
     ELSE /\ disp' = [disp EXCEPT ![w] = [@ EXCEPT !.at = "pushback", !.nq = Head(global)]]
          /\ global' = Tail(global) /\ UNCHANGED op
  /\ UNCHANGED <<slot, ctx, ref, mq, queue, in_global, release, launch, quit, sent>>

PushBack(w) ==
  /\ At(w, "pushback")
  /\ global' = Append(global, disp[w].q)
  /\ Busy(w, "release", disp[w].q, None)
  /\ Keep(w, "top", disp[w].nq)
  /\ UNCHANGED <<slot, ctx, ref, mq, queue, in_global, release, launch, quit, sent>>

(* A worker that found nothing sleeps; what arrives between its look at    *)
(* the global queue and its sleep is not announced to it.                  *)
Doze(w) ==
  /\ At(w, "doze")
  /\ Goto(w, IF quit THEN "top" ELSE "wait")
  /\ UNCHANGED <<slot, ctx, ref, mq, queue, in_global, release, global, op, launch, quit, sent>>

(* The timer thread wakes a sleeping worker at every tick, the socket      *)
(* thread one after an event when all sleep.                               *)
Wakeup(w) ==
  /\ At(w, "wait") /\ ~quit
  /\ Goto(w, "top")
  /\ UNCHANGED <<slot, ctx, ref, mq, queue, in_global, release, global, op, launch, quit, sent>>

(* CHECK_ABORT in the timer thread: no context is left, everybody is woken  *)
(* to leave.                                                               *)
Quit ==
  /\ ~quit /\ \A h \in Handles : ctx[h] # "alive"
  /\ quit' = TRUE
  /\ disp' = [w \in Workers |-> IF disp[w].at = "wait" THEN [disp[w] EXCEPT !.at = "top"] ELSE disp[w]]
  /\ UNCHANGED <<slot, ctx, ref, mq, queue, in_global, release, global, op, launch, sent>>

(* The process ends when all workers have left.                            *)
Ended ==
  /\ \A w \in Workers : disp[w].at = "exit"
  /\ UNCHANGED vars
-----------------------------------------------------------------------------
(* What a thread does by itself once it has begun, and what it is free to  *)
(* do in a handler.                                                        *)
OpStep(t) == Grab(t) \/ Push(t) \/ Release(t) \/ Delete(t) \/ Announce(t)

WorkerStep(w) ==
  \/ MqCreate(w) \/ InitReturns(w) \/ Publish(w) \/ FailRetire(w) \/ FailReap(w) \/ FailDrop(w)
  \/ Top(w) \/ GrabContext(w) \/ Reap(w) \/ Drop(w) \/ NextQueue(w)
  \/ Pop(w) \/ Length(w) \/ Return(w) \/ Rotate(w) \/ PushBack(w) \/ Doze(w)

Choice ==
  \/ \E t \in Threads, h \in Handles : Send(t, h) \/ Touch(t, h)
  \/ \E w \in Workers, h \in Handles : Kill(w, h) \/ Register(w, h)

Next ==
  \/ \E t \in Threads : OpStep(t)
  \/ \E w \in Workers : WorkerStep(w) \/ Wakeup(w)
  \/ Choice \/ Quit \/ Ended

Spec == Init /\ [][Next]_vars

(* Threads run, handlers return and the timer ticks; nobody has to send,   *)
(* kill or launch.                                                         *)
Fairness ==
  /\ \A t \in Threads : WF_vars(OpStep(t))
  /\ \A w \in Workers : WF_vars(WorkerStep(w)) /\ WF_vars(Wakeup(w))
  /\ WF_vars(Quit)

FairSpec == Spec /\ Fairness
-----------------------------------------------------------------------------
(* Where a mailbox may be: at a place of the global queue, with a worker, or *)
(* with the launcher of its service.                                        *)
Places(h) ==
  {<<"global", i>> : i \in {j \in 1 .. Len(global) : global[j] = h}}
  \cup {<<"worker", w>> : w \in {v \in Workers : disp[v].q = h}}
  \cup {<<"next", w>> : w \in {v \in Workers : disp[v].nq = h}}
  \cup {<<"launcher", w>> : w \in {v \in Workers : launch[v].h = h}}

(* A mailbox is in one place at most: skynet_globalmq_push is only called   *)
(* by who owns it, or on behalf of nobody ("0 means mq is not in global mq, *)
(* 1 means mq is in global mq, or the message is dispatching",              *)
(* skynet_mq.c:14).  In two places it would be served by two workers and    *)
(* the global list would be cut.  And it is in one when it has messages, or  *)
(* they would be stranded, whatever the order of sends, dispatches and the   *)
(* resetting of in_global (skynet_mq.c:160, 198).                            *)
OwnedOnce ==
  \A h \in Handles :
    /\ \A x, y \in Places(h) : x = y
    /\ queue[h] # <<>> /\ ~quit =>
         \/ Places(h) # {}
         \/ \E t \in Threads : op[t].at = "delete" /\ op[t].h = h

(* A thread that sends, dispatches, releases or follows the global list      *)
(* finds the context and the mailbox it does this with alive.  A launcher    *)
(* uses the context without a reference after it has released its own        *)
(* (skynet_server.c:154-160): that one is alive until somebody retires the   *)
(* handle, and freed memory is written and read when somebody has.           *)
AliveWhileUsed ==
  /\ \A t \in Threads : op[t].at \in {"push", "release", "delete"} =>
       ctx[op[t].h] = "alive" /\ mq[op[t].h] # "freed"
  /\ \A t \in Threads : op[t].at \in {"publish", "announce"} /\ slot[op[t].h] = "live" =>
       ctx[op[t].h] = "alive"
  /\ \A w \in Workers :
       /\ op[w].at = "publish" => mq[op[w].h] = "alive"
       /\ disp[w].at \in {"pop", "length", "cb", "rotate", "pushback"} => ctx[disp[w].q] = "alive"
       /\ disp[w].q # None => mq[disp[w].q] = "alive"
       /\ disp[w].nq # None => mq[disp[w].nq] = "alive"
  /\ \A i \in 1 .. Len(global) : mq[global[i]] = "alive"

(* The scheduler gives the services what they rely on.                      *)
Abstract == INSTANCE Actor WITH
  mail <- queue,
  busy <- [h \in Handles |-> \E w \in Workers : disp[w].q = h /\ disp[w].at \in {"length", "cb"}],
  life <- [h \in Handles |-> IF ctx[h] = "freed" THEN "gone" ELSE ctx[h]]

(* One handler at a time, messages in order, none lost while the service     *)
(* lives (the CALLING_CHECK of skynet_server.c:24 asserts the first).        *)
ActorSpec == Abstract!Spec

(* A message that has arrived is handled or, when the service is gone,       *)
(* discarded: no wake-up is lost for good (skynet_start.c:156-166).          *)
Handled == \A h \in Handles : (queue[h] # <<>>) ~> (queue[h] = <<>> \/ quit)

(* The mailbox of a retired service is freed, whoever held the context last  *)
(* (skynet_mq.c:216, 236), unless the process ends first.                    *)
Reclaimed == \A h \in Handles : (slot[h] = "retired") ~> (mq[h] = "freed" \/ quit)
=============================================================================
