--------------------------- MODULE MailboxProofs ----------------------------
(***************************************************************************)
(* The scheduler of skynet is sound for any number of services, worker      *)
(* threads and pollers, any weights and any number of messages: the         *)
(* reference counts are right, a mailbox is in one place, only a launcher   *)
(* that has given its reference up can touch what is freed, and every step  *)
(* is one of the actors'.                                                   *)
(***************************************************************************)
EXTENDS Mailbox, FiniteSetTheorems, TLAPS

(* The points of a thread's operations, and the values of the variables.    *)
Ops == [at : {"idle", "grab", "push", "release", "delete", "publish", "announce"},
        h : Handles \cup {None}, m : Messages \cup {None}]
Launches == [at : {"idle", "create", "init", "publish", "failed", "reap", "drop"},
             h : Handles \cup {None}]
Dispatches ==
  [at : {"top", "grab", "reap", "drop", "next", "pop", "length", "cb", "rotate", "pushback",
         "doze", "wait", "exit"},
   q : Handles \cup {None}, nq : Handles \cup {None}, first : BOOLEAN, left : Nat]

TypeInv ==
  /\ slot \in [Handles -> {"unused", "live", "retired"}]
  /\ ctx \in [Handles -> {"none", "alive", "freed"}]
  /\ ref \in [Handles -> Int]
  /\ mq \in [Handles -> {"none", "alive", "freed"}]
  /\ queue \in [Handles -> Seq(Messages)]
  /\ in_global \in [Handles -> BOOLEAN] /\ release \in [Handles -> BOOLEAN]
  /\ global \in Seq(Handles)
  /\ op \in [Threads -> Ops] /\ launch \in [Workers -> Launches] /\ disp \in [Workers -> Dispatches]
  /\ quit \in BOOLEAN

(* Where a thread is tells what it has.                                     *)
OpShape(r) == (r.at # "idle" => r.h # None) /\ (r.at = "push" => r.m # None)
LaunchShape(r) == r.at = "idle" <=> r.h = None
DispShape(r) ==
  /\ r.at \in {"grab", "reap", "drop", "pop", "length", "cb", "rotate", "pushback"} => r.q # None
  /\ r.at \in {"next", "doze", "wait", "exit"} => r.q = None
  /\ r.nq # None <=> r.at = "pushback"

Shapes ==
  /\ \A t \in Threads : OpShape(op[t])
  /\ \A w \in Workers : LaunchShape(launch[w]) /\ DispShape(disp[w])
  /\ \A w \in Workers : launch[w].at # "idle" => disp[w].at = "cb"
  /\ \A w \in Workers : disp[w].at = "length" => Weight[w] >= 0

(* Who holds a context.                                                     *)
Serving == {"pop", "length", "cb", "rotate", "pushback"}
OpHolders(h) == {t \in Threads : op[t].at \in {"push", "release"} /\ op[t].h = h}
DispHolders(h) == {w \in Workers : disp[w].at \in Serving /\ disp[w].q = h}
LaunchHolders(h) == {w \in Workers : launch[w].at \in {"create", "init"} /\ launch[w].h = h}

(* ctx->ref is the number of references: the handle storage's and the       *)
(* threads'.                                                                *)
Counted ==
  \A h \in Handles :
    ref[h] = (IF slot[h] = "live" THEN 1 ELSE 0) + Cardinality(OpHolders(h))
             + Cardinality(DispHolders(h)) + Cardinality(LaunchHolders(h))

(* The stages of a service's life.                                          *)
Stages ==
  \A h \in Handles :
    /\ slot[h] = "unused" <=> ctx[h] = "none"
    /\ release[h] <=> ctx[h] = "freed"
    /\ ctx[h] # "alive" => ref[h] = 0
    /\ ctx[h] = "none" => mq[h] = "none"
    /\ mq[h] = "freed" => ctx[h] = "freed"
    /\ quit => ctx[h] # "alive"
    /\ mq[h] = "none" /\ ctx[h] # "none" => \E w \in Workers : launch[w].at = "create" /\ launch[w].h = h

(* One thread deletes a context that nobody holds any more.                 *)
Deleting ==
  /\ \A t \in Threads : op[t].at = "delete" => ref[op[t].h] = 0 /\ ctx[op[t].h] = "alive"
  /\ \A t, u \in Threads : op[t].at = "delete" /\ op[u].at = "delete" /\ op[t].h = op[u].h => t = u

Lives == Stages /\ Deleting

(* The global queue names a mailbox once; what is in a worker's or launcher's *)
(* hand is not in the global queue and in no other hand.                    *)
Listed(h) == \E i \in 1 .. Len(global) : global[i] = h
ListedOnce == \A i, j \in 1 .. Len(global) : global[i] = global[j] => i = j

OnePlace ==
  /\ ListedOnce
  /\ \A w \in Workers : \A h \in {disp[w].q, disp[w].nq, launch[w].h} : h # None => ~Listed(h)
  /\ \A w, v \in Workers :
       /\ disp[w].q # None /\ disp[w].q = disp[v].q => w = v
       /\ disp[w].nq # None /\ disp[w].nq = disp[v].nq => w = v
       /\ launch[w].h # None /\ launch[w].h = launch[v].h => w = v
       /\ disp[w].q # None => disp[w].q # disp[v].nq /\ disp[w].q # launch[v].h
       /\ disp[w].nq # None => disp[w].nq # launch[v].h

Somewhere(h) ==
  \/ Listed(h)
  \/ \E w \in Workers : h \in {disp[w].q, disp[w].nq, launch[w].h}

(* A mailbox with messages is somewhere, and nobody has one that is gone.   *)
Mails ==
  \A h \in Handles :
    /\ Listed(h) => mq[h] = "alive"
    /\ ~in_global[h] => queue[h] = <<>>
    /\ mq[h] # "alive" => ~in_global[h]
    /\ mq[h] = "alive" /\ ~in_global[h] /\ ~release[h] => ~Somewhere(h)
    /\ in_global[h] /\ ~quit => Somewhere(h)

Hands ==
  \A w \in Workers :
    /\ disp[w].q # None => mq[disp[w].q] = "alive"
    /\ disp[w].nq # None => mq[disp[w].nq] = "alive"
    /\ launch[w].at = "create" => mq[launch[w].h] = "none"
    /\ launch[w].at \notin {"idle", "create"} => mq[launch[w].h] = "alive"
    /\ disp[w].at = "drop" => release[disp[w].q]
    /\ launch[w].at = "drop" => release[launch[w].h]

(* Who is written to, or will be answered, has a mailbox.                   *)
Known(m) == m.src # System => mq[m.src] # "none"
Sources ==
  /\ \A h \in Handles : \A i \in 1 .. Len(queue[h]) : Known(queue[h][i])
  /\ \A t \in Threads : op[t].at \in {"grab", "push"} /\ op[t].m # None => Known(op[t].m) /\ mq[op[t].h] # "none"

Accounts == Counted /\ Lives /\ OnePlace /\ Mails /\ Hands /\ Sources

(* A launcher gives up one reference only, and the pointer it keeps is to   *)
(* the service it launches.                                                 *)
Pointer(t) ==
  /\ op[t].at = "publish" => Launched(t)
  /\ op[t].at = "announce" => mq[op[t].h] # "none"
  /\ Launched(t) => /\ op[t].at \in {"idle", "release", "delete", "publish"}
                    /\ op[t].at # "idle" => op[t].h = launch[t].h

Pointers ==
  /\ \A h \in Booted : mq[h] # "none"
  /\ \A t \in Threads : Pointer(t)

IInv == TypeInv /\ Shapes /\ Accounts /\ Pointers
-----------------------------------------------------------------------------
(* Where a thread may be after a step, and what it has there.               *)

TypeShape == TypeInv /\ Shapes

(* The operation a thread begins or goes on with is one it may have.        *)
LEMMA BusyShape ==
  ASSUME TypeShape, NEW t \in Threads, NEW a \in {"grab", "push", "release"}, NEW h \in Handles,
         NEW m \in Messages \cup {None}, a = "push" => m # None, Busy(t, a, h, m)
  PROVE  op' \in [Threads -> Ops] /\ (\A u \in Threads : OpShape(op'[u]))
<1> DEFINE r == [at |-> a, h |-> h, m |-> m]
<1>1. r \in Ops BY DEF Ops
<1>2. OpShape(r) BY HandlesAssumption DEF OpShape, HandlesAssumption
<1>3. op' = [op EXCEPT ![t] = r] BY DEF Busy
<1> HIDE DEF r
<1>4. QED BY <1>1, <1>2, <1>3 DEF TypeShape, TypeInv, Shapes

(* A thread that has ended its operation has nothing.                       *)
LEMMA IdleShape ==
  ASSUME TypeShape, NEW t \in Threads, op' = [op EXCEPT ![t] = NoOp]
  PROVE  op' \in [Threads -> Ops] /\ (\A u \in Threads : OpShape(op'[u]))
<1>1. NoOp \in Ops BY DEF Ops, NoOp
<1>2. OpShape(NoOp) BY DEF OpShape, NoOp
<1>3. QED BY <1>1, <1>2 DEF TypeShape, TypeInv, Shapes

(* A send or a touch begins with the look-up of the handle.                 *)
LEMMA SendShape ==
  ASSUME TypeShape, NEW t \in Threads, NEW h \in Handles, Send(t, h) \/ Touch(t, h)
  PROVE  TypeShape'
<1>1. CASE Send(t, h)
  <2> DEFINE m == [src |-> Self(t), type |-> "text"]
  <2>1. Self(t) \in Handles \cup {System}
    BY <1>1 DEF Send, Acting, Self, TypeShape, TypeInv, Shapes, LaunchShape, DispShape,
                Threads, Launches, Dispatches
  <2>2. m \in Messages BY <2>1 DEF Messages
  <2>3. Busy(t, "grab", h, m) BY <1>1 DEF Send
  <2> HIDE DEF m
  <2>4. op' \in [Threads -> Ops] /\ (\A u \in Threads : OpShape(op'[u])) BY <2>2, <2>3, BusyShape
  <2>5. QED BY <1>1, <2>4 DEF Send, TypeShape, TypeInv, Shapes
<1>2. CASE Touch(t, h)
  <2>1. Busy(t, "grab", h, None) BY <1>2 DEF Touch
  <2>2. op' \in [Threads -> Ops] /\ (\A u \in Threads : OpShape(op'[u])) BY <2>1, BusyShape
  <2>3. QED BY <1>2, <2>2 DEF Touch, TypeShape, TypeInv, Shapes
<1>3. QED BY <1>1, <1>2

(* The steps of skynet_context_push, release and delete_context keep the    *)
(* types.                                                                   *)
LEMMA OpShapeKept ==
  ASSUME TypeShape, NEW t \in Threads, OpStep(t)
  PROVE  TypeShape'
<1>0. op[t] \in Ops /\ OpShape(op[t]) BY DEF TypeShape, TypeInv, Shapes
<1>h. op[t].at # "idle" => op[t].h \in Handles BY <1>0 DEF OpShape, Ops
<1>1. CASE Grab(t)
  <2>1. CASE slot[op[t].h] = "live"
    <3> DEFINE a == IF op[t].m = None THEN "release" ELSE "push"
    <3>1. Busy(t, a, op[t].h, op[t].m) /\ a \in {"push", "release"} /\ (a = "push" => op[t].m # None)
      BY <1>1, <2>1 DEF Grab
    <3>2. op[t].m \in Messages \cup {None} /\ op[t].h \in Handles BY <1>0, <1>h, <1>1 DEF Ops, Grab
    <3> HIDE DEF a
    <3>3. op' \in [Threads -> Ops] /\ (\A u \in Threads : OpShape(op'[u])) BY <3>1, <3>2, BusyShape
    <3>4. ref' \in [Handles -> Int] BY <1>1, <2>1, <3>2 DEF Grab, TypeShape, TypeInv
    <3>5. QED BY <1>1, <3>3, <3>4 DEF Grab, TypeShape, TypeInv, Shapes
  <2>2. CASE slot[op[t].h] # "live"
    <3>1. op' \in [Threads -> Ops] /\ (\A u \in Threads : OpShape(op'[u])) /\ ref' = ref
      BY <1>1, <2>2, IdleShape DEF Grab
    <3>2. QED BY <1>1, <3>1 DEF Grab, TypeShape, TypeInv, Shapes
  <2>3. QED BY <2>1, <2>2
<1>2. CASE Push(t)
  <2>1. op[t].h \in Handles /\ op[t].m \in Messages
    BY <1>0, <1>h, <1>2 DEF Push, OpShape, Ops
  <2>2. op' \in [Threads -> Ops] /\ (\A u \in Threads : OpShape(op'[u]))
    BY <1>2, <2>1, BusyShape DEF Push
  <2>3. queue' \in [Handles -> Seq(Messages)] /\ global' \in Seq(Handles)
    BY <1>2, <2>1 DEF Push, MqPush, TypeShape, TypeInv
  <2>4. in_global' \in [Handles -> BOOLEAN]
    BY <1>2, <2>1 DEF Push, MqPush, TypeShape, TypeInv
  <2>5. QED BY <1>2, <2>2, <2>3, <2>4 DEF Push, TypeShape, TypeInv, Shapes
<1>3. CASE Release(t)
  <2>1. op[t].h \in Handles BY <1>h, <1>3 DEF Release
  <2>2. op' \in [Threads -> Ops] /\ (\A u \in Threads : OpShape(op'[u]))
    <3>1. CASE ref[op[t].h] = 1
      <4> DEFINE r == [op[t] EXCEPT !.at = "delete"]
      <4>1. r \in Ops /\ OpShape(r) BY <1>0, <1>3, <2>1, HandlesAssumption DEF Ops, OpShape, HandlesAssumption
      <4>2. op' = [op EXCEPT ![t] = r] BY <1>3, <3>1 DEF Release, TypeShape, TypeInv
      <4> HIDE DEF r
      <4>3. QED BY <4>1, <4>2 DEF TypeShape, TypeInv, Shapes
    <3>2. CASE ref[op[t].h] # 1 /\ Launched(t)
      <4> DEFINE r == [op[t] EXCEPT !.at = "publish"]
      <4>1. r \in Ops /\ OpShape(r) BY <1>0, <1>3, <2>1, HandlesAssumption DEF Ops, OpShape, HandlesAssumption
      <4>2. op' = [op EXCEPT ![t] = r] BY <1>3, <3>2 DEF Release, TypeShape, TypeInv
      <4> HIDE DEF r
      <4>3. QED BY <4>1, <4>2 DEF TypeShape, TypeInv, Shapes
    <3>3. CASE ref[op[t].h] # 1 /\ ~Launched(t)
      BY <1>3, <3>3, IdleShape DEF Release
    <3>4. QED BY <3>1, <3>2, <3>3
  <2>3. ref' \in [Handles -> Int] BY <1>3, <2>1 DEF Release, TypeShape, TypeInv
  <2>4. QED BY <1>3, <2>2, <2>3 DEF Release, TypeShape, TypeInv, Shapes
<1>4. CASE Delete(t)
  <2>1. op[t].h \in Handles BY <1>h, <1>4 DEF Delete
  <2>2. op' \in [Threads -> Ops] /\ (\A u \in Threads : OpShape(op'[u]))
    BY <1>4, IdleShape DEF Delete
  <2>3. global' \in Seq(Handles) /\ ctx' \in [Handles -> {"none", "alive", "freed"}]
    BY <1>4, <2>1 DEF Delete, MarkRelease, TypeShape, TypeInv
  <2>4. release' \in [Handles -> BOOLEAN]
    BY <1>4, <2>1 DEF Delete, MarkRelease, TypeShape, TypeInv
  <2>5. QED BY <1>4, <2>2, <2>3, <2>4 DEF Delete, TypeShape, TypeInv, Shapes
<1>5. CASE Announce(t)
  <2>1. PICK l \in Booted : \E s \in ReadHandle(op[t].h) : Busy(t, "grab", l, [src |-> s, type |-> "text"])
    BY <1>5 DEF Announce
  <2>2. PICK s \in ReadHandle(op[t].h) : Busy(t, "grab", l, [src |-> s, type |-> "text"]) BY <2>1
  <2>3. l \in Handles BY HandlesAssumption DEF Booted, HandlesAssumption
  <2>4. s \in Handles \cup {System} BY <1>h, <1>5 DEF ReadHandle, Announce
  <2> DEFINE m == [src |-> s, type |-> "text"]
  <2>5. m \in Messages BY <2>4 DEF Messages
  <2>6. Busy(t, "grab", l, m) BY <2>2
  <2> HIDE DEF m
  <2>7. op' \in [Threads -> Ops] /\ (\A u \in Threads : OpShape(op'[u])) BY <2>3, <2>5, <2>6, BusyShape
  <2>8. QED BY <1>5, <2>7 DEF Announce, TypeShape, TypeInv, Shapes
<1>6. QED BY <1>1, <1>2, <1>3, <1>4, <1>5 DEF OpStep

(* A launch goes on in the handler that began it.                           *)
LEMMA StepShape ==
  ASSUME TypeShape, NEW w \in Workers, NEW a \in {"init", "publish", "failed", "reap", "drop"},
         launch[w].at # "idle", Step(w, a)
  PROVE  /\ launch' \in [Workers -> Launches]
         /\ \A v \in Workers : LaunchShape(launch'[v]) /\ (launch'[v].at # "idle" => disp[v].at = "cb")
<1> DEFINE r == [launch[w] EXCEPT !.at = a]
<1>1. launch[w] \in Launches /\ LaunchShape(launch[w]) BY DEF TypeShape, TypeInv, Shapes
<1>2. r \in Launches BY <1>1 DEF Launches
<1>3. LaunchShape(r) BY <1>1 DEF Launches, LaunchShape
<1>4. launch' = [launch EXCEPT ![w] = r] BY DEF Step, TypeShape, TypeInv
<1> HIDE DEF r
<1>5. QED BY <1>2, <1>3, <1>4 DEF TypeShape, TypeInv, Shapes

(* A launch that has ended leaves nothing in the launcher's hand.           *)
LEMMA NoLaunchShape ==
  ASSUME TypeShape, NEW w \in Workers, launch' = [launch EXCEPT ![w] = NoLaunch]
  PROVE  /\ launch' \in [Workers -> Launches]
         /\ \A v \in Workers : LaunchShape(launch'[v]) /\ (launch'[v].at # "idle" => disp[v].at = "cb")
<1>1. NoLaunch \in Launches BY DEF Launches, NoLaunch
<1>2. LaunchShape(NoLaunch) /\ NoLaunch.at = "idle" BY DEF LaunchShape, NoLaunch
<1>3. QED BY <1>1, <1>2 DEF TypeShape, TypeInv, Shapes

(* A handler begins a launch.                                               *)
LEMMA RegisterShape ==
  ASSUME TypeShape, NEW w \in Workers, NEW h \in Handles, Register(w, h)
  PROVE  TypeShape'
<1> DEFINE r == [at |-> "create", h |-> h]
<1>1. r \in Launches BY DEF Launches
<1>2. LaunchShape(r) BY HandlesAssumption DEF LaunchShape, HandlesAssumption
<1>3. launch' = [launch EXCEPT ![w] = r] BY DEF Register
<1> HIDE DEF r
<1>4. disp[w].at = "cb" BY DEF Register
<1>5. /\ launch' \in [Workers -> Launches]
      /\ \A v \in Workers : LaunchShape(launch'[v]) /\ (launch'[v].at # "idle" => disp[v].at = "cb")
  BY <1>1, <1>2, <1>3, <1>4 DEF TypeShape, TypeInv, Shapes
<1>6. slot' \in [Handles -> {"unused", "live", "retired"}] /\ ctx' \in [Handles -> {"none", "alive", "freed"}]
      /\ ref' \in [Handles -> Int]
  BY DEF Register, TypeShape, TypeInv
<1>7. QED BY <1>5, <1>6 DEF Register, TypeShape, TypeInv, Shapes

(* A handler retires a handle.                                              *)
LEMMA KillShape ==
  ASSUME TypeShape, NEW w \in Workers, NEW h \in Handles, Kill(w, h)
  PROVE  TypeShape'
<1>1. slot' \in [Handles -> {"unused", "live", "retired"}]
  BY DEF Kill, Retire, TypeShape, TypeInv
<1>2. op' \in [Threads -> Ops] /\ (\A u \in Threads : OpShape(op'[u]))
  BY BusyShape DEF Kill, Retire, Threads
<1>3. QED BY <1>1, <1>2 DEF Kill, TypeShape, TypeInv, Shapes

(* A message that is dropped leaves the mailbox, and its source is told.    *)
LEMMA DropShape ==
  ASSUME TypeShape, NEW t \in Threads, NEW h \in Handles, DropOne(t, h)
  PROVE  /\ queue' \in [Handles -> Seq(Messages)]
         /\ op' \in [Threads -> Ops] /\ (\A u \in Threads : OpShape(op'[u]))
         /\ Head(queue[h]) \in Messages
<1>1. queue[h] \in Seq(Messages) /\ queue[h] # <<>> BY DEF DropOne, TypeShape, TypeInv
<1>2. Head(queue[h]) \in Messages /\ Tail(queue[h]) \in Seq(Messages) BY <1>1
<1>3. queue' \in [Handles -> Seq(Messages)] BY <1>2 DEF DropOne, TypeShape, TypeInv
<1>4. CASE Head(queue[h]).src = System
  BY <1>2, <1>3, <1>4 DEF DropOne, TypeShape, TypeInv, Shapes
<1>5. CASE Head(queue[h]).src # System
  <2> DEFINE m == [src |-> h, type |-> "error"]
  <2>1. m \in Messages BY DEF Messages
  <2>2. Head(queue[h]).src \in Handles BY <1>2, <1>5 DEF Messages
  <2>3. Busy(t, "grab", Head(queue[h]).src, m) BY <1>5 DEF DropOne
  <2> HIDE DEF m
  <2>4. op' \in [Threads -> Ops] /\ (\A u \in Threads : OpShape(op'[u]))
    BY <2>1, <2>2, <2>3, BusyShape
  <2>5. QED BY <1>2, <1>3, <2>4
<1>6. QED BY <1>4, <1>5

(* The steps of skynet_context_new keep the types.                          *)
LEMMA LaunchStepShape ==
  ASSUME TypeShape, NEW w \in Workers,
         MqCreate(w) \/ InitReturns(w) \/ Publish(w) \/ FailRetire(w) \/ FailReap(w) \/ FailDrop(w)
  PROVE  TypeShape'
<1>0. w \in Threads BY DEF Threads
<1>h. launch[w].at # "idle" => launch[w].h \in Handles
  BY DEF TypeShape, TypeInv, Shapes, LaunchShape, Launches
<1>1. CASE MqCreate(w)
  <2>1. launch[w].h \in Handles BY <1>h, <1>1 DEF MqCreate, Launching
  <2>2. /\ launch' \in [Workers -> Launches]
        /\ \A v \in Workers : LaunchShape(launch'[v]) /\ (launch'[v].at # "idle" => disp[v].at = "cb")
    BY <1>1, StepShape DEF MqCreate, Launching
  <2>3. mq' \in [Handles -> {"none", "alive", "freed"}] BY <1>1, <2>1 DEF MqCreate, TypeShape, TypeInv
  <2>4. in_global' \in [Handles -> BOOLEAN] BY <1>1, <2>1 DEF MqCreate, TypeShape, TypeInv
  <2>5. QED BY <1>1, <2>2, <2>3, <2>4 DEF MqCreate, TypeShape, TypeInv, Shapes
<1>2. CASE InitReturns(w)
  <2>1. launch[w].h \in Handles /\ Busy(w, "release", launch[w].h, None) BY <1>h, <1>2 DEF InitReturns, Launching
  <2>2. /\ launch' \in [Workers -> Launches]
        /\ \A v \in Workers : LaunchShape(launch'[v]) /\ (launch'[v].at # "idle" => disp[v].at = "cb")
    BY <1>2, StepShape DEF InitReturns, Launching
  <2>3. op' \in [Threads -> Ops] /\ (\A u \in Threads : OpShape(op'[u])) BY <1>0, <2>1, BusyShape
  <2>4. QED BY <1>2, <2>2, <2>3 DEF InitReturns, TypeShape, TypeInv, Shapes
<1>3. CASE Publish(w)
  <2>1. launch[w].h \in Handles BY <1>h, <1>3 DEF Publish
  <2>2. /\ launch' \in [Workers -> Launches]
        /\ \A v \in Workers : LaunchShape(launch'[v]) /\ (launch'[v].at # "idle" => disp[v].at = "cb")
    BY <1>3, NoLaunchShape DEF Publish
  <2>3. global' \in Seq(Handles) BY <1>3, <2>1 DEF Publish, TypeShape, TypeInv
  <2>4. op' \in [Threads -> Ops] /\ (\A u \in Threads : OpShape(op'[u]))
    <3>1. CASE op' = op BY <3>1 DEF TypeShape, TypeInv, Shapes
    <3>2. CASE op[w].at = "publish" /\ op' = [op EXCEPT ![w] = [@ EXCEPT !.at = "announce"]]
      <4> DEFINE r == [op[w] EXCEPT !.at = "announce"]
      <4>1. op[w] \in Ops /\ OpShape(op[w]) BY <1>0 DEF TypeShape, TypeInv, Shapes
      <4>2. r \in Ops /\ OpShape(r) BY <3>2, <4>1 DEF Ops, OpShape
      <4>3. op' = [op EXCEPT ![w] = r] BY <3>2
      <4> HIDE DEF r
      <4>4. QED BY <1>0, <4>2, <4>3 DEF TypeShape, TypeInv, Shapes
    <3>3. QED BY <1>3, <3>1, <3>2 DEF Publish
  <2>5. QED BY <1>3, <2>2, <2>3, <2>4 DEF Publish, TypeShape, TypeInv, Shapes
<1>4. CASE FailRetire(w)
  <2>1. launch[w].h \in Handles BY <1>h, <1>4 DEF FailRetire, Launching
  <2>2. /\ launch' \in [Workers -> Launches]
        /\ \A v \in Workers : LaunchShape(launch'[v]) /\ (launch'[v].at # "idle" => disp[v].at = "cb")
    BY <1>4, StepShape DEF FailRetire, Launching
  <2>3. slot' \in [Handles -> {"unused", "live", "retired"}]
    BY ZenonT(30), <1>4, <2>1 DEF FailRetire, Retire, TypeShape, TypeInv
  <2>4. op' \in [Threads -> Ops] /\ (\A u \in Threads : OpShape(op'[u]))
    <3>1. CASE Retire(w, launch[w].h) BY <1>0, <2>1, <3>1, BusyShape DEF Retire
    <3>2. CASE op' = op BY <3>2 DEF TypeShape, TypeInv, Shapes
    <3>3. QED BY <1>4, <3>1, <3>2 DEF FailRetire
  <2>5. QED BY <1>4, <2>2, <2>3, <2>4 DEF FailRetire, TypeShape, TypeInv, Shapes
<1>5. CASE FailReap(w)
  <2>1. launch[w].h \in Handles BY <1>h, <1>5 DEF FailReap, Launching
  <2>2. /\ launch' \in [Workers -> Launches]
        /\ \A v \in Workers : LaunchShape(launch'[v]) /\ (launch'[v].at # "idle" => disp[v].at = "cb")
    BY <1>5, StepShape, NoLaunchShape DEF FailReap, Launching
  <2>g. global' = global \/ global' = Append(global, launch[w].h) BY <1>5 DEF FailReap
  <2>a. Append(global, launch[w].h) \in Seq(Handles) BY <2>1 DEF TypeShape, TypeInv
  <2>3. global' \in Seq(Handles) BY <2>a, <2>g DEF TypeShape, TypeInv
  <2>4. QED BY <1>5, <2>2, <2>3 DEF FailReap, TypeShape, TypeInv, Shapes
<1>6. CASE FailDrop(w)
  <2>1. launch[w].h \in Handles BY <1>h, <1>6 DEF FailDrop, Launching
  <2>2. CASE DropOne(w, launch[w].h) /\ UNCHANGED <<mq, in_global, launch>>
    BY <1>0, <1>6, <2>1, <2>2, DropShape DEF FailDrop, TypeShape, TypeInv, Shapes
  <2>3. CASE FreeQueue(launch[w].h) /\ launch' = [launch EXCEPT ![w] = NoLaunch] /\ UNCHANGED <<queue, op>>
    <3>1. /\ launch' \in [Workers -> Launches]
          /\ \A v \in Workers : LaunchShape(launch'[v]) /\ (launch'[v].at # "idle" => disp[v].at = "cb")
      BY <2>3, NoLaunchShape
    <3>2. mq' \in [Handles -> {"none", "alive", "freed"}] BY <2>1, <2>3 DEF FreeQueue, TypeShape, TypeInv
    <3>3. in_global' \in [Handles -> BOOLEAN] BY <2>1, <2>3 DEF FreeQueue, TypeShape, TypeInv
    <3>4. QED BY <1>6, <2>3, <3>1, <3>2, <3>3 DEF FailDrop, TypeShape, TypeInv, Shapes
  <2>4. QED BY <1>6, <2>2, <2>3 DEF FailDrop
<1>7. QED BY <1>1, <1>2, <1>3, <1>4, <1>5, <1>6

(* The dispatcher's moves.                                                  *)
DispSound ==
  /\ disp' \in [Workers -> Dispatches]
  /\ \A v \in Workers : DispShape(disp'[v]) /\ (launch[v].at # "idle" => disp'[v].at = "cb")
  /\ \A v \in Workers : disp'[v].at = "length" => Weight[v] >= 0

(* One worker's new point is enough to look at.                             *)
LEMMA DispMoves ==
  ASSUME TypeShape, NEW w \in Workers, NEW r \in Dispatches, DispShape(r),
         launch[w].at = "idle", r.at = "length" => Weight[w] >= 0, disp' = [disp EXCEPT ![w] = r]
  PROVE  DispSound
BY DEF DispSound, TypeShape, TypeInv, Shapes

(* The worker goes on with the same mailbox.                                *)
LEMMA GotoShape ==
  ASSUME TypeShape, NEW w \in Workers, launch[w].at = "idle",
         NEW a \in {"top", "grab", "reap", "drop", "pop", "length", "cb", "rotate", "wait"},
         disp[w].at # "pushback", a = "wait" => disp[w].at = "doze", a = "length" => Weight[w] >= 0,
         a \in {"grab", "reap", "drop", "pop", "length", "cb", "rotate"} => disp[w].q # None,
         Goto(w, a)
  PROVE  DispSound
<1> DEFINE r == [disp[w] EXCEPT !.at = a]
<1>1. disp[w] \in Dispatches /\ DispShape(disp[w]) BY DEF TypeShape, TypeInv, Shapes
<1>2. r \in Dispatches BY <1>1 DEF Dispatches
<1>3. DispShape(r) /\ r.at = a BY <1>1 DEF Dispatches, DispShape
<1>4. disp' = [disp EXCEPT ![w] = r] BY DEF Goto, TypeShape, TypeInv
<1> HIDE DEF r
<1>5. QED BY <1>2, <1>3, <1>4, DispMoves

(* The worker goes on with the mailbox `q`, and with none to follow.        *)
LEMMA KeepShape ==
  ASSUME TypeShape, NEW w \in Workers, launch[w].at = "idle",
         NEW a \in {"top", "grab", "next", "doze", "exit"}, NEW q \in Handles \cup {None},
         a = "grab" => q # None, a \in {"next", "doze", "exit"} => q = None, Keep(w, a, q)
  PROVE  DispSound
<1> DEFINE r == [disp[w] EXCEPT !.at = a, !.q = q, !.nq = None]
<1>1. disp[w] \in Dispatches BY DEF TypeShape, TypeInv
<1>2. r \in Dispatches BY <1>1 DEF Dispatches
<1>3. DispShape(r) /\ r.at = a BY <1>1 DEF Dispatches, DispShape
<1>4. disp' = [disp EXCEPT ![w] = r] BY DEF Keep, TypeShape, TypeInv
<1> HIDE DEF r
<1>5. QED BY <1>2, <1>3, <1>4, DispMoves

(* skynet_globalmq_pop gives a mailbox, or nothing.                         *)
LEMMA GlobalPopShape ==
  ASSUME TypeShape, NEW w \in Workers, launch[w].at = "idle",
         NEW a \in {"top", "grab"}, NEW b \in {"top", "doze"}, GlobalPop(w, a, b)
  PROVE  DispSound /\ global' \in Seq(Handles)
<1>1. CASE global = <<>>
  <2>1. Keep(w, b, None) /\ global' = global BY <1>1 DEF GlobalPop
  <2>2. DispSound BY <2>1, KeepShape
  <2>3. QED BY <2>1, <2>2 DEF TypeShape, TypeInv
<1>2. CASE global # <<>>
  <2>1. Head(global) \in Handles /\ Tail(global) \in Seq(Handles) BY <1>2 DEF TypeShape, TypeInv
  <2>2. Keep(w, a, Head(global)) /\ global' = Tail(global) BY <1>2 DEF GlobalPop
  <2>3. Head(global) # None BY <2>1, HandlesAssumption DEF HandlesAssumption
  <2>4. DispSound BY <2>1, <2>2, <2>3, KeepShape
  <2>5. QED BY <2>1, <2>2, <2>4
<1>3. QED BY <1>1, <1>2

(* The steps of skynet_context_message_dispatch keep the types; the number  *)
(* of messages to take comes from a length.                                 *)
LEMMA DispStepShape ==
  ASSUME TypeShape, NEW w \in Workers,
         \/ Top(w) \/ GrabContext(w) \/ Reap(w) \/ Drop(w) \/ NextQueue(w) \/ Pop(w)
         \/ Length(w) \/ Return(w) \/ Rotate(w) \/ PushBack(w) \/ Doze(w) \/ Wakeup(w)
  PROVE  TypeShape'
<1>0. w \in Threads BY DEF Threads
<1>a. launch[w].at = "idle"
  BY DEF Top, GrabContext, Reap, Drop, NextQueue, Pop, Length, Return, Rotate, PushBack, Doze, Wakeup, At
<1>d. disp[w] \in Dispatches /\ DispShape(disp[w]) BY DEF TypeShape, TypeInv, Shapes
<1>q. disp[w].at \in {"grab", "reap", "drop", "pop", "length", "cb", "rotate", "pushback"} =>
        disp[w].q \in Handles /\ disp[w].q # None
  BY <1>d DEF DispShape, Dispatches
<1>n. NoOp \in Ops BY DEF Ops, NoOp
<1>1. CASE Top(w)
  <2>1. DispSound /\ global' \in Seq(Handles)
    <3>1. CASE quit
      <4>1. Keep(w, "exit", None) /\ global' = global BY <1>1, <3>1 DEF Top
      <4>2. DispSound BY <1>a, <4>1, KeepShape
      <4>3. QED BY <4>1, <4>2 DEF TypeShape, TypeInv
    <3>2. CASE ~quit /\ disp[w].q # None
      <4>1. Goto(w, "grab") /\ global' = global /\ disp[w].at = "top" BY <1>1, <3>2 DEF Top, At
      <4>2. DispSound BY <1>a, <3>2, <4>1, GotoShape
      <4>3. QED BY <4>1, <4>2 DEF TypeShape, TypeInv
    <3>3. CASE ~quit /\ disp[w].q = None
      <4>1. GlobalPop(w, "grab", "doze") BY <1>1, <3>3 DEF Top
      <4>2. QED BY <1>a, <4>1, GlobalPopShape
    <3>4. QED BY <3>1, <3>2, <3>3
  <2>2. QED BY <1>1, <2>1 DEF Top, DispSound, TypeShape, TypeInv, Shapes
<1>2. CASE GrabContext(w)
  <2>0. disp[w].at = "grab" BY <1>2 DEF GrabContext, At
  <2>1. DispSound /\ ref' \in [Handles -> Int]
    <3>1. CASE slot[disp[w].q] = "live"
      <4> DEFINE r == [disp[w] EXCEPT !.at = "pop", !.first = TRUE, !.left = 0]
      <4>1. r \in Dispatches BY <1>d DEF Dispatches
      <4>2. DispShape(r) /\ r.at = "pop" BY <1>d, <2>0 DEF Dispatches, DispShape
      <4>3. disp' = [disp EXCEPT ![w] = r] BY <1>2, <3>1 DEF GrabContext, TypeShape, TypeInv
      <4> HIDE DEF r
      <4>4. DispSound BY <1>a, <4>1, <4>2, <4>3, DispMoves
      <4>5. ref' \in [Handles -> Int] BY <1>2, <1>q, <2>0, <3>1 DEF GrabContext, TypeShape, TypeInv
      <4>6. QED BY <4>4, <4>5
    <3>2. CASE slot[disp[w].q] # "live"
      <4>1. Goto(w, "reap") /\ ref' = ref BY <1>2, <3>2 DEF GrabContext
      <4>2. DispSound BY <1>a, <1>q, <2>0, <4>1, GotoShape
      <4>3. QED BY <4>1, <4>2 DEF TypeShape, TypeInv
    <3>3. QED BY <3>1, <3>2
  <2>2. QED BY <1>2, <2>1 DEF GrabContext, DispSound, TypeShape, TypeInv, Shapes
<1>3. CASE Reap(w)
  <2>0. disp[w].at = "reap" BY <1>3 DEF Reap, At
  <2>1. CASE Goto(w, "drop") /\ UNCHANGED global
    <3>1. DispSound BY <1>a, <1>q, <2>0, <2>1, GotoShape
    <3>2. QED BY <1>3, <2>1, <3>1 DEF Reap, DispSound, TypeShape, TypeInv, Shapes
  <2>2. CASE Keep(w, "next", None) /\ global' = Append(global, disp[w].q)
    <3>1. DispSound BY <1>a, <2>2, KeepShape
    <3>2. global' \in Seq(Handles) BY <1>q, <2>0, <2>2 DEF TypeShape, TypeInv
    <3>3. QED BY <1>3, <3>1, <3>2 DEF Reap, DispSound, TypeShape, TypeInv, Shapes
  <2>3. QED BY <1>3, <2>1, <2>2 DEF Reap
<1>4. CASE Drop(w)
  <2>0. disp[w].q \in Handles BY <1>q, <1>4 DEF Drop, At
  <2>1. CASE DropOne(w, disp[w].q) /\ UNCHANGED <<mq, in_global, disp>>
    BY <1>0, <1>4, <2>0, <2>1, DropShape DEF Drop, TypeShape, TypeInv, Shapes
  <2>2. CASE FreeQueue(disp[w].q) /\ Keep(w, "next", None) /\ UNCHANGED <<queue, op>>
    <3>1. DispSound BY <1>a, <2>2, KeepShape
    <3>2. mq' \in [Handles -> {"none", "alive", "freed"}] BY <2>0, <2>2 DEF FreeQueue, TypeShape, TypeInv
    <3>3. in_global' \in [Handles -> BOOLEAN] BY <2>0, <2>2 DEF FreeQueue, TypeShape, TypeInv
    <3>4. QED BY <1>4, <2>2, <3>1, <3>2, <3>3 DEF Drop, DispSound, TypeShape, TypeInv, Shapes
  <2>3. QED BY <1>4, <2>1, <2>2 DEF Drop
<1>5. CASE NextQueue(w)
  <2>1. DispSound /\ global' \in Seq(Handles) BY <1>a, <1>5, GlobalPopShape DEF NextQueue
  <2>2. QED BY <1>5, <2>1 DEF NextQueue, DispSound, TypeShape, TypeInv, Shapes
<1>6. CASE Pop(w)
  <2>0. disp[w].at = "pop" /\ disp[w].q \in Handles BY <1>q, <1>6 DEF Pop, At
  <2>1. CASE queue[disp[w].q] # <<>>
    <3> DEFINE a == IF disp[w].first /\ Weight[w] >= 0 THEN "length" ELSE "cb"
    <3>1. a \in {"length", "cb"} /\ (a = "length" => Weight[w] >= 0) OBVIOUS
    <3>2. Goto(w, a) /\ in_global' = in_global /\ op' = op
          /\ queue' = [queue EXCEPT ![disp[w].q] = Tail(@)] BY <1>6, <2>1 DEF Pop
    <3> HIDE DEF a
    <3>3. DispSound BY <1>a, <1>q, <2>0, <3>1, <3>2, GotoShape
    <3>4. Tail(queue[disp[w].q]) \in Seq(Messages) BY <2>0, <2>1 DEF TypeShape, TypeInv
    <3>5. queue' \in [Handles -> Seq(Messages)] BY <2>0, <3>2, <3>4 DEF TypeShape, TypeInv
    <3>6. QED BY <1>6, <3>2, <3>3, <3>5 DEF Pop, DispSound, TypeShape, TypeInv, Shapes
  <2>2. CASE queue[disp[w].q] = <<>>
    <3>1. /\ in_global' = [in_global EXCEPT ![disp[w].q] = FALSE]
          /\ Busy(w, "release", disp[w].q, None) /\ Keep(w, "next", None) /\ queue' = queue
      BY <1>6, <2>2 DEF Pop
    <3>2. DispSound BY <1>a, <3>1, KeepShape
    <3>3. op' \in [Threads -> Ops] /\ (\A u \in Threads : OpShape(op'[u])) BY <1>0, <2>0, <3>1, BusyShape
    <3>4. in_global' \in [Handles -> BOOLEAN] BY <2>0, <3>1 DEF TypeShape, TypeInv
    <3>5. QED BY <1>6, <3>1, <3>2, <3>3, <3>4 DEF Pop, DispSound, TypeShape, TypeInv, Shapes
  <2>3. QED BY <2>1, <2>2
<1>7. CASE Length(w)
  <2>0. disp[w].at = "length" /\ disp[w].q \in Handles BY <1>q, <1>7 DEF Length, At
  <2> DEFINE n == Len(queue[disp[w].q]) \div 2 ^ Weight[w]
             l == IF n > 1 THEN n - 1 ELSE 0
             r == [disp[w] EXCEPT !.at = "cb", !.left = l]
  <2>1. disp' = [disp EXCEPT ![w] = r] BY <1>7 DEF Length, TypeShape, TypeInv
  <2>2. 2 ^ Weight[w] \in Nat \ {0} /\ Len(queue[disp[w].q]) \in Nat
    BY <2>0, ThreadsAssumption DEF ThreadsAssumption, TypeShape, TypeInv, Shapes
  <2>3. l \in Nat
    <3>1. \A i \in Nat : \A k \in Nat \ {0} : i \div k \in Nat OBVIOUS
    <3>2. n \in Nat BY <2>2, <3>1
    <3> HIDE DEF n
    <3>3. QED BY <3>2
  <2> HIDE DEF l
  <2>4. r \in Dispatches BY <1>d, <2>3 DEF Dispatches
  <2>5. DispShape(r) /\ r.at = "cb" BY <1>d, <2>0 DEF Dispatches, DispShape
  <2> HIDE DEF r
  <2>6. DispSound BY <1>a, <2>1, <2>4, <2>5, DispMoves
  <2>7. QED BY <1>7, <2>6 DEF Length, DispSound, TypeShape, TypeInv, Shapes
<1>8. CASE Return(w)
  <2>0. disp[w].at = "cb" BY <1>8 DEF Return, At
  <2>1. CASE disp[w].left = 0
    <3>1. Goto(w, "rotate") BY <1>8, <2>1 DEF Return, Goto, TypeShape, TypeInv
    <3>2. DispSound BY <1>a, <1>q, <2>0, <3>1, GotoShape
    <3>3. QED BY <1>8, <3>2 DEF Return, DispSound, TypeShape, TypeInv, Shapes
  <2>2. CASE disp[w].left # 0
    <3> DEFINE l == disp[w].left - 1
               r == [disp[w] EXCEPT !.at = "pop", !.first = FALSE, !.left = l]
    <3>0. l \in Nat BY <1>d, <2>2 DEF Dispatches
    <3>1. disp' = [disp EXCEPT ![w] = r] BY <1>8, <2>2 DEF Return, TypeShape, TypeInv
    <3> HIDE DEF l
    <3>2. r \in Dispatches BY <1>d, <3>0 DEF Dispatches
    <3>3. DispShape(r) /\ r.at = "pop" BY <1>d, <2>0 DEF Dispatches, DispShape
    <3> HIDE DEF r
    <3>4. DispSound BY <1>a, <3>1, <3>2, <3>3, DispMoves
    <3>5. QED BY <1>8, <3>4 DEF Return, DispSound, TypeShape, TypeInv, Shapes
  <2>3. QED BY <2>1, <2>2
<1>9. CASE Rotate(w)
  <2>0. disp[w].at = "rotate" BY <1>9 DEF Rotate, At
  <2>1. CASE global = <<>>
    <3>1. Goto(w, "top") /\ Busy(w, "release", disp[w].q, None) /\ global' = global BY <1>9, <2>1 DEF Rotate
    <3>2. DispSound BY <1>a, <2>0, <3>1, GotoShape
    <3>3. op' \in [Threads -> Ops] /\ (\A u \in Threads : OpShape(op'[u])) BY <1>0, <1>q, <2>0, <3>1, BusyShape
    <3>4. QED BY <1>9, <3>1, <3>2, <3>3 DEF Rotate, DispSound, TypeShape, TypeInv, Shapes
  <2>2. CASE global # <<>>
    <3>1. Head(global) \in Handles /\ Tail(global) \in Seq(Handles) BY <2>2 DEF TypeShape, TypeInv
    <3>2. Head(global) # None BY <3>1, HandlesAssumption DEF HandlesAssumption
    <3> DEFINE g == Head(global)
               r == [disp[w] EXCEPT !.at = "pushback", !.nq = g]
    <3>3. disp' = [disp EXCEPT ![w] = r] /\ global' = Tail(global) /\ op' = op
      BY <1>9, <2>2 DEF Rotate, TypeShape, TypeInv
    <3>4. g \in Handles /\ g # None BY <3>1, <3>2
    <3> HIDE DEF g
    <3>5. r \in Dispatches BY <1>d, <3>4 DEF Dispatches
    <3>6. DispShape(r) /\ r.at = "pushback" BY <1>d, <2>0, <3>4 DEF Dispatches, DispShape
    <3> HIDE DEF r
    <3>7. DispSound BY <1>a, <3>3, <3>5, <3>6, DispMoves
    <3>8. QED BY <1>9, <3>1, <3>3, <3>7 DEF Rotate, DispSound, TypeShape, TypeInv, Shapes
  <2>3. QED BY <2>1, <2>2
<1>10. CASE PushBack(w)
  <2>0. disp[w].at = "pushback" /\ disp[w].q \in Handles BY <1>q, <1>10 DEF PushBack, At
  <2>1. Keep(w, "top", disp[w].nq) /\ Busy(w, "release", disp[w].q, None)
        /\ global' = Append(global, disp[w].q) BY <1>10 DEF PushBack
  <2>2. disp[w].nq \in Handles \cup {None} BY <1>d DEF Dispatches
  <2>3. DispSound BY <1>a, <2>1, <2>2, KeepShape
  <2>4. op' \in [Threads -> Ops] /\ (\A u \in Threads : OpShape(op'[u])) BY <1>0, <2>0, <2>1, BusyShape
  <2>5. global' \in Seq(Handles) BY <2>0, <2>1 DEF TypeShape, TypeInv
  <2>6. QED BY <1>10, <2>3, <2>4, <2>5 DEF PushBack, DispSound, TypeShape, TypeInv, Shapes
<1>11. CASE Doze(w)
  <2>1. DispSound BY <1>a, <1>11, GotoShape DEF Doze, At
  <2>2. QED BY <1>11, <2>1 DEF Doze, DispSound, TypeShape, TypeInv, Shapes
<1>12. CASE Wakeup(w)
  <2>1. DispSound BY <1>a, <1>12, GotoShape DEF Wakeup, At
  <2>2. QED BY <1>12, <2>1 DEF Wakeup, DispSound, TypeShape, TypeInv, Shapes
<1>13. QED BY <1>1, <1>2, <1>3, <1>4, <1>5, <1>6, <1>7, <1>8, <1>9, <1>10, <1>11, <1>12

(* The last worker's step and the end.                                      *)
LEMMA QuitShape ==
  ASSUME TypeShape, Quit
  PROVE  TypeShape'
<1>1. \A w \in Workers : disp[w] \in Dispatches /\ DispShape(disp[w]) BY DEF TypeShape, TypeInv, Shapes
<1>2. ASSUME NEW r \in Dispatches, DispShape(r), r.at = "wait"
      PROVE  LET s == [r EXCEPT !.at = "top"] IN s \in Dispatches /\ DispShape(s) /\ s.at = "top"
  <2> DEFINE s == [r EXCEPT !.at = "top"]
  <2>1. s \in Dispatches BY DEF Dispatches
  <2>2. s.at = "top" /\ s.q = r.q /\ s.nq = r.nq BY DEF Dispatches
  <2> HIDE DEF s
  <2>3. DispShape(s) BY <1>2, <2>1, <2>2 DEF DispShape
  <2>4. QED BY <2>1, <2>2, <2>3 DEF s
<1>3. \A w \in Workers : disp[w].at = "wait" => launch[w].at = "idle" BY DEF TypeShape, Shapes
<1>4. disp' = [w \in Workers |-> IF disp[w].at = "wait" THEN [disp[w] EXCEPT !.at = "top"] ELSE disp[w]]
  BY DEF Quit
<1>5. ASSUME NEW w \in Workers
      PROVE  /\ disp'[w] \in Dispatches /\ DispShape(disp'[w])
             /\ disp'[w] = disp[w] \/ (disp'[w].at = "top" /\ launch[w].at = "idle")
  <2>1. CASE disp[w].at = "wait"
    <3>1. disp'[w] = [disp[w] EXCEPT !.at = "top"] BY <1>4, <2>1
    <3>2. QED BY <1>1, <1>2, <1>3, <2>1, <3>1
  <2>2. CASE disp[w].at # "wait"
    <3>1. disp'[w] = disp[w] BY <1>4, <2>2
    <3>2. disp[w] \in Dispatches /\ DispShape(disp[w]) BY <1>1
    <3>3. disp'[w] \in Dispatches BY <3>1, <3>2
    <3>4. DispShape(disp'[w]) BY <3>1, <3>2, <3>3 DEF DispShape
    <3>5. QED BY <3>1, <3>3, <3>4
  <2>3. QED BY <2>1, <2>2
<1>6. disp' \in [Workers -> Dispatches] BY <1>4, <1>5
<1>7. DispSound BY <1>5, <1>6 DEF DispSound, TypeShape, Shapes
<1>8. quit' \in BOOLEAN BY DEF Quit
<1>9. QED BY <1>7, <1>8 DEF Quit, DispSound, TypeShape, TypeInv, Shapes

(* Every step keeps the types and the shapes.                               *)
LEMMA ShapeKept ==
  ASSUME TypeShape, [Next]_vars
  PROVE  TypeShape'
<1>1. CASE \E t \in Threads : OpStep(t) BY <1>1, OpShapeKept
<1>2. CASE \E w \in Workers : WorkerStep(w) \/ Wakeup(w)
  BY <1>2, LaunchStepShape, DispStepShape DEF WorkerStep
<1>3. CASE Choice BY <1>3, SendShape, KillShape, RegisterShape DEF Choice
<1>4. CASE Quit BY <1>4, QuitShape
<1>5. CASE UNCHANGED vars
  BY <1>5 DEF vars, TypeShape, TypeInv, Shapes
<1>6. QED BY <1>1, <1>2, <1>3, <1>4, <1>5 DEF Next, Ended
-----------------------------------------------------------------------------
(* The global queue as a set.                                               *)

(* skynet_globalmq_push of a mailbox that is not in the list.               *)
LEMMA AppendListed ==
  ASSUME global \in Seq(Handles), NEW h \in Handles, global' = Append(global, h), ListedOnce, ~Listed(h)
  PROVE  ListedOnce' /\ \A k : Listed(k)' <=> Listed(k) \/ k = h
<1>1. /\ Len(global') = Len(global) + 1 /\ Len(global) \in Nat
      /\ \A i \in 1 .. Len(global) : global'[i] = global[i]
      /\ global'[Len(global) + 1] = h
  OBVIOUS
<1>2. ASSUME NEW k PROVE Listed(k)' <=> Listed(k) \/ k = h
  <2>1. ASSUME Listed(k)' PROVE Listed(k) \/ k = h
    BY <1>1, <2>1 DEF Listed
  <2>2. ASSUME Listed(k) PROVE Listed(k)' BY <1>1, <2>2 DEF Listed
  <2>3. ASSUME k = h PROVE Listed(k)' BY <1>1, <2>3 DEF Listed
  <2>4. QED BY <2>1, <2>2, <2>3
<1>3. ListedOnce' BY <1>1 DEF Listed, ListedOnce
<1>4. QED BY <1>2, <1>3

(* skynet_globalmq_pop takes the first and only that.                       *)
LEMMA TailListed ==
  ASSUME global \in Seq(Handles), global # <<>>, global' = Tail(global), ListedOnce
  PROVE  /\ ListedOnce' /\ Head(global) \in Handles /\ Listed(Head(global))
         /\ \A k : Listed(k)' <=> Listed(k) /\ k # Head(global)
<1>1. /\ Len(global) \in Nat \ {0} /\ Len(global') = Len(global) - 1
      /\ \A i \in 1 .. Len(global') : global'[i] = global[i + 1]
      /\ Head(global) = global[1] /\ Head(global) \in Handles
  OBVIOUS
<1>2. Listed(Head(global)) BY <1>1 DEF Listed
<1>3. ASSUME NEW k PROVE Listed(k)' <=> Listed(k) /\ k # Head(global)
  <2>1. ASSUME Listed(k)' PROVE Listed(k) /\ k # Head(global)
    <3>1. PICK i \in 1 .. Len(global') : global'[i] = k BY <2>1 DEF Listed
    <3>2. i + 1 \in 1 .. Len(global) /\ global[i + 1] = k /\ i + 1 # 1 /\ 1 \in 1 .. Len(global) BY <1>1, <3>1
    <3>3. QED BY <1>1, <3>2 DEF Listed, ListedOnce
  <2>2. ASSUME Listed(k), k # Head(global) PROVE Listed(k)'
    <3>1. PICK i \in 1 .. Len(global) : global[i] = k BY <2>2 DEF Listed
    <3>2. i - 1 \in 1 .. Len(global') /\ (i - 1) + 1 = i BY <1>1, <2>2, <3>1
    <3>3. global'[i - 1] = k BY <1>1, <3>1, <3>2
    <3>4. QED BY <3>2, <3>3 DEF Listed
  <2>3. QED BY <2>1, <2>2
<1>4. ListedOnce'
  <2>1. SUFFICES ASSUME NEW i \in 1 .. Len(global'), NEW j \in 1 .. Len(global'), global'[i] = global'[j]
                 PROVE  i = j
    BY DEF ListedOnce
  <2>2. i + 1 \in 1 .. Len(global) /\ j + 1 \in 1 .. Len(global) BY <1>1
  <2>3. global[i + 1] = global[j + 1] BY <1>1, <2>1
  <2>4. i + 1 = j + 1 BY <2>2, <2>3 DEF ListedOnce
  <2>5. QED BY <2>4
<1>5. QED BY <1>1, <1>2, <1>3, <1>4
-----------------------------------------------------------------------------
(* The references to a context: the sum of what the threads hold.           *)

SlotHold(s) == IF s = "live" THEN 1 ELSE 0
OpHold(r, h) == IF r.at \in {"push", "release"} /\ r.h = h THEN 1 ELSE 0
DispHold(r, h) == IF r.at \in Serving /\ r.q = h THEN 1 ELSE 0
LaunchHold(r, h) == IF r.at \in {"create", "init"} /\ r.h = h THEN 1 ELSE 0
Held(t, h) ==
  OpHold(op[t], h) + IF t \in Workers THEN DispHold(disp[t], h) + LaunchHold(launch[t], h) ELSE 0

(* The step is one of thread `t`.                                           *)
Moved(t) ==
  \A u \in Threads : u # t =>
    op'[u] = op[u] /\ (u \in Workers => disp'[u] = disp[u] /\ launch'[u] = launch[u])

(* One member of a finite set comes or goes.                                *)
LEMMA CountOne ==
  ASSUME NEW S, NEW T, NEW U, IsFiniteSet(U), S \subseteq U, T \subseteq U, NEW t,
         \A u \in U : u # t => (u \in S <=> u \in T)
  PROVE  /\ Cardinality(S) \in Nat /\ Cardinality(T) \in Nat
         /\ t \in S \cap T => Cardinality(T) = Cardinality(S)
         /\ t \notin S \cup T => Cardinality(T) = Cardinality(S)
         /\ t \in T \ S => Cardinality(T) = Cardinality(S) + 1
         /\ t \in S \ T => Cardinality(T) = Cardinality(S) - 1
<1>1. IsFiniteSet(S) /\ IsFiniteSet(T) BY FS_Subset
<1>2. Cardinality(S) \in Nat /\ Cardinality(T) \in Nat BY <1>1, FS_CardinalityType
<1>3. (t \in S <=> t \in T) => T = S OBVIOUS
<1>4. ASSUME t \in T \ S PROVE Cardinality(T) = Cardinality(S) + 1
  <2>1. T = S \cup {t} BY <1>4
  <2>2. QED BY <1>1, <1>4, <2>1, FS_AddElement
<1>5. ASSUME t \in S \ T PROVE Cardinality(T) = Cardinality(S) - 1
  <2>1. T = S \ {t} BY <1>5
  <2>2. QED BY <1>1, <1>5, <2>1, FS_RemoveElement
<1>6. QED BY <1>2, <1>3, <1>4, <1>5

(* There are finitely many holders.                                         *)
LEMMA HoldersFinite ==
  ASSUME NEW h
  PROVE  /\ OpHolders(h) \subseteq Threads /\ DispHolders(h) \subseteq Workers /\ LaunchHolders(h) \subseteq Workers
         /\ IsFiniteSet(Threads) /\ IsFiniteSet(Workers)
         /\ IsFiniteSet(OpHolders(h)) /\ IsFiniteSet(DispHolders(h)) /\ IsFiniteSet(LaunchHolders(h))
         /\ Cardinality(OpHolders(h)) \in Nat /\ Cardinality(DispHolders(h)) \in Nat
         /\ Cardinality(LaunchHolders(h)) \in Nat
<1>1. OpHolders(h) \subseteq Threads /\ DispHolders(h) \subseteq Workers /\ LaunchHolders(h) \subseteq Workers
  BY DEF OpHolders, DispHolders, LaunchHolders
<1>2. IsFiniteSet(Threads) /\ IsFiniteSet(Workers) BY ThreadsAssumption, FS_Union DEF ThreadsAssumption, Threads
<1>3. IsFiniteSet(OpHolders(h)) /\ IsFiniteSet(DispHolders(h)) /\ IsFiniteSet(LaunchHolders(h))
  BY <1>1, <1>2, FS_Subset
<1>4. QED BY <1>1, <1>2, <1>3, FS_CardinalityType

(* A send or release in progress comes or goes.                             *)
LEMMA OpCount ==
  ASSUME NEW t \in Threads, \A u \in Threads : u # t => op'[u] = op[u], NEW h
  PROVE  Cardinality(OpHolders(h)') = Cardinality(OpHolders(h)) + OpHold(op'[t], h) - OpHold(op[t], h)
<1> DEFINE S == OpHolders(h)  T == OpHolders(h)'
<1>1. S \subseteq Threads /\ T \subseteq Threads /\ \A u \in Threads : u # t => (u \in S <=> u \in T)
  BY DEF OpHolders
<1>2. IsFiniteSet(Threads) BY HoldersFinite
<1>3. OpHold(op'[t], h) = (IF t \in T THEN 1 ELSE 0) /\ OpHold(op[t], h) = IF t \in S THEN 1 ELSE 0
  BY DEF OpHold, OpHolders
<1> HIDE DEF S, T
<1>4. Cardinality(T) = Cardinality(S) + (IF t \in T THEN 1 ELSE 0) - (IF t \in S THEN 1 ELSE 0)
  BY <1>1, <1>2, CountOne
<1>5. QED BY <1>3, <1>4 DEF S, T

(* A dispatch comes or goes.                                                *)
LEMMA DispCount ==
  ASSUME NEW t \in Workers, \A u \in Workers : u # t => disp'[u] = disp[u], NEW h
  PROVE  Cardinality(DispHolders(h)') = Cardinality(DispHolders(h)) + DispHold(disp'[t], h) - DispHold(disp[t], h)
<1> DEFINE S == DispHolders(h)  T == DispHolders(h)'
<1>1. S \subseteq Workers /\ T \subseteq Workers /\ \A u \in Workers : u # t => (u \in S <=> u \in T)
  BY DEF DispHolders
<1>2. IsFiniteSet(Workers) BY HoldersFinite
<1>3. DispHold(disp'[t], h) = (IF t \in T THEN 1 ELSE 0) /\ DispHold(disp[t], h) = IF t \in S THEN 1 ELSE 0
  BY DEF DispHold, DispHolders
<1> HIDE DEF S, T
<1>4. Cardinality(T) = Cardinality(S) + (IF t \in T THEN 1 ELSE 0) - (IF t \in S THEN 1 ELSE 0)
  BY <1>1, <1>2, CountOne
<1>5. QED BY <1>3, <1>4 DEF S, T

(* A launcher's reference comes or goes.                                    *)
LEMMA LaunchCount ==
  ASSUME NEW t \in Workers, \A u \in Workers : u # t => launch'[u] = launch[u], NEW h
  PROVE  Cardinality(LaunchHolders(h)')
           = Cardinality(LaunchHolders(h)) + LaunchHold(launch'[t], h) - LaunchHold(launch[t], h)
<1> DEFINE S == LaunchHolders(h)  T == LaunchHolders(h)'
<1>1. S \subseteq Workers /\ T \subseteq Workers /\ \A u \in Workers : u # t => (u \in S <=> u \in T)
  BY DEF LaunchHolders
<1>2. IsFiniteSet(Workers) BY HoldersFinite
<1>3. LaunchHold(launch'[t], h) = (IF t \in T THEN 1 ELSE 0) /\ LaunchHold(launch[t], h) = IF t \in S THEN 1 ELSE 0
  BY DEF LaunchHold, LaunchHolders
<1> HIDE DEF S, T
<1>4. Cardinality(T) = Cardinality(S) + (IF t \in T THEN 1 ELSE 0) - (IF t \in S THEN 1 ELSE 0)
  BY <1>1, <1>2, CountOne
<1>5. QED BY <1>3, <1>4 DEF S, T

(* Counting is right if the thread's step keeps its own account.            *)
LEMMA CountKept ==
  ASSUME TypeShape, TypeShape', Counted, NEW t \in Threads, Moved(t),
         \A h \in Handles : ref'[h] = ref[h] + SlotHold(slot'[h]) - SlotHold(slot[h]) + Held(t, h)' - Held(t, h)
  PROVE  Counted'
<1>1. SUFFICES ASSUME NEW h \in Handles
               PROVE  ref'[h] = SlotHold(slot'[h]) + Cardinality(OpHolders(h)')
                                + Cardinality(DispHolders(h)') + Cardinality(LaunchHolders(h)')
  BY DEF Counted, SlotHold
<1>2. ref[h] = SlotHold(slot[h]) + Cardinality(OpHolders(h))
               + Cardinality(DispHolders(h)) + Cardinality(LaunchHolders(h))
  BY DEF Counted, SlotHold
<1>3. Cardinality(OpHolders(h)') = Cardinality(OpHolders(h)) + OpHold(op'[t], h) - OpHold(op[t], h)
  BY OpCount DEF Moved
<1>4. /\ Cardinality(OpHolders(h)) \in Nat /\ Cardinality(DispHolders(h)) \in Nat
      /\ Cardinality(LaunchHolders(h)) \in Nat
  BY HoldersFinite
<1>5. /\ SlotHold(slot[h]) \in Int /\ SlotHold(slot'[h]) \in Int
      /\ OpHold(op[t], h) \in Int /\ OpHold(op'[t], h) \in Int
  BY DEF SlotHold, OpHold
<1>6. CASE t \in Workers
  <2>1. Cardinality(DispHolders(h)') = Cardinality(DispHolders(h)) + DispHold(disp'[t], h) - DispHold(disp[t], h)
    BY <1>6, DispCount DEF Moved, Threads
  <2>2. Cardinality(LaunchHolders(h)')
           = Cardinality(LaunchHolders(h)) + LaunchHold(launch'[t], h) - LaunchHold(launch[t], h)
    BY <1>6, LaunchCount DEF Moved, Threads
  <2>3. /\ DispHold(disp[t], h) \in Int /\ DispHold(disp'[t], h) \in Int
        /\ LaunchHold(launch[t], h) \in Int /\ LaunchHold(launch'[t], h) \in Int
    BY DEF DispHold, LaunchHold
  <2>4. /\ Held(t, h) = OpHold(op[t], h) + DispHold(disp[t], h) + LaunchHold(launch[t], h)
        /\ Held(t, h)' = OpHold(op'[t], h) + DispHold(disp'[t], h) + LaunchHold(launch'[t], h)
    BY <1>5, <1>6, <2>3 DEF Held
  <2>5. QED BY <1>2, <1>3, <1>4, <1>5, <2>1, <2>2, <2>3, <2>4
<1>7. CASE t \notin Workers
  <2>1. DispHolders(h)' = DispHolders(h) /\ LaunchHolders(h)' = LaunchHolders(h)
    BY <1>7 DEF DispHolders, LaunchHolders, Moved, Threads
  <2>2. Held(t, h) = OpHold(op[t], h) /\ Held(t, h)' = OpHold(op'[t], h) BY <1>5, <1>7 DEF Held
  <2>3. QED BY <1>2, <1>3, <1>4, <1>5, <2>1, <2>2
<1>8. QED BY <1>6, <1>7

(* Who holds a context has counted himself, so that it is alive.            *)
LEMMA HolderAlive ==
  ASSUME TypeShape, Counted, Lives, NEW h \in Handles
  PROVE  /\ \A t \in Threads : op[t].at \in {"push", "release"} /\ op[t].h = h => ref[h] >= 1
         /\ \A w \in Workers : disp[w].at \in Serving /\ disp[w].q = h => ref[h] >= 1
         /\ \A w \in Workers : launch[w].at \in {"create", "init"} /\ launch[w].h = h => ref[h] >= 1
         /\ slot[h] = "live" => ref[h] >= 1
         /\ ref[h] >= 1 => ctx[h] = "alive" /\ ~quit /\ ~release[h] /\ mq[h] # "freed"
                           /\ \A u \in Threads : op[u].at = "delete" => op[u].h # h
<1> DEFINE A == Cardinality(OpHolders(h))  B == Cardinality(DispHolders(h))  C == Cardinality(LaunchHolders(h))
<1>1. A \in Nat /\ B \in Nat /\ C \in Nat BY HoldersFinite
<1>2. ref[h] = SlotHold(slot[h]) + A + B + C BY DEF Counted, SlotHold
<1>3. ASSUME NEW S, IsFiniteSet(S), NEW x \in S PROVE Cardinality(S) # 0 BY <1>3, FS_EmptySet
<1>4. SlotHold(slot[h]) \in Nat /\ (slot[h] = "live" => SlotHold(slot[h]) = 1) BY DEF SlotHold
<1>5. \A t \in Threads : op[t].at \in {"push", "release"} /\ op[t].h = h => A # 0
  BY <1>3, HoldersFinite DEF OpHolders
<1>6. \A w \in Workers : disp[w].at \in Serving /\ disp[w].q = h => B # 0
  BY <1>3, HoldersFinite DEF DispHolders
<1>7. \A w \in Workers : launch[w].at \in {"create", "init"} /\ launch[w].h = h => C # 0
  BY <1>3, HoldersFinite DEF LaunchHolders
<1> HIDE DEF A, B, C
<1>8. ASSUME ref[h] >= 1
      PROVE  /\ ctx[h] = "alive" /\ ~quit /\ ~release[h] /\ mq[h] # "freed"
             /\ \A u \in Threads : op[u].at = "delete" => op[u].h # h
  <2>1. ref[h] # 0 BY <1>8
  <2>2. ctx[h] = "alive" BY <2>1 DEF Lives, Stages
  <2>3. QED BY <2>1, <2>2 DEF Lives, Stages, Deleting
<1>9. QED BY <1>1, <1>2, <1>4, <1>5, <1>6, <1>7, <1>8
-----------------------------------------------------------------------------
(* What a thread does with a context, one step at a time.                   *)

(* The send has only begun: nothing is held, the source is known.           *)
LEMMA SendKept ==
  ASSUME TypeShape, TypeShape', Accounts, NEW t \in Threads, NEW h \in Handles, Send(t, h) \/ Touch(t, h)
  PROVE  Accounts'
<1>1. UNCHANGED <<slot, ctx, ref, mq, queue, in_global, release, global, launch, disp, quit>>
  BY DEF Send, Touch
<1>2. op[t].at = "idle" /\ mq[h] # "none" BY DEF Send, Touch, Acting
<1>3. /\ op'[t].at = "grab" /\ op'[t].h = h
      /\ op'[t].m = None \/ op'[t].m = [src |-> Self(t), type |-> "text"]
      /\ \A u \in Threads : u # t => op'[u] = op[u]
  BY DEF Send, Touch, Busy, TypeShape, TypeInv
<1>4. Counted'
  <2>1. Moved(t) BY <1>1, <1>3 DEF Moved
  <2>2. \A k \in Handles : Held(t, k)' = Held(t, k) BY <1>1, <1>2, <1>3 DEF Held, OpHold
  <2>3. \A k \in Handles : Held(t, k) \in Int /\ ref[k] \in Int /\ SlotHold(slot[k]) \in Int
    BY DEF Held, OpHold, DispHold, LaunchHold, SlotHold, TypeShape, TypeInv
  <2>4. QED BY <1>1, <2>1, <2>2, <2>3, CountKept DEF Accounts
<1>5. Lives' BY <1>1, <1>2, <1>3 DEF Accounts, Lives, Stages, Deleting
<1>6. OnePlace' BY <1>1 DEF Accounts, OnePlace, ListedOnce, Listed
<1>7. Mails' /\ Hands' BY <1>1 DEF Accounts, Mails, Hands, Somewhere, Listed
<1>8. Sources'
  <2>1. Send(t, h) => Self(t) = System \/ mq[Self(t)] # "none"
    BY DEF Send, Acting, Self, Accounts, Hands, TypeShape, Shapes, DispShape, Threads
  <2>2. op'[t].m # None => op'[t].m.src = Self(t)
    BY <1>3
  <2>3. op'[t].m # None => Send(t, h)
    BY <1>3 DEF Touch, Busy, TypeShape, TypeInv
  <2>4. QED BY <1>1, <1>2, <1>3, <2>1, <2>2, <2>3 DEF Accounts, Sources, Known
<1>9. QED BY <1>4, <1>5, <1>6, <1>7, <1>8 DEF Accounts

(* skynet_handle_grab counts itself under the lock of the storage.          *)
LEMMA GrabKept ==
  ASSUME TypeShape, TypeShape', Accounts, NEW t \in Threads, Grab(t)
  PROVE  Accounts'
<1> DEFINE h == op[t].h
<1>0. op[t].at = "grab" /\ h \in Handles BY DEF Grab, TypeShape, TypeInv, Shapes, OpShape, Ops
<1>1. UNCHANGED <<slot, ctx, mq, queue, in_global, release, global, launch, disp, quit>> BY DEF Grab
<1>2. /\ \A u \in Threads : u # t => op'[u] = op[u]
      /\ \/ /\ slot[h] = "live" /\ op'[t].at \in {"push", "release"} /\ op'[t].h = h /\ op'[t].m = op[t].m
            /\ ref'[h] = ref[h] + 1
         \/ op'[t].at = "idle" /\ ref'[h] = ref[h]
      /\ \A k \in Handles : k # h => ref'[k] = ref[k]
  BY <1>0 DEF Grab, Busy, NoOp, TypeShape, TypeInv
<1> HIDE DEF h
<1>3. \A k \in Handles : ref[k] \in Int BY DEF TypeShape, TypeInv
<1>4. Counted'
  <2>1. Moved(t) BY <1>1, <1>2 DEF Moved
  <2>2. \A k \in Handles : ref'[k] = ref[k] + SlotHold(slot'[k]) - SlotHold(slot[k]) + Held(t, k)' - Held(t, k)
    BY <1>0, <1>1, <1>2, <1>3 DEF Held, OpHold, DispHold, LaunchHold, SlotHold, h
  <2>3. QED BY <2>1, <2>2, CountKept DEF Accounts
<1>5. Lives'
  <2>1. ref'[h] # ref[h] => ref[h] >= 1 BY <1>0, <1>2, HolderAlive DEF Accounts
  <2>2. ref[h] >= 1 => ctx[h] = "alive" /\ \A u \in Threads : op[u].at = "delete" => op[u].h # h
    BY <1>0, HolderAlive DEF Accounts
  <2>3. Stages' BY <1>0, <1>1, <1>2, <2>1, <2>2 DEF Accounts, Lives, Stages
  <2>4. Deleting'
    <3>1. op'[t].at # "delete" BY <1>2
    <3>2. \A u \in Threads : op'[u].at = "delete" => u # t /\ op'[u] = op[u] BY <1>2, <3>1
    <3>3. \A u \in Threads : op[u].at = "delete" => op[u].h \in Handles
      BY DEF TypeShape, TypeInv, Shapes, OpShape, Ops
    <3>4. \A u \in Threads : op[u].at = "delete" => ref'[op[u].h] = ref[op[u].h]
      BY <1>2, <2>1, <2>2, <3>3
    <3>5. QED BY <1>1, <3>2, <3>4 DEF Accounts, Lives, Deleting
  <2>5. QED BY <2>3, <2>4 DEF Lives
<1>6. OnePlace' BY <1>1 DEF Accounts, OnePlace, ListedOnce, Listed
<1>7. Mails' /\ Hands' BY <1>1 DEF Accounts, Mails, Hands, Somewhere, Listed
<1>8. Sources' BY <1>0, <1>1, <1>2 DEF Accounts, Sources, Known, h
<1>9. QED BY <1>4, <1>5, <1>6, <1>7, <1>8 DEF Accounts

(* The decrement; the one that reaches 0 is the only one to delete.         *)
LEMMA ReleaseKept ==
  ASSUME TypeShape, TypeShape', Accounts, NEW t \in Threads, Release(t)
  PROVE  Accounts'
<1> DEFINE h == op[t].h
<1>0. op[t].at = "release" /\ h \in Handles BY DEF Release, TypeShape, TypeInv, Shapes, OpShape, Ops
<1>1. UNCHANGED <<slot, ctx, mq, queue, in_global, release, global, launch, disp, quit>> BY DEF Release
<1>2. /\ \A u \in Threads : u # t => op'[u] = op[u]
      /\ ref'[h] = ref[h] - 1 /\ \A k \in Handles : k # h => ref'[k] = ref[k]
      /\ \/ ref[h] = 1 /\ op'[t].at = "delete" /\ op'[t].h = h
         \/ ref[h] # 1 /\ op'[t].at \in {"idle", "publish"}
  BY <1>0 DEF Release, NoOp, TypeShape, TypeInv, Ops
<1>h. op[t].h = h OBVIOUS
<1> HIDE DEF h
<1>3. \A k \in Handles : ref[k] \in Int BY DEF TypeShape, TypeInv
<1>4. Counted'
  <2>1. Moved(t) BY <1>1, <1>2 DEF Moved
  <2>2. \A k \in Handles : ref'[k] = ref[k] + SlotHold(slot'[k]) - SlotHold(slot[k]) + Held(t, k)' - Held(t, k)
    BY <1>0, <1>1, <1>2, <1>3, <1>h DEF Held, OpHold, DispHold, LaunchHold, SlotHold
  <2>3. QED BY <2>1, <2>2, CountKept DEF Accounts
<1>5. Lives'
  <2>1. ref[h] >= 1 BY <1>0, <1>h, HolderAlive DEF Accounts
  <2>2. ctx[h] = "alive" /\ \A u \in Threads : op[u].at = "delete" => op[u].h # h
    BY <1>0, <2>1, HolderAlive DEF Accounts
  <2>3. Stages' BY <1>0, <1>1, <1>2, <2>2 DEF Accounts, Lives, Stages
  <2>4. Deleting'
    <3>1. \A u \in Threads : op[u].at = "delete" => op[u].h \in Handles /\ ref'[op[u].h] = ref[op[u].h]
      BY <1>2, <2>2 DEF TypeShape, TypeInv, Shapes, OpShape, Ops
    <3>2. \A u \in Threads : op'[u].at = "delete" =>
            (u # t /\ op'[u] = op[u]) \/ (u = t /\ op'[u].h = h /\ ref'[h] = 0)
      BY <1>0, <1>2, <1>3
    <3>3. QED BY <1>0, <1>1, <2>2, <3>1, <3>2 DEF Accounts, Lives, Deleting
  <2>5. QED BY <2>3, <2>4 DEF Lives
<1>6. OnePlace' BY <1>1 DEF Accounts, OnePlace, ListedOnce, Listed
<1>7. Mails' /\ Hands' BY <1>1 DEF Accounts, Mails, Hands, Somewhere, Listed
<1>8. Sources' BY <1>0, <1>1, <1>2 DEF Accounts, Sources, Known
<1>9. QED BY <1>4, <1>5, <1>6, <1>7, <1>8 DEF Accounts

(* The storage's reference passes to the thread that retires the handle.    *)
LEMMA KillKept ==
  ASSUME TypeShape, TypeShape', Accounts, NEW w \in Workers, NEW h \in Handles, Kill(w, h)
  PROVE  Accounts'
<1>0. op[w].at = "idle" /\ slot[h] = "live" /\ w \in Threads BY DEF Kill, Acting, Retire, Threads
<1>1. UNCHANGED <<ctx, ref, mq, queue, in_global, release, global, launch, disp, quit>> BY DEF Kill
<1>2. /\ \A u \in Threads : u # w => op'[u] = op[u]
      /\ op'[w].at = "release" /\ op'[w].h = h
      /\ slot'[h] = "retired" /\ \A k \in Handles : k # h => slot'[k] = slot[k]
  BY <1>0 DEF Kill, Retire, Busy, TypeShape, TypeInv
<1>3. \A k \in Handles : ref[k] \in Int BY DEF TypeShape, TypeInv
<1>4. Counted'
  <2>1. Moved(w) BY <1>1, <1>2 DEF Moved
  <2>2. \A k \in Handles : ref'[k] = ref[k] + SlotHold(slot'[k]) - SlotHold(slot[k]) + Held(w, k)' - Held(w, k)
    BY <1>0, <1>1, <1>2, <1>3 DEF Held, OpHold, DispHold, LaunchHold, SlotHold
  <2>3. QED BY <1>0, <2>1, <2>2, CountKept DEF Accounts
<1>5. Lives' BY <1>0, <1>1, <1>2 DEF Accounts, Lives, Stages, Deleting
<1>6. OnePlace' BY <1>1 DEF Accounts, OnePlace, ListedOnce, Listed
<1>7. Mails' /\ Hands' BY <1>1 DEF Accounts, Mails, Hands, Somewhere, Listed
<1>8. Sources' BY <1>0, <1>1, <1>2 DEF Accounts, Sources, Known
<1>9. QED BY <1>4, <1>5, <1>6, <1>7, <1>8 DEF Accounts
-----------------------------------------------------------------------------
(* How a mailbox moves.                                                     *)

InHand(w) == {disp[w].q, disp[w].nq, launch[w].h}

(* The other workers keep what they have.                                   *)
OthersKeep(w) ==
  \A v \in Workers : v # w =>
    disp'[v].q = disp[v].q /\ disp'[v].nq = disp[v].nq /\ launch'[v].h = launch[v].h

(* A worker's step moves a mailbox only from its hand, from the list, or    *)
(* from nowhere.                                                            *)
LEMMA PlaceMove ==
  ASSUME OnePlace, NEW w \in Workers, OthersKeep(w), ListedOnce',
         \A k : k # None /\ k \in InHand(w)' =>
                ~Listed(k)' /\ (k \in InHand(w) \/ Listed(k) \/ ~Somewhere(k)),
         \A k : k # None /\ Listed(k)' => Listed(k) \/ k \in InHand(w) \/ ~Somewhere(k),
         disp'[w].q # None => disp'[w].q # disp'[w].nq /\ disp'[w].q # launch'[w].h,
         disp'[w].nq # None => disp'[w].nq # launch'[w].h
  PROVE  OnePlace'
<1>1. ASSUME NEW v \in Workers, v # w, NEW k, k # None, k \in InHand(v)
      PROVE  k \notin InHand(w) /\ ~Listed(k) /\ Somewhere(k)
  BY <1>1 DEF OnePlace, InHand, Somewhere
<1>2. \A v \in Workers : v # w => InHand(v)' = InHand(v) BY DEF OthersKeep, InHand
<1>3. \A v \in Workers : \A k \in InHand(v)' : k # None => ~Listed(k)'
  BY <1>1, <1>2
<1>4. \A v \in Workers : \A k : v # w /\ k # None /\ k \in InHand(v)' => k \notin InHand(w)'
  BY <1>1, <1>2
<1>5. ASSUME NEW v \in Workers, NEW u \in Workers
      PROVE  /\ disp'[u].q # None /\ disp'[u].q = disp'[v].q => u = v
             /\ disp'[u].nq # None /\ disp'[u].nq = disp'[v].nq => u = v
             /\ launch'[u].h # None /\ launch'[u].h = launch'[v].h => u = v
             /\ disp'[u].q # None => disp'[u].q # disp'[v].nq /\ disp'[u].q # launch'[v].h
             /\ disp'[u].nq # None => disp'[u].nq # launch'[v].h
  <2>1. CASE u # w /\ v # w BY <2>1 DEF OnePlace, OthersKeep
  <2>2. CASE u = w /\ v # w BY <1>4, <2>2 DEF InHand
  <2>3. CASE u # w /\ v = w BY <1>4, <2>3 DEF InHand
  <2>4. CASE u = w /\ v = w BY <2>4
  <2>5. QED BY <2>1, <2>2, <2>3, <2>4
<1>6. QED BY <1>3, <1>5 DEF OnePlace, InHand

(* Where a mailbox is after the step of `w`.                                *)
LEMMA SomewhereNext ==
  ASSUME NEW w \in Workers, OthersKeep(w), NEW k, k # None
  PROVE  /\ Somewhere(k)' => \/ Listed(k)' \/ k \in InHand(w)'
                             \/ Somewhere(k) /\ (OnePlace => ~Listed(k) /\ k \notin InHand(w))
         /\ Somewhere(k) => Somewhere(k)' \/ Listed(k) \/ k \in InHand(w)
         /\ Listed(k)' \/ k \in InHand(w)' => Somewhere(k)'
         /\ Listed(k) \/ k \in InHand(w) => Somewhere(k)
<1>1. \A v \in Workers : v # w => InHand(v)' = InHand(v) BY DEF OthersKeep, InHand
<1>2. Somewhere(k) <=> Listed(k) \/ \E v \in Workers : k \in InHand(v) BY DEF Somewhere, InHand
<1>3. Somewhere(k)' <=> Listed(k)' \/ \E v \in Workers : k \in InHand(v)' BY DEF Somewhere, InHand
<1>4. ASSUME OnePlace, NEW v \in Workers, v # w, k \in InHand(v) PROVE ~Listed(k) /\ k \notin InHand(w)
  BY <1>4 DEF OnePlace, InHand
<1>5. QED BY <1>1, <1>2, <1>3, <1>4

(* Nobody moves.                                                            *)
LEMMA PlacesStay ==
  ASSUME global' = global,
         \A v \in Workers : disp'[v].q = disp[v].q /\ disp'[v].nq = disp[v].nq /\ launch'[v].h = launch[v].h
  PROVE  /\ OnePlace => OnePlace'
         /\ \A k : (Listed(k)' <=> Listed(k)) /\ (Somewhere(k)' <=> Somewhere(k))
<1>1. \A k : Listed(k)' <=> Listed(k) BY DEF Listed
<1>2. ListedOnce => ListedOnce' BY DEF ListedOnce
<1>3. \A v \in Workers : InHand(v)' = InHand(v) BY DEF InHand
<1>4. \A k : Somewhere(k)' <=> Somewhere(k) BY <1>1, <1>3 DEF Somewhere, InHand
<1>5. OnePlace => OnePlace' BY <1>1, <1>2 DEF OnePlace
<1>6. QED BY <1>1, <1>4, <1>5

(* A mailbox that was nowhere enters the global queue.                      *)
LEMMA Enters ==
  ASSUME TypeShape, OnePlace, NEW h \in Handles, ~Somewhere(h), global' = Append(global, h),
         UNCHANGED <<disp, launch>>
  PROVE  OnePlace' /\ \A k : (Listed(k)' <=> Listed(k) \/ k = h) /\ (Somewhere(k)' <=> Somewhere(k) \/ k = h)
<1>1. ListedOnce' /\ \A k : Listed(k)' <=> Listed(k) \/ k = h
  BY AppendListed DEF TypeShape, TypeInv, OnePlace, Somewhere
<1>2. \A k : Somewhere(k)' <=> Somewhere(k) \/ k = h BY <1>1 DEF Somewhere
<1>3. \A w \in Workers : h \notin InHand(w) BY DEF Somewhere, InHand
<1>4. OnePlace' BY <1>1, <1>3 DEF OnePlace, InHand
<1>5. QED BY <1>1, <1>2, <1>4
-----------------------------------------------------------------------------
(* A message arrives; a context is deleted.                                 *)

(* The mailbox of a live context exists.                                    *)
LEMMA LiveMailbox ==
  ASSUME TypeShape, Accounts, NEW h \in Handles, ctx[h] = "alive", ref[h] = 0 \/ mq[h] # "none"
  PROVE  mq[h] = "alive" /\ ~release[h]
<1>1. mq[h] # "freed" /\ ~release[h] BY DEF Accounts, Lives, Stages
<1>2. ASSUME mq[h] = "none" PROVE ref[h] # 0
  <2>1. PICK w \in Workers : launch[w].at = "create" /\ launch[w].h = h
    BY <1>2 DEF Accounts, Lives, Stages
  <2>2. ref[h] >= 1 BY <2>1, HolderAlive DEF Accounts
  <2>3. QED BY <2>2
<1>3. QED BY <1>1, <1>2 DEF TypeShape, TypeInv

(* skynet_mq_push: a mailbox without the flag is nowhere, one with it is    *)
(* somewhere.                                                               *)
LEMMA PushKept ==
  ASSUME TypeShape, TypeShape', Accounts, NEW t \in Threads, Push(t)
  PROVE  Accounts'
<1> DEFINE h == op[t].h  m == op[t].m
<1>0. op[t].at = "push" /\ h \in Handles /\ m \in Messages
  BY DEF Push, TypeShape, TypeInv, Shapes, OpShape, Ops
<1>1. UNCHANGED <<slot, ctx, ref, mq, release, launch, disp, quit>> BY DEF Push
<1>2. /\ \A u \in Threads : u # t => op'[u] = op[u]
      /\ op'[t].at = "release" /\ op'[t].h = h
  BY <1>0 DEF Push, Busy, TypeShape, TypeInv
<1>3. /\ queue'[h] = Append(queue[h], m) /\ \A k \in Handles : k # h => queue'[k] = queue[k]
      /\ global' = IF in_global[h] THEN global ELSE Append(global, h)
  BY <1>0 DEF Push, MqPush, TypeShape, TypeInv
<1>4. in_global'[h] = TRUE /\ \A k \in Handles : k # h => in_global'[k] = in_global[k]
  BY <1>0 DEF Push, MqPush, TypeShape, TypeInv
<1>5. op[t].h = h /\ Known(m) /\ mq[h] # "none" BY <1>0 DEF Accounts, Sources, TypeShape, Shapes, OpShape
<1>m. queue[h] \in Seq(Messages) BY <1>0 DEF TypeShape, TypeInv
<1> HIDE DEF h, m
<1>6. ref[h] >= 1 BY <1>0, <1>5, HolderAlive DEF Accounts
<1>7. ctx[h] = "alive" /\ ~quit BY <1>0, <1>6, HolderAlive DEF Accounts
<1>8. mq[h] = "alive" /\ ~release[h] BY <1>0, <1>5, <1>7, LiveMailbox
<1>9. Counted'
  <2>1. Moved(t) BY <1>1, <1>2 DEF Moved
  <2>2. \A k \in Handles : Held(t, k)' = Held(t, k)
    BY <1>0, <1>1, <1>2, <1>5 DEF Held, OpHold
  <2>3. \A k \in Handles : Held(t, k) \in Int /\ ref[k] \in Int /\ SlotHold(slot[k]) \in Int
    BY DEF Held, OpHold, DispHold, LaunchHold, SlotHold, TypeShape, TypeInv
  <2>4. QED BY <1>1, <2>1, <2>2, <2>3, CountKept DEF Accounts
<1>10. Lives' BY <1>0, <1>1, <1>2 DEF Accounts, Lives, Stages, Deleting
<1>11. OnePlace' /\ \A k : (Listed(k)' => Listed(k) \/ k = h) /\ (Somewhere(k)' <=> Somewhere(k) \/ k = h)
  <2>1. CASE in_global[h]
    <3>1. Somewhere(h) BY <1>0, <1>7, <2>1 DEF Accounts, Mails
    <3>2. global' = global BY <1>3, <2>1
    <3>3. QED BY <1>1, <3>1, <3>2, PlacesStay DEF Accounts
  <2>2. CASE ~in_global[h]
    <3>1. ~Somewhere(h) BY <1>0, <1>8, <2>2 DEF Accounts, Mails
    <3>2. global' = Append(global, h) BY <1>3, <2>2
    <3>3. QED BY <1>0, <1>1, <3>1, <3>2, Enters DEF Accounts
  <2>3. QED BY <2>1, <2>2
<1>12. Mails' BY <1>0, <1>1, <1>3, <1>4, <1>8, <1>11 DEF Accounts, Mails
<1>13. Hands' BY <1>1 DEF Accounts, Hands
<1>14. Sources'
  <2>1. \A i \in 1 .. Len(queue'[h]) : queue'[h][i] = m \/ (i \in 1 .. Len(queue[h]) /\ queue'[h][i] = queue[h][i])
    BY <1>0, <1>3, <1>m
  <2>2. \A k \in Handles : \A i \in 1 .. Len(queue'[k]) : Known(queue'[k][i])
    BY <1>0, <1>3, <1>5, <2>1 DEF Accounts, Sources
  <2>3. (\A k \in Handles : \A i \in 1 .. Len(queue[k]) : Known(queue[k][i]))'
    BY <1>1, <2>2 DEF Known
  <2>4. QED BY <1>0, <1>1, <1>2, <2>3 DEF Accounts, Sources, Known
<1>15. QED BY <1>9, <1>10, <1>11, <1>12, <1>13, <1>14 DEF Accounts

(* skynet_mq_mark_release: the mailbox comes back to be freed.              *)
LEMMA DeleteKept ==
  ASSUME TypeShape, TypeShape', Accounts, NEW t \in Threads, Delete(t)
  PROVE  Accounts'
<1> DEFINE h == op[t].h
<1>0. op[t].at = "delete" /\ h \in Handles BY DEF Delete, TypeShape, TypeInv, Shapes, OpShape, Ops
<1>1. UNCHANGED <<slot, ref, mq, queue, in_global, launch, disp, quit>> BY DEF Delete
<1>2. /\ \A u \in Threads : u # t => op'[u] = op[u]
      /\ op'[t].at = "idle"
  BY <1>0 DEF Delete, NoOp, TypeShape, TypeInv
<1>3. /\ ctx'[h] = "freed" /\ \A k \in Handles : k # h => ctx'[k] = ctx[k]
      /\ global' = IF in_global[h] THEN global ELSE Append(global, h)
  BY <1>0 DEF Delete, MarkRelease, TypeShape, TypeInv
<1>4. release'[h] = TRUE /\ \A k \in Handles : k # h => release'[k] = release[k]
  BY <1>0 DEF Delete, MarkRelease, TypeShape, TypeInv
<1>5. op[t].h = h /\ ref[h] = 0 /\ ctx[h] = "alive" BY <1>0 DEF Accounts, Lives, Deleting
<1> HIDE DEF h
<1>6. mq[h] = "alive" /\ ~release[h] BY <1>0, <1>5, LiveMailbox
<1>7. ~quit /\ slot[h] # "unused" BY <1>0, <1>5 DEF Accounts, Lives, Stages
<1>9. Counted'
  <2>1. Moved(t) BY <1>1, <1>2 DEF Moved
  <2>2. \A k \in Handles : Held(t, k)' = Held(t, k)
    BY <1>0, <1>1, <1>2, <1>5 DEF Held, OpHold
  <2>3. \A k \in Handles : Held(t, k) \in Int /\ ref[k] \in Int /\ SlotHold(slot[k]) \in Int
    BY DEF Held, OpHold, DispHold, LaunchHold, SlotHold, TypeShape, TypeInv
  <2>4. QED BY <1>1, <2>1, <2>2, <2>3, CountKept DEF Accounts
<1>10. Lives'
  <2>1. Stages' BY <1>0, <1>1, <1>3, <1>4, <1>5, <1>6, <1>7 DEF Accounts, Lives, Stages
  <2>2. Deleting'
    <3>1. \A u \in Threads : op'[u].at = "delete" => u # t /\ op'[u] = op[u] /\ op[u].h # h
      BY <1>0, <1>2, <1>5 DEF Accounts, Lives, Deleting
    <3>2. \A u \in Threads : op[u].at = "delete" => op[u].h \in Handles
      BY DEF TypeShape, TypeInv, Shapes, OpShape, Ops
    <3>3. QED BY <1>1, <1>3, <3>1, <3>2 DEF Accounts, Lives, Deleting
  <2>3. QED BY <2>1, <2>2 DEF Lives
<1>11. OnePlace' /\ \A k : (Listed(k)' => Listed(k) \/ k = h) /\ (Somewhere(k)' <=> Somewhere(k) \/ k = h)
  <2>1. CASE in_global[h]
    <3>1. Somewhere(h) BY <1>0, <1>7, <2>1 DEF Accounts, Mails
    <3>2. global' = global BY <1>3, <2>1
    <3>3. QED BY <1>1, <3>1, <3>2, PlacesStay DEF Accounts
  <2>2. CASE ~in_global[h]
    <3>1. ~Somewhere(h) BY <1>0, <1>6, <2>2 DEF Accounts, Mails
    <3>2. global' = Append(global, h) BY <1>3, <2>2
    <3>3. QED BY <1>0, <1>1, <3>1, <3>2, Enters DEF Accounts
  <2>3. QED BY <2>1, <2>2
<1>12. Mails' BY <1>0, <1>1, <1>3, <1>4, <1>6, <1>11 DEF Accounts, Mails
<1>13. Hands'
  <2>1. \A w \in Workers : (disp[w].at = "drop" => disp[w].q \in Handles) /\ (launch[w].at = "drop" => launch[w].h \in Handles)
    BY DEF TypeShape, TypeInv, Shapes, LaunchShape, DispShape, Launches, Dispatches
  <2>2. QED BY <1>0, <1>1, <1>4, <2>1 DEF Accounts, Hands
<1>14. Sources' BY <1>0, <1>1, <1>2 DEF Accounts, Sources, Known
<1>15. QED BY <1>9, <1>10, <1>11, <1>12, <1>13, <1>14 DEF Accounts
-----------------------------------------------------------------------------
(* The launch of a service.                                                 *)

(* A new context has two references, and its mailbox is nowhere yet.        *)
LEMMA RegisterKept ==
  ASSUME TypeShape, TypeShape', Accounts, NEW w \in Workers, NEW h \in Handles, Register(w, h)
  PROVE  Accounts'
<1>0. /\ disp[w].at = "cb" /\ op[w].at = "idle" /\ launch[w].at = "idle" /\ slot[h] = "unused"
      /\ w \in Threads
  BY DEF Register, Launching, Threads
<1>1. UNCHANGED <<mq, queue, in_global, release, global, op, disp, quit>> BY DEF Register
<1>2. /\ launch'[w].at = "create" /\ launch'[w].h = h
      /\ \A v \in Workers : v # w => launch'[v] = launch[v]
  BY DEF Register, TypeShape, TypeInv
<1>3. /\ slot'[h] = "live" /\ ctx'[h] = "alive" /\ ref'[h] = 2
      /\ \A k \in Handles : k # h => slot'[k] = slot[k] /\ ctx'[k] = ctx[k] /\ ref'[k] = ref[k]
  BY DEF Register, TypeShape, TypeInv
<1>4. ctx[h] = "none" /\ mq[h] = "none" /\ ref[h] = 0 /\ ~release[h]
  BY <1>0 DEF Accounts, Lives, Stages
<1>5. disp[w].q \in Handles /\ launch[w].h = None
  BY <1>0 DEF TypeShape, TypeInv, Shapes, DispShape, LaunchShape, Dispatches
<1>6. ~quit
  <2>1. ref[disp[w].q] >= 1 BY <1>0, <1>5, HolderAlive DEF Accounts, Serving
  <2>2. QED BY <1>5, <2>1, HolderAlive DEF Accounts
<1>7. h # None BY HandlesAssumption DEF HandlesAssumption
<1>8. \A v \in Workers : launch[v].at # "idle" => launch[v].h # h
  <2>1. \A v \in Workers : launch[v].at \in {"create", "init"} => launch[v].h # h
    BY <1>4, HolderAlive DEF Accounts
  <2>2. \A v \in Workers : launch[v].at \notin {"idle", "create"} => launch[v].h # h
    BY <1>4 DEF Accounts, Hands
  <2>3. QED BY <2>1, <2>2
<1>9. ~Somewhere(h)
  <2>1. ~Listed(h) BY <1>4 DEF Accounts, Mails
  <2>2. \A v \in Workers : disp[v].q # h /\ disp[v].nq # h BY <1>4, <1>7 DEF Accounts, Hands
  <2>3. \A v \in Workers : launch[v].h # h BY <1>7, <1>8 DEF TypeShape, Shapes, LaunchShape
  <2>4. QED BY <2>1, <2>2, <2>3 DEF Somewhere
<1>10. Counted'
  <2>1. Moved(w) BY <1>1, <1>2 DEF Moved
  <2>2. \A k \in Handles : ref[k] \in Int BY DEF TypeShape, TypeInv
  <2>3. \A k \in Handles : ref'[k] = ref[k] + SlotHold(slot'[k]) - SlotHold(slot[k]) + Held(w, k)' - Held(w, k)
    BY <1>0, <1>1, <1>2, <1>3, <1>4, <2>2 DEF Held, OpHold, DispHold, LaunchHold, SlotHold
  <2>4. QED BY <1>0, <2>1, <2>3, CountKept DEF Accounts
<1>11. Lives'
  <2>1. Stages'
    <3>1. \A k \in Handles : k # h => \A v \in Workers :
            launch[v].at = "create" /\ launch[v].h = k => launch'[v].at = "create" /\ launch'[v].h = k
      BY <1>0, <1>2
    <3>2. QED BY <1>1, <1>2, <1>3, <1>4, <1>6, <3>1 DEF Accounts, Lives, Stages
  <2>2. Deleting'
    <3>1. \A u \in Threads : op[u].at = "delete" => op[u].h \in Handles /\ op[u].h # h
      BY <1>4 DEF Accounts, Lives, Deleting, TypeShape, TypeInv, Shapes, OpShape, Ops
    <3>2. QED BY <1>1, <1>3, <3>1 DEF Accounts, Lives, Deleting
  <2>3. QED BY <2>1, <2>2 DEF Lives
<1>12. OthersKeep(w) BY <1>1, <1>2 DEF OthersKeep
<1>13. \A k : Listed(k)' <=> Listed(k) BY <1>1 DEF Listed
<1>14. OnePlace'
  <2>1. ListedOnce' BY <1>1 DEF Accounts, OnePlace, ListedOnce
  <2>2. InHand(w)' \subseteq InHand(w) \cup {h} BY <1>1, <1>2 DEF InHand
  <2>3. \A k : k # None /\ k \in InHand(w) => ~Listed(k) /\ k # h BY <1>9 DEF Accounts, OnePlace, InHand, Somewhere
  <2>4. disp'[w].q # h /\ disp'[w].nq # h /\ ~Listed(h) BY <1>1, <1>9 DEF Somewhere
  <2>5. disp'[w].q # None => disp'[w].q # disp'[w].nq BY <1>1 DEF Accounts, OnePlace
  <2>6. QED BY <1>2, <1>9, <1>12, <1>13, <2>1, <2>2, <2>3, <2>4, <2>5, PlaceMove DEF Accounts
<1>15. \A k : k # None => (Somewhere(k)' <=> Somewhere(k) \/ k = h)
  <2>1. \A k : k # None => (k \in InHand(w)' <=> k \in InHand(w) \/ k = h) BY <1>1, <1>2, <1>5 DEF InHand
  <2>2. QED BY <1>12, <1>13, <2>1, SomewhereNext
<1>16. Mails' BY <1>1, <1>4, <1>13, <1>15, HandlesAssumption DEF Accounts, Mails, HandlesAssumption
<1>17. Hands' BY <1>0, <1>1, <1>2, <1>4 DEF Accounts, Hands
<1>18. Sources' BY <1>1 DEF Accounts, Sources, Known
<1>19. QED BY <1>10, <1>11, <1>14, <1>16, <1>17, <1>18 DEF Accounts

(* The new mailbox is in the launcher's hand, with its flag set.            *)
LEMMA MqCreateKept ==
  ASSUME TypeShape, TypeShape', Accounts, NEW w \in Workers, MqCreate(w)
  PROVE  Accounts'
<1> DEFINE h == launch[w].h
<1>0. op[w].at = "idle" /\ launch[w].at = "create" /\ h \in Handles /\ w \in Threads
  BY DEF MqCreate, Launching, TypeShape, TypeInv, Shapes, LaunchShape, Launches, Threads
<1>1. UNCHANGED <<slot, ctx, ref, queue, release, global, op, disp, quit>> BY DEF MqCreate
<1>2. /\ launch'[w].at = "init" /\ launch'[w].h = h
      /\ \A v \in Workers : v # w => launch'[v] = launch[v]
  BY DEF MqCreate, Step, TypeShape, TypeInv, Launches
<1>3. mq'[h] = "alive" /\ \A k \in Handles : k # h => mq'[k] = mq[k]
  BY <1>0 DEF MqCreate, TypeShape, TypeInv
<1>4. in_global'[h] = TRUE /\ \A k \in Handles : k # h => in_global'[k] = in_global[k]
  BY <1>0 DEF MqCreate, TypeShape, TypeInv
<1>5. launch[w].h = h /\ h # None BY <1>0, HandlesAssumption DEF HandlesAssumption
<1> HIDE DEF h
<1>6. mq[h] = "none" BY <1>0, <1>5 DEF Accounts, Hands
<1>7. \A v \in Workers : v # w => launch[v].h # h BY <1>5 DEF Accounts, OnePlace
<1>10. Counted'
  <2>1. Moved(w) BY <1>1, <1>2 DEF Moved
  <2>2. \A k \in Handles : Held(w, k)' = Held(w, k)
    BY <1>0, <1>1, <1>2, <1>5 DEF Held, LaunchHold
  <2>3. \A k \in Handles : Held(w, k) \in Int /\ ref[k] \in Int /\ SlotHold(slot[k]) \in Int
    BY DEF Held, OpHold, DispHold, LaunchHold, SlotHold, TypeShape, TypeInv
  <2>4. QED BY <1>0, <1>1, <2>1, <2>2, <2>3, CountKept DEF Accounts
<1>11. Lives'
  <2>1. \A k \in Handles : k # h => \A v \in Workers :
          launch[v].at = "create" /\ launch[v].h = k => launch'[v].at = "create" /\ launch'[v].h = k
    BY <1>2, <1>5
  <2>2. ctx[h] # "none"
    <3>1. ref[h] >= 1 BY <1>0, <1>5, HolderAlive DEF Accounts
    <3>2. QED BY <1>0, <3>1, HolderAlive DEF Accounts
  <2>3. Stages' BY <1>0, <1>1, <1>3, <2>1, <2>2 DEF Accounts, Lives, Stages
  <2>4. Deleting' BY <1>1 DEF Accounts, Lives, Deleting
  <2>5. QED BY <2>3, <2>4 DEF Lives
<1>12. OnePlace' /\ \A k : (Listed(k)' <=> Listed(k)) /\ (Somewhere(k)' <=> Somewhere(k))
  BY <1>1, <1>2, <1>5, PlacesStay DEF Accounts
<1>13. Somewhere(h) BY <1>5 DEF Somewhere
<1>16. Mails' BY <1>0, <1>1, <1>3, <1>4, <1>12, <1>13 DEF Accounts, Mails
<1>17. Hands'
  <2>1. \A v \in Workers : /\ disp[v].q # None => disp[v].q \in Handles
                           /\ disp[v].nq # None => disp[v].nq \in Handles
                           /\ launch[v].at # "idle" => launch[v].h \in Handles
    BY DEF TypeShape, TypeInv, Shapes, LaunchShape, Launches, Dispatches
  <2>2. QED BY <1>0, <1>1, <1>2, <1>3, <1>7, <2>1 DEF Accounts, Hands
<1>18. Sources'
  <2>1. \A k \in Handles : mq[k] # "none" => mq'[k] # "none" BY <1>0, <1>3
  <2>2. \A m \in Messages : Known(m) => Known(m)' BY <1>3, <2>1 DEF Known, Messages
  <2>3. \A k \in Handles : \A i \in 1 .. Len(queue[k]) : queue[k][i] \in Messages BY DEF TypeShape, TypeInv
  <2>4. \A u \in Threads : op[u].at \in {"grab", "push"} => op[u].h \in Handles /\ (op[u].m = None \/ op[u].m \in Messages)
    BY DEF TypeShape, TypeInv, Shapes, OpShape, Ops
  <2>5. QED BY <1>1, <2>1, <2>2, <2>3, <2>4 DEF Accounts, Sources
<1>19. QED BY <1>10, <1>11, <1>12, <1>16, <1>17, <1>18 DEF Accounts

(* The launcher's reference becomes a release.                              *)
LEMMA InitReturnsKept ==
  ASSUME TypeShape, TypeShape', Accounts, NEW w \in Workers, InitReturns(w)
  PROVE  Accounts'
<1> DEFINE h == launch[w].h
<1>0. op[w].at = "idle" /\ launch[w].at = "init" /\ h \in Handles /\ w \in Threads
  BY DEF InitReturns, Launching, TypeShape, TypeInv, Shapes, LaunchShape, Launches, Threads
<1>1. UNCHANGED <<slot, ctx, ref, mq, queue, in_global, release, global, disp, quit>> BY DEF InitReturns
<1>2. /\ launch'[w].at \in {"publish", "failed"} /\ launch'[w].h = h
      /\ \A v \in Workers : v # w => launch'[v] = launch[v]
  BY DEF InitReturns, Step, TypeShape, TypeInv, Launches
<1>3. /\ \A u \in Threads : u # w => op'[u] = op[u]
      /\ op'[w].at = "release" /\ op'[w].h = h
  BY <1>0 DEF InitReturns, Busy, TypeShape, TypeInv
<1>5. launch[w].h = h OBVIOUS
<1> HIDE DEF h
<1>10. Counted'
  <2>1. Moved(w) BY <1>1, <1>2, <1>3 DEF Moved
  <2>2. \A k \in Handles : Held(w, k)' = Held(w, k)
    BY <1>0, <1>1, <1>2, <1>3, <1>5 DEF Held, LaunchHold, OpHold, DispHold
  <2>3. \A k \in Handles : Held(w, k) \in Int /\ ref[k] \in Int /\ SlotHold(slot[k]) \in Int
    BY DEF Held, OpHold, DispHold, LaunchHold, SlotHold, TypeShape, TypeInv
  <2>4. QED BY <1>0, <1>1, <2>1, <2>2, <2>3, CountKept DEF Accounts
<1>11. Lives'
  <2>1. \A v \in Workers : launch[v].at = "create" => launch'[v] = launch[v] BY <1>0, <1>2
  <2>2. Stages' BY <1>1, <2>1 DEF Accounts, Lives, Stages
  <2>3. Deleting' BY <1>1, <1>3 DEF Accounts, Lives, Deleting
  <2>4. QED BY <2>2, <2>3 DEF Lives
<1>12. OnePlace' /\ \A k : (Listed(k)' <=> Listed(k)) /\ (Somewhere(k)' <=> Somewhere(k))
  BY <1>1, <1>2, <1>5, PlacesStay DEF Accounts
<1>16. Mails' BY <1>1, <1>12 DEF Accounts, Mails
<1>17. Hands' BY <1>0, <1>1, <1>2, <1>5 DEF Accounts, Hands
<1>18. Sources' BY <1>1, <1>3 DEF Accounts, Sources, Known
<1>19. QED BY <1>10, <1>11, <1>12, <1>16, <1>17, <1>18 DEF Accounts

(* After a failure the handle is retired, unless somebody has done it.      *)
LEMMA FailRetireKept ==
  ASSUME TypeShape, TypeShape', Accounts, NEW w \in Workers, FailRetire(w)
  PROVE  Accounts'
<1> DEFINE h == launch[w].h
<1>0. op[w].at = "idle" /\ launch[w].at = "failed" /\ h \in Handles /\ w \in Threads
  BY DEF FailRetire, Launching, TypeShape, TypeInv, Shapes, LaunchShape, Launches, Threads
<1>1. UNCHANGED <<ctx, ref, mq, queue, in_global, release, global, disp, quit>> BY DEF FailRetire
<1>2. /\ launch'[w].at = "reap" /\ launch'[w].h = h
      /\ \A v \in Workers : v # w => launch'[v] = launch[v]
  BY DEF FailRetire, Step, TypeShape, TypeInv, Launches
<1>3. /\ \A u \in Threads : u # w => op'[u] = op[u]
      /\ \A k \in Handles : k # h => slot'[k] = slot[k]
      /\ \/ op'[w].at = "release" /\ op'[w].h = h /\ slot[h] = "live" /\ slot'[h] = "retired"
         \/ op'[w] = op[w] /\ slot'[h] = slot[h]
  BY <1>0 DEF FailRetire, Retire, Busy, TypeShape, TypeInv
<1>5. launch[w].h = h OBVIOUS
<1> HIDE DEF h
<1>10. Counted'
  <2>1. Moved(w) BY <1>1, <1>2, <1>3 DEF Moved
  <2>2. \A k \in Handles : ref[k] \in Int BY DEF TypeShape, TypeInv
  <2>3. \A k \in Handles : ref'[k] = ref[k] + SlotHold(slot'[k]) - SlotHold(slot[k]) + Held(w, k)' - Held(w, k)
    BY <1>0, <1>1, <1>2, <1>3, <1>5, <2>2 DEF Held, OpHold, DispHold, LaunchHold, SlotHold
  <2>4. QED BY <1>0, <2>1, <2>3, CountKept DEF Accounts
<1>11. Lives'
  <2>1. \A v \in Workers : launch[v].at = "create" => launch'[v] = launch[v] BY <1>0, <1>2
  <2>2. Stages' BY <1>0, <1>1, <1>3, <2>1 DEF Accounts, Lives, Stages
  <2>3. Deleting' BY <1>1, <1>3 DEF Accounts, Lives, Deleting
  <2>4. QED BY <2>2, <2>3 DEF Lives
<1>12. OnePlace' /\ \A k : (Listed(k)' <=> Listed(k)) /\ (Somewhere(k)' <=> Somewhere(k))
  BY <1>1, <1>2, <1>5, PlacesStay DEF Accounts
<1>16. Mails' BY <1>1, <1>12 DEF Accounts, Mails
<1>17. Hands' BY <1>0, <1>1, <1>2, <1>5 DEF Accounts, Hands
<1>18. Sources' BY <1>0, <1>1, <1>3 DEF Accounts, Sources, Known
<1>19. QED BY <1>10, <1>11, <1>12, <1>16, <1>17, <1>18 DEF Accounts

(* The launcher hands the mailbox over to the global queue.                 *)
LEMMA LauncherGives ==
  ASSUME TypeShape, TypeShape', Accounts, NEW w \in Workers, launch[w].at \in {"publish", "reap"},
         global' = Append(global, launch[w].h), launch' = [launch EXCEPT ![w] = NoLaunch],
         UNCHANGED <<slot, ctx, ref, mq, queue, in_global, release, disp, quit>>,
         \/ op' = op
         \/ op[w].at = "publish" /\ op' = [op EXCEPT ![w] = [@ EXCEPT !.at = "announce"]]
  PROVE  Accounts'
<1> DEFINE h == launch[w].h
<1>0. h \in Handles /\ w \in Threads
  BY DEF TypeShape, TypeInv, Shapes, LaunchShape, Launches, Threads
<1>1. launch'[w].at = "idle" /\ launch'[w].h = None /\ \A v \in Workers : v # w => launch'[v] = launch[v]
  BY DEF NoLaunch, TypeShape, TypeInv
<1>2. launch[w].h = h /\ h # None BY <1>0, HandlesAssumption DEF HandlesAssumption
<1>3. global' = Append(global, h) OBVIOUS
<1>o. /\ \A u \in Threads : u # w => op'[u] = op[u]
      /\ op'[w] = op[w] \/ (op[w].at = "publish" /\ op'[w].at = "announce")
  BY <1>0 DEF TypeShape, TypeInv, Ops
<1> HIDE DEF h
<1>4. ~Listed(h) /\ mq[h] = "alive" BY <1>2 DEF Accounts, OnePlace, Hands
<1>5. ListedOnce' /\ \A k : Listed(k)' <=> Listed(k) \/ k = h
  BY <1>0, <1>3, <1>4, AppendListed DEF TypeShape, TypeInv, Accounts, OnePlace
<1>6. Counted'
  <2>1. Moved(w) BY <1>1, <1>o DEF Moved
  <2>2. \A k \in Handles : Held(w, k)' = Held(w, k) BY <1>1, <1>o DEF Held, LaunchHold, OpHold
  <2>3. \A k \in Handles : Held(w, k) \in Int /\ ref[k] \in Int /\ SlotHold(slot[k]) \in Int
    BY DEF Held, OpHold, DispHold, LaunchHold, SlotHold, TypeShape, TypeInv
  <2>4. QED BY <1>0, <2>1, <2>2, <2>3, CountKept DEF Accounts
<1>7. Lives'
  <2>1. \A v \in Workers : launch[v].at = "create" => launch'[v] = launch[v] BY <1>1
  <2>2. Stages' BY <2>1 DEF Accounts, Lives, Stages
  <2>3. Deleting' BY <1>o DEF Accounts, Lives, Deleting
  <2>4. QED BY <2>2, <2>3 DEF Lives
<1>8. OthersKeep(w) BY <1>1 DEF OthersKeep
<1>9. \A k : k # None => (k \in InHand(w) <=> k \in InHand(w)' \/ k = h)
  BY <1>1, <1>2 DEF InHand
<1>10. disp[w].q # h /\ disp[w].nq # h BY <1>2 DEF Accounts, OnePlace
<1>11. OnePlace'
  <2>1. \A k : k # None /\ k \in InHand(w) => ~Listed(k) BY DEF Accounts, OnePlace, InHand
  <2>2. h \notin InHand(w)' BY <1>1, <1>2, <1>10 DEF InHand
  <2>3. h \in InHand(w) BY <1>2 DEF InHand
  <2>4. disp'[w].q # None => disp'[w].q # disp'[w].nq BY DEF Accounts, OnePlace
  <2>5. QED BY <1>1, <1>5, <1>8, <1>9, <2>1, <2>2, <2>3, <2>4, PlaceMove DEF Accounts
<1>12. \A k : k # None => (Somewhere(k)' <=> Somewhere(k)) BY <1>2, <1>5, <1>8, <1>9, SomewhereNext
<1>13. Mails' BY <1>4, <1>5, <1>12, HandlesAssumption DEF Accounts, Mails, HandlesAssumption
<1>14. Hands' BY <1>1 DEF Accounts, Hands
<1>15. Sources' BY <1>o DEF Accounts, Sources, Known
<1>16. QED BY <1>6, <1>7, <1>11, <1>13, <1>14, <1>15 DEF Accounts

(* A message of a mailbox that nobody reads any more is answered.           *)
LEMMA DropOneKept ==
  ASSUME TypeShape, TypeShape', Accounts, NEW w \in Workers, NEW h \in Handles,
         mq[h] = "alive", op[w].at = "idle", DropOne(w, h),
         UNCHANGED <<slot, ctx, ref, mq, in_global, release, global, launch, disp, quit>>
  PROVE  Accounts'
<1>0. w \in Threads BY DEF Threads
<1>1. queue[h] \in Seq(Messages) /\ queue[h] # <<>> /\ queue'[h] = Tail(queue[h])
      /\ \A k \in Handles : k # h => queue'[k] = queue[k]
  BY DEF DropOne, TypeShape, TypeInv
<1>2. Head(queue[h]) \in Messages /\ Head(queue[h]) = queue[h][1] /\ 1 \in 1 .. Len(queue[h]) BY <1>1
<1>3. Known(Head(queue[h])) BY <1>2 DEF Accounts, Sources
<1>4. /\ \A u \in Threads : u # w => op'[u] = op[u]
      /\ \/ op'[w] = op[w]
         \/ /\ op'[w].at = "grab" /\ op'[w].h = Head(queue[h]).src /\ Head(queue[h]).src # System
            /\ op'[w].m = [src |-> h, type |-> "error"]
  BY <1>0 DEF DropOne, Busy, TypeShape, TypeInv
<1>5. Counted'
  <2>1. Moved(w) BY <1>4 DEF Moved
  <2>2. \A k \in Handles : Held(w, k)' = Held(w, k) BY <1>4 DEF Held, OpHold
  <2>3. \A k \in Handles : Held(w, k) \in Int /\ ref[k] \in Int /\ SlotHold(slot[k]) \in Int
    BY DEF Held, OpHold, DispHold, LaunchHold, SlotHold, TypeShape, TypeInv
  <2>4. QED BY <1>0, <2>1, <2>2, <2>3, CountKept DEF Accounts
<1>6. Lives' BY <1>4 DEF Accounts, Lives, Stages, Deleting
<1>7. OnePlace' BY DEF Accounts, OnePlace, ListedOnce, Listed
<1>8. Mails'
  <2>1. in_global[h] BY <1>1 DEF Accounts, Mails
  <2>2. \A k : (Listed(k)' <=> Listed(k)) /\ (Somewhere(k)' <=> Somewhere(k)) BY PlacesStay
  <2>3. QED BY <1>1, <2>1, <2>2 DEF Accounts, Mails
<1>9. Hands' BY DEF Accounts, Hands
<1>10. Sources'
  <2>1. \A i \in 1 .. Len(queue'[h]) : i + 1 \in 1 .. Len(queue[h]) /\ queue'[h][i] = queue[h][i + 1] BY <1>1
  <2>2. \A k \in Handles : \A i \in 1 .. Len(queue'[k]) : Known(queue'[k][i])
    BY ZenonT(30), <1>1, <2>1 DEF Accounts, Sources
  <2>3. (\A k \in Handles : \A i \in 1 .. Len(queue[k]) : Known(queue[k][i]))' BY <2>2 DEF Known
  <2>4. op'[w] = op[w] \/ (op'[w].m.src = h /\ mq[op'[w].h] # "none") BY <1>3, <1>4 DEF Known
  <2>5. QED BY <1>4, <2>3, <2>4 DEF Accounts, Sources, Known
<1>11. QED BY <1>5, <1>6, <1>7, <1>8, <1>9, <1>10 DEF Accounts

(* An empty mailbox is freed by the one who has it.                         *)
LEMMA FreeKept ==
  ASSUME TypeShape, TypeShape', Accounts, NEW w \in Workers, NEW h \in Handles, FreeQueue(h),
         \/ /\ disp[w].at = "drop" /\ launch[w].at = "idle" /\ disp[w].q = h
            /\ Keep(w, "next", None) /\ launch' = launch
         \/ /\ launch[w].at = "drop" /\ launch[w].h = h
            /\ launch' = [launch EXCEPT ![w] = NoLaunch] /\ disp' = disp,
         UNCHANGED <<slot, ctx, ref, release, global, queue, op, quit>>
  PROVE  Accounts'
<1>n. h # None BY HandlesAssumption DEF HandlesAssumption
<1>w. /\ \A v \in Workers : v # w => disp'[v] = disp[v] /\ launch'[v] = launch[v]
      /\ \/ /\ disp[w].at = "drop" /\ launch[w].at = "idle" /\ disp[w].q = h
            /\ disp'[w].at = "next" /\ disp'[w].q = None /\ disp'[w].nq = None /\ launch'[w] = launch[w]
         \/ /\ launch[w].at = "drop" /\ launch[w].h = h
            /\ launch'[w].at = "idle" /\ launch'[w].h = None /\ disp'[w] = disp[w]
  <2>1. ASSUME Keep(w, "next", None)
        PROVE  /\ disp'[w].at = "next" /\ disp'[w].q = None /\ disp'[w].nq = None
               /\ \A v \in Workers : v # w => disp'[v] = disp[v]
    BY <2>1 DEF Keep, TypeShape, TypeInv, Dispatches
  <2>2. ASSUME launch' = [launch EXCEPT ![w] = NoLaunch]
        PROVE  /\ launch'[w].at = "idle" /\ launch'[w].h = None
               /\ \A v \in Workers : v # w => launch'[v] = launch[v]
    BY <2>2 DEF NoLaunch, TypeShape, TypeInv
  <2>3. QED BY <2>1, <2>2
<1>x. disp[w].at = "drop" => disp[w].nq = None BY DEF TypeShape, Shapes, DispShape
<1>r. release[h] BY <1>w DEF Accounts, Hands
<1>a. h \in InHand(w) BY <1>w DEF InHand
<1>b. InHand(w)' \subseteq InHand(w) \cup {None} BY <1>w DEF InHand
<1>c. InHand(w) \subseteq InHand(w)' \cup {h} BY <1>w, <1>x DEF InHand
<1>d. h \notin InHand(w)' BY <1>w, <1>n DEF InHand, Accounts, OnePlace
<1>e. /\ disp'[w].at # "drop" \/ disp'[w] = disp[w]
      /\ launch'[w].at = "idle" \/ launch'[w] = launch[w]
      /\ disp'[w].q \in {None, disp[w].q} /\ disp'[w].nq \in {None, disp[w].nq}
      /\ launch'[w].h \in {None, launch[w].h}
      /\ launch[w].at \notin {"create", "init"} /\ launch'[w].at \notin {"create", "init"}
  BY <1>w
<1>f. (disp'[w].at \in Serving <=> disp[w].at \in Serving) /\ (disp[w].at \in Serving => disp'[w].q = disp[w].q)
  BY <1>w DEF Serving
<1>0. w \in Threads /\ h # None BY HandlesAssumption DEF Threads, HandlesAssumption
<1>1. queue[h] = <<>> /\ mq'[h] = "freed" /\ \A k \in Handles : k # h => mq'[k] = mq[k]
  BY DEF FreeQueue, TypeShape, TypeInv
<1>2. in_global'[h] = FALSE /\ \A k \in Handles : k # h => in_global'[k] = in_global[k]
  BY DEF FreeQueue, TypeShape, TypeInv
<1>3. Counted'
  <2>1. Moved(w) BY <1>w DEF Moved, Threads
  <2>2. \A k \in Handles : Held(w, k)' = Held(w, k) BY <1>e, <1>f DEF Held, OpHold, LaunchHold, DispHold
  <2>3. \A k \in Handles : Held(w, k) \in Int /\ ref[k] \in Int /\ SlotHold(slot[k]) \in Int
    BY DEF Held, OpHold, DispHold, LaunchHold, SlotHold, TypeShape, TypeInv
  <2>4. QED BY <1>0, <2>1, <2>2, <2>3, CountKept DEF Accounts
<1>4. ctx[h] = "freed" BY <1>r DEF Accounts, Lives, Stages
<1>5. Lives'
  <2>1. \A v \in Workers : launch[v].at = "create" => launch'[v] = launch[v] BY <1>w
  <2>2. Stages' BY <1>1, <1>4, <2>1 DEF Accounts, Lives, Stages
  <2>3. Deleting' BY DEF Accounts, Lives, Deleting
  <2>4. QED BY <2>2, <2>3 DEF Lives
<1>6. OthersKeep(w) BY <1>w DEF OthersKeep
<1>7. \A k : Listed(k)' <=> Listed(k) BY DEF Listed
<1>8. \A k : k # None /\ k \in InHand(w) => ~Listed(k) BY DEF Accounts, OnePlace, InHand
<1>9. OnePlace'
  <2>1. ListedOnce' BY DEF Accounts, OnePlace, ListedOnce
  <2>2. /\ disp'[w].q # None => disp'[w].q # disp'[w].nq /\ disp'[w].q # launch'[w].h
        /\ disp'[w].nq # None => disp'[w].nq # launch'[w].h
    BY <1>e DEF Accounts, OnePlace
  <2>3. \A k : k # None /\ k \in InHand(w)' => k \in InHand(w) /\ ~Listed(k)' BY <1>7, <1>8, <1>b
  <2>4. QED BY <1>6, <1>7, <2>1, <2>2, <2>3, PlaceMove DEF Accounts
<1>10. \A k : k # None => (Somewhere(k)' <=> Somewhere(k) /\ k # h)
  <2>1. Somewhere(h) /\ ~Listed(h) BY <1>0, <1>8, <1>a DEF Somewhere, InHand
  <2>2. \A k : k # None => (k \in InHand(w) <=> k \in InHand(w)' \/ k = h) BY <1>a, <1>b, <1>c
  <2>3. QED BY <1>0, <1>6, <1>7, <1>d, <2>1, <2>2, SomewhereNext DEF Accounts
<1>11. Mails'
  <2>1. ~Listed(h) BY <1>0, <1>8, <1>a
  <2>2. \A k \in Handles : k # None BY HandlesAssumption DEF HandlesAssumption
  <2>3. QED BY <1>1, <1>2, <1>7, <1>10, <2>1, <2>2 DEF Accounts, Mails
<1>12. Hands'
  <2>1. \A v \in Workers : v # w => h \notin InHand(v)
    BY <1>0, <1>a DEF Accounts, OnePlace, InHand
  <2>2. \A v \in Workers : h \notin InHand(v)'
    <3>1. \A v \in Workers : v # w => InHand(v)' = InHand(v) BY <1>w DEF InHand
    <3>2. QED BY <1>d, <2>1, <3>1
  <2>3. \A v \in Workers : /\ disp'[v].q # None => disp'[v].q \in Handles \ {h}
                           /\ disp'[v].nq # None => disp'[v].nq \in Handles \ {h}
                           /\ launch'[v].at # "idle" => launch'[v].h \in Handles \ {h}
    BY <2>2 DEF TypeShape, TypeInv, Shapes, LaunchShape, Launches, Dispatches, InHand
  <2>4. QED BY <1>1, <1>w, <1>e, <2>3 DEF Accounts, Hands
<1>13. Sources'
  <2>1. \A k \in Handles : mq[k] # "none" => mq'[k] # "none" BY <1>1
  <2>2. \A m \in Messages : Known(m) => Known(m)' BY <1>1, <2>1 DEF Known, Messages
  <2>3. \A k \in Handles : \A i \in 1 .. Len(queue[k]) : queue[k][i] \in Messages BY DEF TypeShape, TypeInv
  <2>4. \A u \in Threads : op[u].at \in {"grab", "push"} => op[u].h \in Handles /\ (op[u].m = None \/ op[u].m \in Messages)
    BY DEF TypeShape, TypeInv, Shapes, OpShape, Ops
  <2>5. QED BY <2>1, <2>2, <2>3, <2>4 DEF Accounts, Sources
<1>14. QED BY <1>3, <1>5, <1>9, <1>11, <1>12, <1>13 DEF Accounts

(* Every step of skynet_context_new keeps the accounts.                     *)
LEMMA LaunchKept ==
  ASSUME TypeShape, TypeShape', Accounts, NEW w \in Workers,
         MqCreate(w) \/ InitReturns(w) \/ Publish(w) \/ FailRetire(w) \/ FailReap(w) \/ FailDrop(w)
  PROVE  Accounts'
<1>1. CASE MqCreate(w) BY <1>1, MqCreateKept
<1>2. CASE InitReturns(w) BY <1>2, InitReturnsKept
<1>3. CASE Publish(w) BY <1>3, LauncherGives DEF Publish
<1>4. CASE FailRetire(w) BY <1>4, FailRetireKept
<1>5. CASE FailReap(w)
  <2>0. /\ op[w].at = "idle" /\ launch[w].at = "reap"
        /\ UNCHANGED <<slot, ctx, ref, mq, queue, in_global, release, op, disp, quit>>
    BY <1>5 DEF FailReap, Launching
  <2>1. CASE ~release[launch[w].h] BY <1>5, <2>0, <2>1, LauncherGives DEF FailReap
  <2>2. CASE release[launch[w].h]
    <3>1. global' = global BY <1>5, <2>2 DEF FailReap
    <3>2. /\ launch'[w].at = "drop" /\ launch'[w].h = launch[w].h
          /\ \A v \in Workers : v # w => launch'[v] = launch[v]
      BY <1>5, <2>2 DEF FailReap, Step, TypeShape, TypeInv, Launches
    <3>3. Counted'
      <4>1. Moved(w) BY <2>0, <3>2 DEF Moved
      <4>2. \A k \in Handles : Held(w, k)' = Held(w, k) BY <2>0, <3>2 DEF Held, LaunchHold
      <4>3. \A k \in Handles : Held(w, k) \in Int /\ ref[k] \in Int /\ SlotHold(slot[k]) \in Int
        BY DEF Held, OpHold, DispHold, LaunchHold, SlotHold, TypeShape, TypeInv
      <4>4. w \in Threads BY DEF Threads
      <4>5. QED BY <2>0, <4>1, <4>2, <4>3, <4>4, CountKept DEF Accounts
    <3>4. Lives'
      <4>1. \A v \in Workers : launch[v].at = "create" => launch'[v] = launch[v] BY <2>0, <3>2
      <4>2. Stages' BY <2>0, <4>1 DEF Accounts, Lives, Stages
      <4>3. Deleting' BY <2>0 DEF Accounts, Lives, Deleting
      <4>4. QED BY <4>2, <4>3 DEF Lives
    <3>5. OnePlace' /\ \A k : (Listed(k)' <=> Listed(k)) /\ (Somewhere(k)' <=> Somewhere(k))
      BY <2>0, <3>1, <3>2, PlacesStay DEF Accounts
    <3>6. Mails' BY <2>0, <3>5 DEF Accounts, Mails
    <3>7. Hands' BY <2>0, <2>2, <3>2 DEF Accounts, Hands
    <3>8. Sources' BY <2>0 DEF Accounts, Sources, Known
    <3>9. QED BY <3>3, <3>4, <3>5, <3>6, <3>7, <3>8 DEF Accounts
  <2>3. QED BY <2>1, <2>2
<1>6. CASE FailDrop(w)
  <2>0. /\ op[w].at = "idle" /\ launch[w].at = "drop"
        /\ UNCHANGED <<slot, ctx, ref, release, global, disp, quit>>
    BY <1>6 DEF FailDrop, Launching
  <2>1. launch[w].h \in Handles /\ mq[launch[w].h] = "alive"
    BY <2>0 DEF TypeShape, TypeInv, Shapes, LaunchShape, Launches, Accounts, Hands
  <2>2. CASE DropOne(w, launch[w].h) /\ UNCHANGED <<mq, in_global, launch>>
    BY <2>0, <2>1, <2>2, DropOneKept
  <2>3. CASE FreeQueue(launch[w].h) /\ launch' = [launch EXCEPT ![w] = NoLaunch] /\ UNCHANGED <<queue, op>>
    BY <2>0, <2>1, <2>3, FreeKept
  <2>4. QED BY <1>6, <2>2, <2>3 DEF FailDrop
<1>7. QED BY <1>1, <1>2, <1>3, <1>4, <1>5, <1>6
-----------------------------------------------------------------------------
(* The dispatcher.                                                          *)

(* The worker goes to another point of its loop with what it has.           *)
LEMMA StaysKept ==
  ASSUME TypeShape, TypeShape', Accounts, NEW w \in Workers, launch[w].at = "idle",
         \A v \in Workers : v # w => disp'[v] = disp[v],
         disp'[w].q = disp[w].q, disp'[w].nq = disp[w].nq,
         disp'[w].at \in Serving <=> disp[w].at \in Serving,
         disp'[w].at = "drop" => release[disp[w].q],
         UNCHANGED <<slot, ctx, ref, mq, queue, in_global, release, global, op, launch, quit>>
  PROVE  Accounts'
<1>1. Counted'
  <2>1. Moved(w) BY DEF Moved, Threads
  <2>2. \A k \in Handles : Held(w, k)' = Held(w, k) BY DEF Held, DispHold
  <2>3. \A k \in Handles : Held(w, k) \in Int /\ ref[k] \in Int /\ SlotHold(slot[k]) \in Int
    BY DEF Held, OpHold, DispHold, LaunchHold, SlotHold, TypeShape, TypeInv
  <2>4. w \in Threads BY DEF Threads
  <2>5. QED BY <2>1, <2>2, <2>3, <2>4, CountKept DEF Accounts
<1>2. Lives' BY DEF Accounts, Lives, Stages, Deleting
<1>3. OnePlace' /\ \A k : (Listed(k)' <=> Listed(k)) /\ (Somewhere(k)' <=> Somewhere(k))
  BY PlacesStay DEF Accounts
<1>4. Mails' BY <1>3 DEF Accounts, Mails
<1>5. Hands' BY DEF Accounts, Hands
<1>6. Sources' BY DEF Accounts, Sources, Known
<1>7. QED BY <1>1, <1>2, <1>3, <1>4, <1>5, <1>6 DEF Accounts

(* A worker whose hands are empty takes the first mailbox of the global     *)
(* queue, to serve it now or next.                                          *)
LEMMA TakesKept ==
  ASSUME TypeShape, TypeShape', Accounts, NEW w \in Workers, launch[w].at = "idle", global # <<>>,
         \A v \in Workers : v # w => disp'[v] = disp[v],
         \/ /\ disp[w].q = None /\ disp'[w].q = Head(global) /\ disp'[w].nq = disp[w].nq
            /\ disp'[w].at \notin Serving /\ disp[w].at \notin Serving
         \/ /\ disp[w].nq = None /\ disp'[w].nq = Head(global) /\ disp'[w].q = disp[w].q
            /\ disp'[w].at \in Serving /\ disp[w].at \in Serving,
         disp'[w].at # "drop", global' = Tail(global),
         UNCHANGED <<slot, ctx, ref, mq, queue, in_global, release, op, launch, quit>>
  PROVE  Accounts'
<1> DEFINE g == Head(global)
<1>0. launch[w].h = None BY DEF TypeShape, Shapes, LaunchShape
<1>1. ListedOnce' /\ g \in Handles /\ Listed(g) /\ \A k : Listed(k)' <=> Listed(k) /\ k # g
  BY TailListed DEF TypeShape, TypeInv, Accounts, OnePlace
<1>2. g # None /\ g = Head(global) BY <1>1, HandlesAssumption DEF HandlesAssumption
<1> HIDE DEF g
<1>3. mq[g] = "alive" BY <1>1 DEF Accounts, Mails
<1>4. Counted'
  <2>1. Moved(w) BY DEF Moved, Threads
  <2>2. \A k \in Handles : Held(w, k)' = Held(w, k)
    BY <1>2, HandlesAssumption DEF Held, DispHold, HandlesAssumption
  <2>3. \A k \in Handles : Held(w, k) \in Int /\ ref[k] \in Int /\ SlotHold(slot[k]) \in Int
    BY DEF Held, OpHold, DispHold, LaunchHold, SlotHold, TypeShape, TypeInv
  <2>4. w \in Threads BY DEF Threads
  <2>5. QED BY <2>1, <2>2, <2>3, <2>4, CountKept DEF Accounts
<1>5. Lives' BY DEF Accounts, Lives, Stages, Deleting
<1>6. OthersKeep(w) BY DEF OthersKeep
<1>7. \A k : k # None => (k \in InHand(w)' <=> k \in InHand(w) \/ k = g) BY <1>0, <1>2 DEF InHand
<1>8. \A k : k # None /\ k \in InHand(w) => ~Listed(k) /\ k # g BY <1>1 DEF Accounts, OnePlace, InHand
<1>9. OnePlace'
  <2>1. disp'[w].q # None => disp'[w].q # disp'[w].nq /\ disp'[w].q # launch'[w].h
    BY <1>0, <1>2, <1>8 DEF InHand, Accounts, OnePlace
  <2>2. disp'[w].nq # None => disp'[w].nq # launch'[w].h BY <1>0
  <2>3. QED BY <1>1, <1>6, <1>7, <1>8, <2>1, <2>2, PlaceMove DEF Accounts
<1>10. \A k : k # None => (Somewhere(k)' <=> Somewhere(k)) BY <1>1, <1>6, <1>7, SomewhereNext
<1>11. Mails'
  <2>1. \A k \in Handles : k # None BY HandlesAssumption DEF HandlesAssumption
  <2>2. QED BY <1>1, <1>10, <2>1 DEF Accounts, Mails
<1>12. Hands' BY <1>2, <1>3 DEF Accounts, Hands
<1>13. Sources' BY DEF Accounts, Sources, Known
<1>14. QED BY <1>4, <1>5, <1>9, <1>11, <1>12, <1>13 DEF Accounts

(* What Goto changes.                                                       *)
LEMMA GotoEffect ==
  ASSUME TypeShape, NEW w \in Workers, NEW a, Goto(w, a)
  PROVE  /\ disp'[w].at = a /\ disp'[w].q = disp[w].q /\ disp'[w].nq = disp[w].nq
         /\ \A v \in Workers : v # w => disp'[v] = disp[v]
BY DEF Goto, TypeShape, TypeInv, Dispatches

(* What Keep changes.                                                       *)
LEMMA KeepEffect ==
  ASSUME TypeShape, NEW w \in Workers, NEW a, NEW q, Keep(w, a, q)
  PROVE  /\ disp'[w].at = a /\ disp'[w].q = q /\ disp'[w].nq = None
         /\ \A v \in Workers : v # w => disp'[v] = disp[v]
BY DEF Keep, TypeShape, TypeInv, Dispatches

(* The dispatcher holds the context of the mailbox it serves.               *)
LEMMA GrabContextKept ==
  ASSUME TypeShape, TypeShape', Accounts, NEW w \in Workers, GrabContext(w)
  PROVE  Accounts'
<1> DEFINE h == disp[w].q
<1>0. /\ disp[w].at = "grab" /\ launch[w].at = "idle" /\ h \in Handles /\ w \in Threads
      /\ UNCHANGED <<slot, ctx, mq, queue, in_global, release, global, op, launch, quit>>
  BY DEF GrabContext, At, TypeShape, TypeInv, Shapes, DispShape, Dispatches, Threads
<1>1. CASE slot[h] # "live"
  <2>1. /\ disp'[w].at = "reap" /\ disp'[w].q = disp[w].q /\ disp'[w].nq = disp[w].nq /\ ref' = ref
        /\ \A v \in Workers : v # w => disp'[v] = disp[v]
    BY <1>1, GotoEffect DEF GrabContext
  <2>2. QED BY <1>0, <2>1, StaysKept DEF Serving
<1>2. CASE slot[h] = "live"
  <2>1. /\ disp'[w].at = "pop" /\ disp'[w].q = disp[w].q /\ disp'[w].nq = disp[w].nq
        /\ \A v \in Workers : v # w => disp'[v] = disp[v]
    <3>1. disp' = [disp EXCEPT ![w] = [@ EXCEPT !.at = "pop", !.first = TRUE, !.left = 0]]
      BY <1>2 DEF GrabContext
    <3>2. disp[w] \in Dispatches /\ disp \in [Workers -> Dispatches] BY DEF TypeShape, TypeInv
    <3>3. QED BY <3>1, <3>2 DEF Dispatches
  <2>2. ref'[h] = ref[h] + 1 /\ \A k \in Handles : k # h => ref'[k] = ref[k]
    BY <1>0, <1>2 DEF GrabContext, TypeShape, TypeInv
  <2>h. disp[w].q = h OBVIOUS
  <2> HIDE DEF h
  <2>3. Counted'
    <3>1. Moved(w) BY <1>0, <2>1 DEF Moved
    <3>2. \A k \in Handles : ref[k] \in Int BY DEF TypeShape, TypeInv
    <3>3. \A k \in Handles : ref'[k] = ref[k] + SlotHold(slot'[k]) - SlotHold(slot[k]) + Held(w, k)' - Held(w, k)
      BY <1>0, <2>1, <2>2, <2>h, <3>2 DEF Held, OpHold, DispHold, LaunchHold, SlotHold, Serving
    <3>4. QED BY <1>0, <3>1, <3>3, CountKept DEF Accounts
  <2>4. Lives'
    <3>1. ref[h] >= 1 BY <1>0, <1>2, HolderAlive DEF Accounts
    <3>2. ctx[h] = "alive" /\ \A u \in Threads : op[u].at = "delete" => op[u].h # h
      BY <1>0, <3>1, HolderAlive DEF Accounts
    <3>3. Stages' BY <1>0, <2>2, <3>2 DEF Accounts, Lives, Stages
    <3>4. \A u \in Threads : op[u].at = "delete" => op[u].h \in Handles /\ ref'[op[u].h] = ref[op[u].h]
      BY <2>2, <3>2 DEF TypeShape, TypeInv, Shapes, OpShape, Ops
    <3>5. Deleting' BY <1>0, <3>4 DEF Accounts, Lives, Deleting
    <3>6. QED BY <3>3, <3>5 DEF Lives
  <2>5. OnePlace' /\ \A k : (Listed(k)' <=> Listed(k)) /\ (Somewhere(k)' <=> Somewhere(k))
    BY <1>0, <2>1, PlacesStay DEF Accounts
  <2>6. Mails' BY <1>0, <2>5 DEF Accounts, Mails
  <2>7. Hands' BY <1>0, <2>1 DEF Accounts, Hands
  <2>8. Sources' BY <1>0 DEF Accounts, Sources, Known
  <2>9. QED BY <2>3, <2>4, <2>5, <2>6, <2>7, <2>8 DEF Accounts
<1>3. QED BY <1>1, <1>2

(* The first message is taken.                                              *)
LEMMA PopOneKept ==
  ASSUME TypeShape, TypeShape', Accounts, NEW w \in Workers, Pop(w), queue[disp[w].q] # <<>>
  PROVE  Accounts'
<1> DEFINE h == disp[w].q
<1>0. /\ disp[w].at = "pop" /\ h \in Handles /\ w \in Threads
      /\ UNCHANGED <<slot, ctx, ref, mq, in_global, release, global, op, launch, quit>>
  BY DEF Pop, At, TypeShape, TypeInv, Shapes, DispShape, Dispatches, Threads
<1>1. /\ disp'[w].at \in {"length", "cb"} /\ disp'[w].q = disp[w].q /\ disp'[w].nq = disp[w].nq
      /\ \A v \in Workers : v # w => disp'[v] = disp[v]
  BY GotoEffect DEF Pop
<1>2. /\ queue[h] \in Seq(Messages) /\ queue[h] # <<>> /\ queue'[h] = Tail(queue[h])
      /\ \A k \in Handles : k # h => queue'[k] = queue[k]
  BY <1>0 DEF Pop, TypeShape, TypeInv
<1> HIDE DEF h
<1>3. Counted'
  <2>1. Moved(w) BY <1>0, <1>1 DEF Moved
  <2>2. \A k \in Handles : Held(w, k)' = Held(w, k) BY <1>0, <1>1 DEF Held, DispHold, Serving
  <2>3. \A k \in Handles : Held(w, k) \in Int /\ ref[k] \in Int /\ SlotHold(slot[k]) \in Int
    BY DEF Held, OpHold, DispHold, LaunchHold, SlotHold, TypeShape, TypeInv
  <2>4. QED BY <1>0, <2>1, <2>2, <2>3, CountKept DEF Accounts
<1>4. Lives' BY <1>0 DEF Accounts, Lives, Stages, Deleting
<1>5. OnePlace' /\ \A k : (Listed(k)' <=> Listed(k)) /\ (Somewhere(k)' <=> Somewhere(k))
  BY <1>0, <1>1, PlacesStay DEF Accounts
<1>6. Mails'
  <2>1. in_global[h] BY <1>0, <1>2 DEF Accounts, Mails
  <2>2. QED BY <1>0, <1>2, <1>5, <2>1 DEF Accounts, Mails
<1>7. Hands' BY <1>0, <1>1 DEF Accounts, Hands
<1>8. Sources'
  <2>1. \A i \in 1 .. Len(queue'[h]) : i + 1 \in 1 .. Len(queue[h]) /\ queue'[h][i] = queue[h][i + 1] BY <1>2
  <2>2. \A k \in Handles : \A i \in 1 .. Len(queue'[k]) : Known(queue'[k][i])
    <3>1. \A k \in Handles : \A i \in 1 .. Len(queue[k]) : Known(queue[k][i]) BY DEF Accounts, Sources
    <3>2. h \in Handles BY <1>0
    <3>3. QED BY ZenonT(30), <1>2, <2>1, <3>1, <3>2
  <2>3. (\A k \in Handles : \A i \in 1 .. Len(queue[k]) : Known(queue[k][i]))' BY <1>0, <2>2 DEF Known
  <2>4. QED BY <1>0, <2>3 DEF Accounts, Sources, Known
<1>9. QED BY <1>3, <1>4, <1>5, <1>6, <1>7, <1>8 DEF Accounts

(* An empty mailbox leaves the worker's hand for nowhere.                   *)
LEMMA PopNoneKept ==
  ASSUME TypeShape, TypeShape', Accounts, NEW w \in Workers, Pop(w), queue[disp[w].q] = <<>>
  PROVE  Accounts'
<1> DEFINE h == disp[w].q
<1>0. /\ disp[w].at = "pop" /\ op[w].at = "idle" /\ launch[w].at = "idle" /\ h \in Handles /\ w \in Threads
      /\ UNCHANGED <<slot, ctx, ref, mq, queue, release, global, launch, quit>>
  BY DEF Pop, At, TypeShape, TypeInv, Shapes, DispShape, Dispatches, Threads
<1>1. /\ disp'[w].at = "next" /\ disp'[w].q = None /\ disp'[w].nq = None
      /\ \A v \in Workers : v # w => disp'[v] = disp[v]
  BY KeepEffect DEF Pop
<1>2. op'[w].at = "release" /\ op'[w].h = h /\ \A u \in Threads : u # w => op'[u] = op[u]
  BY <1>0 DEF Pop, Busy, TypeShape, TypeInv
<1>3. in_global'[h] = FALSE /\ \A k \in Handles : k # h => in_global'[k] = in_global[k]
  BY <1>0 DEF Pop, TypeShape, TypeInv
<1>4. disp[w].q = h /\ queue[h] = <<>> /\ h # None /\ disp[w].nq = None /\ launch[w].h = None
  BY <1>0, HandlesAssumption DEF TypeShape, Shapes, DispShape, LaunchShape, HandlesAssumption
<1> HIDE DEF h
<1>5. Counted'
  <2>1. Moved(w) BY <1>0, <1>1, <1>2 DEF Moved
  <2>2. \A k \in Handles : Held(w, k)' = Held(w, k)
    BY <1>0, <1>1, <1>2, <1>4 DEF Held, OpHold, DispHold, LaunchHold, Serving
  <2>3. \A k \in Handles : Held(w, k) \in Int /\ ref[k] \in Int /\ SlotHold(slot[k]) \in Int
    BY DEF Held, OpHold, DispHold, LaunchHold, SlotHold, TypeShape, TypeInv
  <2>4. QED BY <1>0, <2>1, <2>2, <2>3, CountKept DEF Accounts
<1>6. Lives' BY <1>0, <1>2 DEF Accounts, Lives, Stages, Deleting
<1>7. OthersKeep(w) BY <1>0, <1>1 DEF OthersKeep
<1>8. (\A k : Listed(k)' <=> Listed(k)) /\ ListedOnce' BY <1>0 DEF Listed, ListedOnce, Accounts, OnePlace
<1>9. InHand(w) = {h, None} /\ InHand(w)' = {None} BY <1>0, <1>1, <1>4 DEF InHand
<1>10. ~Listed(h) BY <1>4 DEF Accounts, OnePlace
<1>11. OnePlace' BY <1>1, <1>7, <1>8, <1>9, PlaceMove DEF Accounts
<1>12. \A k : k # None => (Somewhere(k)' <=> Somewhere(k) /\ k # h)
  BY <1>4, <1>7, <1>8, <1>9, <1>10, SomewhereNext DEF Accounts
<1>13. Mails'
  <2>1. \A k \in Handles : k # None BY HandlesAssumption DEF HandlesAssumption
  <2>2. QED BY <1>0, <1>3, <1>4, <1>8, <1>12, <2>1 DEF Accounts, Mails
<1>14. Hands' BY <1>0, <1>1 DEF Accounts, Hands
<1>15. Sources' BY <1>0, <1>2 DEF Accounts, Sources, Known
<1>16. QED BY <1>5, <1>6, <1>11, <1>13, <1>14, <1>15 DEF Accounts

(* The worker puts its mailbox at the end of the global queue: it gives up   *)
(* a context it holds, or has found none.                                   *)
LEMMA GivesKept ==
  ASSUME TypeShape, TypeShape', Accounts, NEW w \in Workers, (Reap(w) /\ ~release[disp[w].q]) \/ PushBack(w)
  PROVE  Accounts'
<1> DEFINE h == disp[w].q
<1>0. /\ disp[w].at \in {"reap", "pushback"} /\ op[w].at = "idle" /\ launch[w].at = "idle"
      /\ h \in Handles /\ w \in Threads
      /\ UNCHANGED <<slot, ctx, ref, mq, queue, in_global, release, launch, quit>>
  BY DEF Reap, PushBack, At, TypeShape, TypeInv, Shapes, DispShape, Dispatches, Threads
<1>1. /\ disp'[w].at \notin Serving \cup {"drop"} /\ disp'[w].nq = None
      /\ disp'[w].q = disp[w].nq
      /\ \A v \in Workers : v # w => disp'[v] = disp[v]
  <2>1. disp[w].at = "reap" => disp[w].nq = None BY DEF TypeShape, Shapes, DispShape
  <2>2. CASE disp[w].at = "reap"
    BY <2>1, <2>2, KeepEffect DEF Reap, PushBack, At, Serving
  <2>3. CASE disp[w].at = "pushback"
    BY <2>3, KeepEffect DEF Reap, PushBack, At, Serving
  <2>4. QED BY <1>0, <2>2, <2>3
<1>2. global' = Append(global, h) BY DEF Reap, PushBack
<1>3. /\ \A u \in Threads : u # w => op'[u] = op[u]
      /\ \/ disp[w].at = "reap" /\ op'[w] = op[w]
         \/ disp[w].at = "pushback" /\ op'[w].at = "release" /\ op'[w].h = h
  BY <1>0 DEF Reap, PushBack, At, Busy, TypeShape, TypeInv
<1>4. disp[w].q = h /\ h # None /\ launch[w].h = None
  BY <1>0, HandlesAssumption DEF TypeShape, Shapes, LaunchShape, HandlesAssumption
<1> HIDE DEF h
<1>5. ~Listed(h) /\ mq[h] = "alive" BY <1>4 DEF Accounts, OnePlace, Hands
<1>6. ListedOnce' /\ \A k : Listed(k)' <=> Listed(k) \/ k = h
  BY <1>0, <1>2, <1>5, AppendListed DEF TypeShape, TypeInv, Accounts, OnePlace
<1>7. Counted'
  <2>1. Moved(w) BY <1>0, <1>1, <1>3 DEF Moved
  <2>2. \A k \in Handles : Held(w, k)' = Held(w, k)
    BY <1>0, <1>1, <1>3, <1>4 DEF Held, OpHold, DispHold, LaunchHold, Serving
  <2>3. \A k \in Handles : Held(w, k) \in Int /\ ref[k] \in Int /\ SlotHold(slot[k]) \in Int
    BY DEF Held, OpHold, DispHold, LaunchHold, SlotHold, TypeShape, TypeInv
  <2>4. QED BY <1>0, <2>1, <2>2, <2>3, CountKept DEF Accounts
<1>8. Lives' BY <1>0, <1>3 DEF Accounts, Lives, Stages, Deleting
<1>9. OthersKeep(w) BY <1>0, <1>1 DEF OthersKeep
<1>10. \A k : k # None => (k \in InHand(w) <=> k \in InHand(w)' \/ k = h)
  BY <1>0, <1>1, <1>4 DEF InHand
<1>11. disp[w].nq # h BY <1>4 DEF Accounts, OnePlace
<1>12. OnePlace'
  <2>1. \A k : k # None /\ k \in InHand(w) => ~Listed(k) BY DEF Accounts, OnePlace, InHand
  <2>2. h \notin InHand(w)' BY <1>0, <1>1, <1>4, <1>11 DEF InHand
  <2>3. h \in InHand(w) BY <1>4 DEF InHand
  <2>4. launch'[w].h = None BY <1>0, <1>4
  <2>5. QED BY <1>1, <1>6, <1>9, <1>10, <2>1, <2>2, <2>3, <2>4, PlaceMove DEF Accounts
<1>13. \A k : k # None => (Somewhere(k)' <=> Somewhere(k)) BY <1>4, <1>6, <1>9, <1>10, SomewhereNext
<1>14. Mails'
  <2>1. \A k \in Handles : k # None BY HandlesAssumption DEF HandlesAssumption
  <2>2. QED BY <1>0, <1>5, <1>6, <1>13, <2>1 DEF Accounts, Mails
<1>15. Hands' BY <1>0, <1>1 DEF Accounts, Hands
<1>16. Sources' BY <1>0, <1>3 DEF Accounts, Sources, Known
<1>17. QED BY <1>7, <1>8, <1>12, <1>14, <1>15, <1>16 DEF Accounts

(* The worker keeps its mailbox but not its context.                        *)
LEMMA RotateNoneKept ==
  ASSUME TypeShape, TypeShape', Accounts, NEW w \in Workers, Rotate(w), global = <<>>
  PROVE  Accounts'
<1> DEFINE h == disp[w].q
<1>0. /\ disp[w].at = "rotate" /\ op[w].at = "idle" /\ h \in Handles /\ w \in Threads
      /\ UNCHANGED <<slot, ctx, ref, mq, queue, in_global, release, global, launch, quit>>
  BY DEF Rotate, At, TypeShape, TypeInv, Shapes, DispShape, Dispatches, Threads
<1>1. /\ disp'[w].at = "top" /\ disp'[w].q = disp[w].q /\ disp'[w].nq = disp[w].nq
      /\ \A v \in Workers : v # w => disp'[v] = disp[v]
  BY GotoEffect DEF Rotate
<1>2. op'[w].at = "release" /\ op'[w].h = h /\ \A u \in Threads : u # w => op'[u] = op[u]
  BY <1>0 DEF Rotate, Busy, TypeShape, TypeInv
<1>h. disp[w].q = h OBVIOUS
<1> HIDE DEF h
<1>3. Counted'
  <2>1. Moved(w) BY <1>0, <1>1, <1>2 DEF Moved
  <2>2. \A k \in Handles : Held(w, k)' = Held(w, k)
    BY <1>0, <1>1, <1>2, <1>h DEF Held, OpHold, DispHold, LaunchHold, Serving
  <2>3. \A k \in Handles : Held(w, k) \in Int /\ ref[k] \in Int /\ SlotHold(slot[k]) \in Int
    BY DEF Held, OpHold, DispHold, LaunchHold, SlotHold, TypeShape, TypeInv
  <2>4. QED BY <1>0, <2>1, <2>2, <2>3, CountKept DEF Accounts
<1>4. Lives' BY <1>0, <1>2 DEF Accounts, Lives, Stages, Deleting
<1>5. OnePlace' /\ \A k : (Listed(k)' <=> Listed(k)) /\ (Somewhere(k)' <=> Somewhere(k))
  BY <1>0, <1>1, PlacesStay DEF Accounts
<1>6. Mails' BY <1>0, <1>5 DEF Accounts, Mails
<1>7. Hands' BY <1>0, <1>1 DEF Accounts, Hands
<1>8. Sources' BY <1>0, <1>2 DEF Accounts, Sources, Known
<1>9. QED BY <1>3, <1>4, <1>5, <1>6, <1>7, <1>8 DEF Accounts

(* When the process ends a worker forgets its mailbox.                      *)
LEMMA LeavesKept ==
  ASSUME TypeShape, TypeShape', Accounts, NEW w \in Workers, Top(w), quit
  PROVE  Accounts'
<1>0. /\ disp[w].at = "top" /\ launch[w].at = "idle" /\ w \in Threads
      /\ UNCHANGED <<slot, ctx, ref, mq, queue, in_global, release, global, op, launch, quit>>
  BY DEF Top, At, Threads
<1>1. /\ disp'[w].at = "exit" /\ disp'[w].q = None /\ disp'[w].nq = None
      /\ \A v \in Workers : v # w => disp'[v] = disp[v]
  BY KeepEffect DEF Top
<1>2. launch[w].h = None BY <1>0 DEF TypeShape, Shapes, LaunchShape
<1>3. Counted'
  <2>1. Moved(w) BY <1>0, <1>1 DEF Moved
  <2>2. \A k \in Handles : Held(w, k)' = Held(w, k)
    BY <1>0, <1>1 DEF Held, DispHold, Serving
  <2>3. \A k \in Handles : Held(w, k) \in Int /\ ref[k] \in Int /\ SlotHold(slot[k]) \in Int
    BY DEF Held, OpHold, DispHold, LaunchHold, SlotHold, TypeShape, TypeInv
  <2>4. QED BY <1>0, <2>1, <2>2, <2>3, CountKept DEF Accounts
<1>4. Lives' BY <1>0 DEF Accounts, Lives, Stages, Deleting
<1>5. OthersKeep(w) BY <1>0, <1>1 DEF OthersKeep
<1>6. (\A k : Listed(k)' <=> Listed(k)) /\ ListedOnce' BY <1>0 DEF Listed, ListedOnce, Accounts, OnePlace
<1>7. InHand(w)' = {None} BY <1>0, <1>1, <1>2 DEF InHand
<1>8. OnePlace' BY <1>1, <1>5, <1>6, <1>7, PlaceMove DEF Accounts
<1>9. \A k : k # None => (Somewhere(k)' => Somewhere(k)) BY <1>5, <1>6, <1>7, SomewhereNext
<1>10. Mails'
  <2>1. \A k \in Handles : k # None BY HandlesAssumption DEF HandlesAssumption
  <2>2. QED BY <1>0, <1>6, <1>9, <2>1 DEF Accounts, Mails
<1>11. Hands' BY <1>0, <1>1 DEF Accounts, Hands
<1>12. Sources' BY <1>0 DEF Accounts, Sources, Known
<1>13. QED BY <1>3, <1>4, <1>8, <1>10, <1>11, <1>12 DEF Accounts

(* skynet_globalmq_pop by a worker with empty hands.                        *)
LEMMA GlobalPopKept ==
  ASSUME TypeShape, TypeShape', Accounts, NEW w \in Workers, launch[w].at = "idle",
         disp[w].at \in {"top", "next"}, disp[w].q = None,
         NEW a \in {"grab", "top"}, NEW b \in {"doze", "top"}, GlobalPop(w, a, b),
         UNCHANGED <<slot, ctx, ref, mq, queue, in_global, release, op, launch, quit>>
  PROVE  Accounts'
<1>1. disp[w].nq = None BY DEF TypeShape, Shapes, DispShape
<1>2. disp[w].at \notin Serving /\ a \notin Serving \cup {"drop"} /\ b \notin Serving \cup {"drop"}
  BY DEF Serving
<1>3. CASE global = <<>>
  <2>1. Keep(w, b, None) /\ global' = global BY <1>3 DEF GlobalPop
  <2>2. QED BY <1>1, <1>2, <2>1, KeepEffect, StaysKept
<1>4. CASE global # <<>>
  <2>1. Keep(w, a, Head(global)) /\ global' = Tail(global) BY <1>4 DEF GlobalPop
  <2>2. QED BY <1>1, <1>2, <1>4, <2>1, KeepEffect, TakesKept
<1>5. QED BY <1>3, <1>4

(* Every step of skynet_context_message_dispatch keeps the accounts.        *)
LEMMA DispKept ==
  ASSUME TypeShape, TypeShape', Accounts, NEW w \in Workers,
         \/ Top(w) \/ GrabContext(w) \/ Reap(w) \/ Drop(w) \/ NextQueue(w) \/ Pop(w)
         \/ Length(w) \/ Return(w) \/ Rotate(w) \/ PushBack(w) \/ Doze(w) \/ Wakeup(w)
  PROVE  Accounts'
<1>a. launch[w].at = "idle" /\ op[w].at = "idle"
  BY DEF Top, GrabContext, Reap, Drop, NextQueue, Pop, Length, Return, Rotate, PushBack, Doze, Wakeup, At
<1>1. CASE Top(w)
  <2>0. disp[w].at = "top" /\ UNCHANGED <<slot, ctx, ref, mq, queue, in_global, release, op, launch, quit>>
    BY <1>1 DEF Top, At
  <2>1. CASE quit BY <1>1, <2>1, LeavesKept
  <2>2. CASE ~quit /\ disp[w].q # None
    <3>1. Goto(w, "grab") /\ global' = global BY <1>1, <2>2 DEF Top
    <3>2. QED BY <1>a, <2>0, <3>1, GotoEffect, StaysKept DEF Serving
  <2>3. CASE ~quit /\ disp[w].q = None
    <3>1. GlobalPop(w, "grab", "doze") BY <1>1, <2>3 DEF Top
    <3>2. QED BY <1>a, <2>0, <2>3, <3>1, GlobalPopKept
  <2>4. QED BY <2>1, <2>2, <2>3
<1>2. CASE GrabContext(w) BY <1>2, GrabContextKept
<1>3. CASE Reap(w)
  <2>1. CASE ~release[disp[w].q] BY <1>3, <2>1, GivesKept
  <2>2. CASE release[disp[w].q]
    <3>1. /\ disp[w].at = "reap" /\ Goto(w, "drop")
          /\ UNCHANGED <<slot, ctx, ref, mq, queue, in_global, release, global, op, launch, quit>>
      BY <1>3, <2>2 DEF Reap, At
    <3>2. QED BY <1>a, <2>2, <3>1, GotoEffect, StaysKept DEF Serving
  <2>3. QED BY <2>1, <2>2
<1>4. CASE Drop(w)
  <2>0. disp[w].at = "drop" /\ UNCHANGED <<slot, ctx, ref, release, global, launch, quit>>
    BY <1>4 DEF Drop, At
  <2>1. disp[w].q \in Handles /\ mq[disp[w].q] = "alive"
    BY <2>0 DEF TypeShape, TypeInv, Shapes, DispShape, Dispatches, Accounts, Hands
  <2>2. CASE DropOne(w, disp[w].q) /\ UNCHANGED <<mq, in_global, disp>>
    BY <1>a, <2>0, <2>1, <2>2, DropOneKept
  <2>3. CASE FreeQueue(disp[w].q) /\ Keep(w, "next", None) /\ UNCHANGED <<queue, op>>
    BY <1>a, <2>0, <2>1, <2>3, FreeKept
  <2>4. QED BY <1>4, <2>2, <2>3 DEF Drop
<1>5. CASE NextQueue(w)
  <2>1. /\ disp[w].at = "next" /\ GlobalPop(w, "top", "top")
        /\ UNCHANGED <<slot, ctx, ref, mq, queue, in_global, release, op, launch, quit>>
    BY <1>5 DEF NextQueue, At
  <2>2. disp[w].q = None BY <2>1 DEF TypeShape, Shapes, DispShape
  <2>3. QED BY <1>a, <2>1, <2>2, GlobalPopKept
<1>6. CASE Pop(w) BY <1>6, PopOneKept, PopNoneKept
<1>7. CASE Length(w)
  <2>1. /\ disp[w].at = "length"
        /\ UNCHANGED <<slot, ctx, ref, mq, queue, in_global, release, global, op, launch, quit>>
    BY <1>7 DEF Length, At
  <2> DEFINE n == Len(queue[disp[w].q]) \div 2 ^ Weight[w]
             l == IF n > 1 THEN n - 1 ELSE 0
  <2>2. disp' = [disp EXCEPT ![w] = [@ EXCEPT !.at = "cb", !.left = l]] BY <1>7 DEF Length
  <2> HIDE DEF n, l
  <2>3. /\ disp'[w].at = "cb" /\ disp'[w].q = disp[w].q /\ disp'[w].nq = disp[w].nq
        /\ \A v \in Workers : v # w => disp'[v] = disp[v]
    BY <2>2 DEF TypeShape, TypeInv, Dispatches
  <2>4. QED BY <1>a, <2>1, <2>3, StaysKept DEF Serving
<1>8. CASE Return(w)
  <2>1. /\ disp[w].at = "cb"
        /\ UNCHANGED <<slot, ctx, ref, mq, queue, in_global, release, global, op, launch, quit>>
    BY <1>8 DEF Return, At
  <2>2. disp' = [disp EXCEPT ![w] = IF @.left = 0 THEN [@ EXCEPT !.at = "rotate"]
                 ELSE [@ EXCEPT !.at = "pop", !.first = FALSE, !.left = disp[w].left - 1]]
    BY <1>8 DEF Return
  <2>3. /\ disp'[w].at \in {"rotate", "pop"} /\ disp'[w].q = disp[w].q /\ disp'[w].nq = disp[w].nq
        /\ \A v \in Workers : v # w => disp'[v] = disp[v]
    BY <2>2 DEF TypeShape, TypeInv, Dispatches
  <2>4. QED BY <1>a, <2>1, <2>3, StaysKept DEF Serving
<1>9. CASE Rotate(w)
  <2>1. CASE global = <<>> BY <1>9, <2>1, RotateNoneKept
  <2>2. CASE global # <<>>
    <3>1. /\ disp[w].at = "rotate" /\ global' = Tail(global)
          /\ UNCHANGED <<slot, ctx, ref, mq, queue, in_global, release, op, launch, quit>>
      BY <1>9, <2>2 DEF Rotate, At
    <3>2. disp' = [disp EXCEPT ![w] = [@ EXCEPT !.at = "pushback", !.nq = Head(global)]]
      BY <1>9, <2>2 DEF Rotate
    <3> DEFINE g == Head(global)
    <3>3. disp' = [disp EXCEPT ![w] = [@ EXCEPT !.at = "pushback", !.nq = g]] BY <3>2
    <3> HIDE DEF g
    <3>4. /\ disp'[w].at = "pushback" /\ disp'[w].q = disp[w].q /\ disp'[w].nq = g
          /\ \A v \in Workers : v # w => disp'[v] = disp[v]
      BY <3>3 DEF TypeShape, TypeInv, Dispatches
    <3>5. disp[w].nq = None BY <3>1 DEF TypeShape, Shapes, DispShape
    <3>6. disp'[w].nq = Head(global) BY <3>4 DEF g
    <3>7. QED BY <1>a, <2>2, <3>1, <3>4, <3>5, <3>6, TakesKept DEF Serving
  <2>3. QED BY <2>1, <2>2
<1>10. CASE PushBack(w) BY <1>10, GivesKept
<1>11. CASE Doze(w) \/ Wakeup(w)
  <2>1. /\ disp[w].at \in {"doze", "wait"} /\ (Goto(w, "top") \/ Goto(w, "wait"))
        /\ UNCHANGED <<slot, ctx, ref, mq, queue, in_global, release, global, op, launch, quit>>
    BY <1>11 DEF Doze, Wakeup, At
  <2>2. QED BY <1>a, <2>1, GotoEffect, StaysKept DEF Serving
<1>12. QED BY <1>1, <1>2, <1>3, <1>4, <1>5, <1>6, <1>7, <1>8, <1>9, <1>10, <1>11

(* The end begins: no context is alive, the sleepers are woken.             *)
LEMMA QuitKept ==
  ASSUME TypeShape, TypeShape', Accounts, Quit
  PROVE  Accounts'
<1>0. /\ quit' = TRUE /\ \A h \in Handles : ctx[h] # "alive"
      /\ UNCHANGED <<slot, ctx, ref, mq, queue, in_global, release, global, op, launch>>
  BY DEF Quit
<1>1. ASSUME NEW w \in Workers
      PROVE  /\ disp'[w].q = disp[w].q /\ disp'[w].nq = disp[w].nq
             /\ disp'[w].at \in Serving \cup {"drop"} \/ disp[w].at \in Serving \cup {"drop"} => disp'[w].at = disp[w].at
  <2>1. disp[w] \in Dispatches BY DEF TypeShape, TypeInv
  <2>2. CASE disp[w].at = "wait"
    <3>1. disp'[w] = [disp[w] EXCEPT !.at = "top"] BY <2>2 DEF Quit
    <3>2. disp'[w].at = "top" /\ disp'[w].q = disp[w].q /\ disp'[w].nq = disp[w].nq BY <2>1, <3>1 DEF Dispatches
    <3>3. QED BY <2>2, <3>2 DEF Serving
  <2>3. CASE disp[w].at # "wait"
    <3>1. disp'[w] = disp[w] BY <2>3 DEF Quit
    <3>2. QED BY <3>1
  <2>4. QED BY <2>2, <2>3
<1>2. \A h : OpHolders(h)' = OpHolders(h) /\ LaunchHolders(h)' = LaunchHolders(h)
  BY <1>0 DEF OpHolders, LaunchHolders
<1>3. \A h : DispHolders(h)' = DispHolders(h)
  <2>1. \A w \in Workers : disp'[w].at \in Serving <=> disp[w].at \in Serving BY <1>1
  <2>2. QED BY <1>1, <2>1 DEF DispHolders
<1>4. Counted' BY <1>0, <1>2, <1>3 DEF Accounts, Counted
<1>5. Lives' BY <1>0 DEF Accounts, Lives, Stages, Deleting
<1>6. OnePlace' /\ \A k : (Listed(k)' <=> Listed(k)) /\ (Somewhere(k)' <=> Somewhere(k))
  BY <1>0, <1>1, PlacesStay DEF Accounts
<1>7. Mails' BY <1>0, <1>6 DEF Accounts, Mails
<1>8. Hands'
  <2>1. \A w \in Workers : disp'[w].at = "drop" => disp[w].at = "drop" BY <1>1
  <2>2. QED BY <1>0, <1>1, <2>1 DEF Accounts, Hands
<1>9. Sources' BY <1>0 DEF Accounts, Sources, Known
<1>10. QED BY <1>4, <1>5, <1>6, <1>7, <1>8, <1>9 DEF Accounts

(* The announcement is a send in the name that was read.                    *)
LEMMA AnnounceKept ==
  ASSUME TypeShape, TypeShape', Accounts, Pointers, NEW t \in Threads, Announce(t)
  PROVE  Accounts'
<1>1. UNCHANGED <<slot, ctx, ref, mq, queue, in_global, release, global, launch, disp, quit>>
  BY DEF Announce
<1>2. op[t].at = "announce" /\ op[t].h \in Handles /\ mq[op[t].h] # "none"
  BY DEF Announce, Pointers, Pointer, TypeShape, TypeInv, Shapes, OpShape, Ops
<1>3. PICK l \in Booted : \E s \in ReadHandle(op[t].h) : Busy(t, "grab", l, [src |-> s, type |-> "text"])
  BY DEF Announce
<1>4. PICK s \in ReadHandle(op[t].h) : Busy(t, "grab", l, [src |-> s, type |-> "text"]) BY <1>3
<1>5. /\ op'[t].at = "grab" /\ op'[t].h = l /\ op'[t].m.src = s
      /\ \A u \in Threads : u # t => op'[u] = op[u]
  BY <1>4 DEF Busy, TypeShape, TypeInv
<1>6. mq[l] # "none" /\ (s = System \/ mq[s] # "none") BY <1>2 DEF Pointers, ReadHandle
<1>7. Counted'
  <2>1. Moved(t) BY <1>1, <1>5 DEF Moved
  <2>2. \A k \in Handles : Held(t, k)' = Held(t, k) BY <1>1, <1>2, <1>5 DEF Held, OpHold
  <2>3. \A k \in Handles : Held(t, k) \in Int /\ ref[k] \in Int /\ SlotHold(slot[k]) \in Int
    BY DEF Held, OpHold, DispHold, LaunchHold, SlotHold, TypeShape, TypeInv
  <2>4. QED BY <1>1, <2>1, <2>2, <2>3, CountKept DEF Accounts
<1>8. Lives' BY <1>1, <1>5 DEF Accounts, Lives, Stages, Deleting
<1>9. OnePlace' BY <1>1 DEF Accounts, OnePlace, ListedOnce, Listed
<1>10. Mails' /\ Hands' BY <1>1 DEF Accounts, Mails, Hands, Somewhere, Listed
<1>11. Sources' BY <1>1, <1>5, <1>6 DEF Accounts, Sources, Known
<1>12. QED BY <1>7, <1>8, <1>9, <1>10, <1>11 DEF Accounts

(* What one thread does leaves the pointers of the others alone.            *)
LEMMA PointersMove ==
  ASSUME Pointers, NEW t \in Threads, \A h \in Handles : mq[h] # "none" => mq'[h] # "none",
         TypeShape, \A u \in Threads : u # t => op'[u] = op[u],
         \A v \in Workers : v # t => launch'[v] = launch[v],
         Pointer(t)'
  PROVE  Pointers'
<1>1. Booted \subseteq Handles BY HandlesAssumption DEF Booted, HandlesAssumption
<1>2. \A h \in Booted : mq'[h] # "none" BY <1>1 DEF Pointers
<1>3. ASSUME NEW u \in Threads, u # t PROVE Pointer(u)'
  <2>1. op'[u] = op[u] /\ (Launched(u)' <=> Launched(u)) /\ (u \in Workers => launch'[u] = launch[u])
    BY <1>3 DEF Launched
  <2>2. op[u].at # "idle" => op[u].h \in Handles
    BY DEF TypeShape, TypeInv, Shapes, OpShape, Ops
  <2>3. Pointer(u) BY DEF Pointers
  <2>4. Launched(u) => u \in Workers BY DEF Launched
  <2>5. QED BY <2>1, <2>2, <2>3, <2>4 DEF Pointer
<1>4. QED BY <1>2, <1>3 DEF Pointers

(* A thread in the middle of another operation has no pointer.              *)
LEMMA NoPointer ==
  ASSUME NEW t \in Threads, op'[t].at \notin {"publish", "announce"}, ~Launched(t)'
  PROVE  Pointer(t)'
BY DEF Pointer

(* A thread that has an operation to begin is no launcher any more.         *)
LEMMA ActingNoPointer ==
  ASSUME TypeShape, Pointers, NEW t \in Threads, Acting(t), launch' = launch, mq' = mq,
         \A u \in Threads : u # t => op'[u] = op[u], op'[t].at \in {"grab", "release"}
  PROVE  Pointers'
<1>1. ~Launched(t)' BY DEF Acting, Launched
<1>2. Pointer(t)' BY <1>1, NoPointer
<1>3. QED BY <1>2, PointersMove

(* The steps of a send or a release keep the pointers.                      *)
LEMMA OpPointers ==
  ASSUME TypeShape, TypeShape', Pointers, NEW t \in Threads, OpStep(t)
  PROVE  Pointers'
<1>0. op[t] \in Ops /\ Pointer(t) BY DEF TypeShape, TypeInv, Pointers
<1>1. mq' = mq /\ launch' = launch
  BY DEF OpStep, Grab, Push, Release, Delete, Announce
<1>2. \A u \in Threads : u # t => op'[u] = op[u]
  BY DEF OpStep, Grab, Push, Release, Delete, Announce, Busy, TypeShape, TypeInv
<1>3. Launched(t)' <=> Launched(t) BY <1>1 DEF Launched
<1>4. Pointer(t)'
  <2>1. CASE Grab(t) \/ Push(t) \/ Announce(t)
    <3>1. ~Launched(t) BY <1>0, <2>1 DEF Grab, Push, Announce, Pointer
    <3>2. op'[t].at \in {"idle", "grab", "push", "release"}
      BY <2>1 DEF Grab, Push, Announce, Busy, NoOp, TypeShape, TypeInv
    <3>3. QED BY <1>3, <3>1, <3>2, NoPointer
  <2>2. CASE Release(t)
    <3>0. op[t].at = "release" BY <2>2 DEF Release
    <3>1. \/ op'[t].at \in {"delete", "publish"} /\ op'[t].h = op[t].h
          \/ op'[t].at = "idle"
      BY <1>0, <2>2 DEF Release, NoOp, TypeShape, TypeInv, Ops
    <3>2. op'[t].at = "publish" => Launched(t)
      BY <1>0, <2>2 DEF Release, NoOp, TypeShape, TypeInv, Ops
    <3>3. QED BY <1>0, <1>1, <1>3, <3>0, <3>1, <3>2 DEF Pointer
  <2>3. CASE Delete(t)
    <3>1. op'[t].at = "idle" BY <2>3 DEF Delete, NoOp, TypeShape, TypeInv
    <3>2. QED BY <3>1 DEF Pointer
  <2>4. QED BY <2>1, <2>2, <2>3 DEF OpStep
<1>5. QED BY <1>1, <1>2, <1>4, PointersMove

(* The steps of skynet_context_new keep the pointers.                       *)
LEMMA LaunchPointers ==
  ASSUME TypeShape, Accounts, Pointers, NEW w \in Workers,
         MqCreate(w) \/ InitReturns(w) \/ Publish(w) \/ FailRetire(w) \/ FailReap(w) \/ FailDrop(w)
  PROVE  Pointers'
<1>0. w \in Threads /\ op[w] \in Ops /\ launch[w] \in Launches /\ Pointer(w)
  BY DEF Threads, TypeShape, TypeInv, Pointers
<1>1. \A h \in Handles : mq[h] # "none" => mq'[h] # "none"
  BY DEF MqCreate, InitReturns, Publish, FailRetire, FailReap, FailDrop, FreeQueue, TypeShape, TypeInv
<1>2. \A u \in Threads : u # w => op'[u] = op[u]
  BY DEF MqCreate, InitReturns, Publish, FailRetire, FailReap, FailDrop, DropOne, Retire, Busy, TypeShape, TypeInv
<1>3. \A v \in Workers : v # w => launch'[v] = launch[v]
  BY DEF MqCreate, InitReturns, Publish, FailRetire, FailReap, FailDrop, Step, TypeShape, TypeInv
<1>4. Pointer(w)'
  <2>1. CASE InitReturns(w)
    <3>1. /\ launch'[w].at \in {"publish", "failed"} /\ launch'[w].h = launch[w].h
          /\ op'[w].at = "release" /\ op'[w].h = launch[w].h
      BY <1>0, <2>1 DEF InitReturns, Step, Busy, TypeShape, TypeInv, Launches
    <3>2. QED BY <3>1 DEF Pointer
  <2>2. CASE Publish(w)
    <3>0. launch[w].at = "publish" BY <2>2 DEF Publish
    <3>1. launch[w].h \in Handles /\ mq[launch[w].h] = "alive" /\ mq' = mq
      BY <2>2, <3>0 DEF Publish, Accounts, Hands, TypeShape, TypeInv, Shapes, LaunchShape, Launches
    <3>2. Launched(w) BY <3>0 DEF Launched
    <3>3. \/ op'[w].at = "idle"
          \/ op'[w].at = "announce" /\ op'[w].h = launch[w].h
      BY <1>0, <2>2, <3>2 DEF Publish, Pointer, TypeShape, TypeInv, Ops
    <3>4. ~Launched(w)' BY <2>2 DEF Publish, Launched, NoLaunch, TypeShape, TypeInv
    <3>5. QED BY <3>1, <3>3, <3>4 DEF Pointer
  <2>3. CASE MqCreate(w) \/ FailRetire(w) \/ FailReap(w) \/ FailDrop(w)
    <3>1. launch'[w].at \in {"init", "reap", "drop", "idle"}
      BY <1>0, <2>3 DEF MqCreate, FailRetire, FailReap, FailDrop, Launching, Step, NoLaunch, TypeShape, TypeInv, Launches
    <3>2. op'[w].at \in {"idle", "release", "grab"}
      BY <1>0, <2>3 DEF MqCreate, FailRetire, FailReap, FailDrop, Launching, Retire, DropOne, Busy, TypeShape, TypeInv
    <3>3. ~Launched(w)' BY <3>1 DEF Launched
    <3>4. QED BY <1>0, <3>2, <3>3, NoPointer
  <2>4. QED BY <2>1, <2>2, <2>3
<1>5. QED BY <1>0, <1>1, <1>2, <1>3, <1>4, PointersMove

(* The steps of the dispatcher keep the pointers.                           *)
LEMMA DispPointers ==
  ASSUME TypeShape, Pointers, NEW w \in Workers,
         \/ Top(w) \/ GrabContext(w) \/ Reap(w) \/ Drop(w) \/ NextQueue(w) \/ Pop(w)
         \/ Length(w) \/ Return(w) \/ Rotate(w) \/ PushBack(w) \/ Doze(w) \/ Wakeup(w)
  PROVE  Pointers'
<1>0. w \in Threads BY DEF Threads
<1>1. launch' = launch
  BY DEF Top, GrabContext, Reap, Drop, NextQueue, Pop, Length, Return, Rotate, PushBack, Doze, Wakeup
<1>2. op[w].at = "idle" /\ launch[w].at = "idle"
  BY DEF At, Top, GrabContext, Reap, Drop, NextQueue, Pop, Length, Return, Rotate, PushBack, Doze, Wakeup
<1>3. \/ op' = op
      \/ \E a \in {"release", "grab"} : \E h, m : Busy(w, a, h, m)
  <2>1. CASE Drop(w) BY <2>1 DEF Drop, DropOne
  <2>2. CASE NextQueue(w) \/ Pop(w) \/ Rotate(w) \/ PushBack(w)
    BY <2>2 DEF NextQueue, Pop, Rotate, PushBack
  <2>3. CASE Top(w) \/ GrabContext(w) \/ Reap(w) \/ Length(w) \/ Return(w) \/ Doze(w) \/ Wakeup(w)
    BY <2>3 DEF Top, GrabContext, Reap, Length, Return, Doze, Wakeup
  <2>4. QED BY <2>1, <2>2, <2>3
<1>4. \A h \in Handles : mq[h] # "none" => mq'[h] # "none"
  BY DEF Top, GrabContext, Reap, Drop, FreeQueue, NextQueue, Pop, Length, Return, Rotate, PushBack, Doze, Wakeup,
         TypeShape, TypeInv
<1>5. op'[w].at \in {"idle", "release", "grab"} /\ \A u \in Threads : u # w => op'[u] = op[u]
  BY <1>0, <1>2, <1>3 DEF Busy, TypeShape, TypeInv
<1>6. ~Launched(w)' BY <1>1, <1>2 DEF Launched
<1>7. Pointer(w)' BY <1>0, <1>5, <1>6, NoPointer
<1>8. QED BY <1>0, <1>1, <1>4, <1>5, <1>7, PointersMove

(* Every step keeps the pointers.                                           *)
LEMMA PointersKept ==
  ASSUME TypeShape, Accounts, Pointers, [Next]_vars
  PROVE  Pointers'
<1>0. TypeShape' BY ShapeKept
<1>1. CASE \E t \in Threads : OpStep(t) BY <1>0, <1>1, OpPointers
<1>2. CASE \E w \in Workers : WorkerStep(w) \/ Wakeup(w)
  BY <1>2, LaunchPointers, DispPointers DEF WorkerStep
<1>3. CASE Choice
  <2>1. ASSUME NEW t \in Threads, NEW h \in Handles, Send(t, h) \/ Touch(t, h) PROVE Pointers'
    <3>1. Acting(t) /\ launch' = launch /\ mq' = mq BY <2>1 DEF Send, Touch
    <3>2. op'[t].at = "grab" /\ \A u \in Threads : u # t => op'[u] = op[u]
      BY <2>1 DEF Send, Touch, Busy, TypeShape, TypeInv
    <3>3. QED BY <3>1, <3>2, ActingNoPointer
  <2>2. ASSUME NEW w \in Workers, NEW h \in Handles, Kill(w, h) PROVE Pointers'
    <3>1. Acting(w) /\ launch' = launch /\ mq' = mq /\ w \in Threads BY <2>2 DEF Kill, Threads
    <3>2. op'[w].at = "release" /\ \A u \in Threads : u # w => op'[u] = op[u]
      BY <2>2, <3>1 DEF Kill, Retire, Busy, TypeShape, TypeInv
    <3>3. QED BY <3>1, <3>2, ActingNoPointer
  <2>3. ASSUME NEW w \in Workers, NEW h \in Handles, Register(w, h) PROVE Pointers'
    <3>1. w \in Threads /\ op[w].at = "idle" /\ op' = op /\ mq' = mq BY <2>3 DEF Register, Launching, Threads
    <3>2. launch'[w].at = "create" /\ \A v \in Workers : v # w => launch'[v] = launch[v]
      BY <2>3 DEF Register, TypeShape, TypeInv
    <3>3. ~Launched(w)' BY <3>2 DEF Launched
    <3>4. Pointer(w)' BY <3>1, <3>3, NoPointer
    <3>5. QED BY <3>1, <3>2, <3>4, PointersMove
  <2>4. QED BY <1>3, <2>1, <2>2, <2>3 DEF Choice
<1>4. CASE Quit \/ UNCHANGED vars
  <2>1. op' = op /\ launch' = launch /\ mq' = mq BY <1>4 DEF Quit, vars
  <2>2. QED BY <2>1 DEF Pointers, Pointer, Launched
<1>5. QED BY <1>1, <1>2, <1>3, <1>4 DEF Next, Ended

(* Every step keeps the accounts.                                           *)
LEMMA AccountsKept ==
  ASSUME TypeShape, Accounts, Pointers, [Next]_vars
  PROVE  Accounts'
<1>0. TypeShape' BY ShapeKept
<1>1. CASE \E t \in Threads : OpStep(t)
  BY <1>0, <1>1, GrabKept, PushKept, ReleaseKept, DeleteKept, AnnounceKept DEF OpStep
<1>2. CASE \E w \in Workers : WorkerStep(w) \/ Wakeup(w)
  BY <1>0, <1>2, LaunchKept, DispKept DEF WorkerStep
<1>3. CASE Choice BY <1>0, <1>3, SendKept, KillKept, RegisterKept DEF Choice
<1>4. CASE Quit BY <1>0, <1>4, QuitKept
<1>5. CASE UNCHANGED vars
  <2>1. UNCHANGED <<slot, ctx, ref, mq, queue, in_global, release, global, op, launch, disp, quit>>
    BY <1>5 DEF vars
  <2>2. Counted' /\ Lives'
    BY <2>1 DEF Accounts, Counted, OpHolders, DispHolders, LaunchHolders, Lives, Stages, Deleting
  <2>3. OnePlace' /\ Mails' /\ Hands' /\ Sources'
    BY <2>1 DEF Accounts, OnePlace, ListedOnce, Mails, Hands, Somewhere, Listed, Sources, Known
  <2>4. QED BY <2>2, <2>3 DEF Accounts
<1>6. QED BY <1>1, <1>2, <1>3, <1>4, <1>5 DEF Next, Ended
-----------------------------------------------------------------------------
(* The invariant holds when the threads start.                              *)
LEMMA InitSound ==
  ASSUME Init
  PROVE  IInv
<1>1. TypeInv
  <2>1. \A h \in Handles : (h \in Booted) \in BOOLEAN OBVIOUS
  <2>2. in_global \in [Handles -> BOOLEAN] BY <2>1 DEF Init
  <2>3. NoOp \in Ops /\ NoLaunch \in Launches BY DEF NoOp, Ops, NoLaunch, Launches
  <2>4. [at |-> "top", q |-> None, nq |-> None, first |-> FALSE, left |-> 0] \in Dispatches BY DEF Dispatches
  <2>5. disp \in [Workers -> Dispatches] BY <2>4 DEF Init
  <2>6. op \in [Threads -> Ops] /\ launch \in [Workers -> Launches] BY <2>3 DEF Init
  <2>7. queue \in [Handles -> Seq(Messages)] /\ global \in Seq(Handles) BY HandlesAssumption DEF Init, HandlesAssumption
  <2>8. release \in [Handles -> BOOLEAN] /\ quit \in BOOLEAN BY DEF Init
  <2>9. /\ slot \in [Handles -> {"unused", "live", "retired"}] /\ ctx \in [Handles -> {"none", "alive", "freed"}]
        /\ ref \in [Handles -> Int] /\ mq \in [Handles -> {"none", "alive", "freed"}]
    BY DEF Init
  <2>10. QED BY <2>2, <2>5, <2>6, <2>7, <2>8, <2>9 DEF TypeInv
<1>2. /\ \A t \in Threads : op[t].at = "idle"
      /\ \A w \in Workers : launch[w].at = "idle" /\ launch[w].h = None
      /\ \A w \in Workers : disp[w].at = "top" /\ disp[w].q = None /\ disp[w].nq = None
  BY DEF Init, NoOp, NoLaunch
<1>3. Shapes BY <1>2 DEF Shapes, OpShape, LaunchShape, DispShape
<1>4. Counted
  <2>1. \A h \in Handles : OpHolders(h) = {} /\ DispHolders(h) = {} /\ LaunchHolders(h) = {}
    BY <1>2 DEF OpHolders, DispHolders, LaunchHolders, Serving
  <2>2. \A h \in Handles : ref[h] = IF slot[h] = "live" THEN 1 ELSE 0 BY DEF Init
  <2>3. QED BY <2>1, <2>2, FS_EmptySet DEF Counted
<1>5. Lives
  <2>1. Stages BY DEF Init, Stages
  <2>2. Deleting BY <1>2 DEF Deleting
  <2>3. QED BY <2>1, <2>2 DEF Lives
<1>6. OnePlace
  <2>1. ListedOnce BY HandlesAssumption DEF Init, HandlesAssumption, ListedOnce
  <2>2. QED BY <1>2, <2>1 DEF OnePlace
<1>7. Mails
  <2>1. \A h \in Handles : Listed(h) <=> h \in Booted BY DEF Init, Listed, Booted
  <2>2. \A h \in Handles : Somewhere(h) <=> h \in Booted
    BY <1>2, <2>1, HandlesAssumption DEF Somewhere, HandlesAssumption
  <2>3. \A h \in Handles : /\ mq[h] = "alive" <=> h \in Booted
                           /\ in_global[h] <=> h \in Booted
                           /\ queue[h] = <<>>
    BY DEF Init
  <2>4. QED BY <2>1, <2>2, <2>3 DEF Mails
<1>8. Hands BY <1>2 DEF Hands
<1>9. Sources
  <2>1. \A h \in Handles : queue[h] = <<>> BY DEF Init
  <2>2. \A h \in Handles : 1 .. Len(queue[h]) = {} BY <2>1
  <2>3. QED BY <1>2, <2>2 DEF Sources
<1>10. Pointers
  <2>1. Booted \subseteq Handles BY HandlesAssumption DEF Booted, HandlesAssumption
  <2>2. \A h \in Booted : mq[h] = "alive" BY <2>1 DEF Init
  <2>3. \A t \in Threads : ~Launched(t) BY <1>2 DEF Launched
  <2>4. QED BY <1>2, <2>2, <2>3 DEF Pointers, Pointer
<1>11. QED BY <1>1, <1>3, <1>4, <1>5, <1>6, <1>7, <1>8, <1>9, <1>10 DEF IInv, Accounts

(* The accounts are right, for any number of services, workers and pollers,  *)
(* any weights and any number of messages: the reference count of a context  *)
(* is the number of those who hold it, and each mailbox is in one place.     *)
THEOREM AccountsRight == Spec => []IInv
<1>1. Init => IInv BY InitSound
<1>2. IInv /\ [Next]_vars => IInv'
  BY ShapeKept, AccountsKept, PointersKept DEF IInv, TypeShape
<1>3. QED BY <1>1, <1>2, PTL DEF Spec

(* A mailbox is never in two places, and never nowhere with messages in it.  *)
THEOREM MailboxOwnedOnce == Spec => []OwnedOnce
<1>1. IInv => OwnedOnce
  <2>1. SUFFICES ASSUME IInv, NEW h \in Handles
                 PROVE  /\ \A x, y \in Places(h) : x = y
                        /\ queue[h] # <<>> /\ ~quit => Places(h) # {}
    BY DEF OwnedOnce
  <2>2. h # None BY HandlesAssumption DEF HandlesAssumption
  <2>3. ASSUME NEW x \in Places(h), NEW y \in Places(h) PROVE x = y
    <3>1. ASSUME NEW z \in Places(h)
          PROVE  \/ \E i \in 1 .. Len(global) : z = <<"global", i>> /\ global[i] = h
                 \/ \E w \in Workers : z = <<"worker", w>> /\ disp[w].q = h
                 \/ \E w \in Workers : z = <<"next", w>> /\ disp[w].nq = h
                 \/ \E w \in Workers : z = <<"launcher", w>> /\ launch[w].h = h
      BY <3>1, Zenon DEF Places
    <3>2. OnePlace BY <2>1 DEF IInv, Accounts
    <3>3. CASE \E i \in 1 .. Len(global) : x = <<"global", i>> /\ global[i] = h
      <4>1. Listed(h) BY <3>3 DEF Listed
      <4>2. \E j \in 1 .. Len(global) : y = <<"global", j>> /\ global[j] = h
        BY <2>2, <3>1, <3>2, <4>1 DEF OnePlace
      <4>3. QED BY <3>2, <3>3, <4>2 DEF OnePlace, ListedOnce
    <3>4. CASE \E w \in Workers : x = <<"worker", w>> /\ disp[w].q = h
      <4>1. \E w \in Workers : y = <<"worker", w>> /\ disp[w].q = h
        BY <2>2, <3>1, <3>2, <3>4 DEF OnePlace, Listed
      <4>2. QED BY <2>2, <3>2, <3>4, <4>1 DEF OnePlace
    <3>5. CASE \E w \in Workers : x = <<"next", w>> /\ disp[w].nq = h
      <4>1. \E w \in Workers : y = <<"next", w>> /\ disp[w].nq = h
        BY <2>2, <3>1, <3>2, <3>5 DEF OnePlace, Listed
      <4>2. QED BY <2>2, <3>2, <3>5, <4>1 DEF OnePlace
    <3>6. CASE \E w \in Workers : x = <<"launcher", w>> /\ launch[w].h = h
      <4>1. \E w \in Workers : y = <<"launcher", w>> /\ launch[w].h = h
        BY <2>2, <3>1, <3>2, <3>6 DEF OnePlace, Listed
      <4>2. QED BY <2>2, <3>2, <3>6, <4>1 DEF OnePlace
    <3>7. QED BY <3>1, <3>3, <3>4, <3>5, <3>6
  <2>4. ASSUME queue[h] # <<>>, ~quit PROVE Places(h) # {}
    <3>1. Somewhere(h) BY <2>1, <2>4 DEF IInv, Accounts, Mails
    <3>2. CASE Listed(h)
      <4>1. PICK i \in 1 .. Len(global) : global[i] = h BY <3>2 DEF Listed
      <4>2. <<"global", i>> \in Places(h) BY <4>1 DEF Places
      <4>3. QED BY <4>2
    <3>3. CASE \E w \in Workers : h \in {disp[w].q, disp[w].nq, launch[w].h}
      <4>1. PICK w \in Workers : h = disp[w].q \/ h = disp[w].nq \/ h = launch[w].h BY <3>3
      <4>2. <<"worker", w>> \in Places(h) \/ <<"next", w>> \in Places(h) \/ <<"launcher", w>> \in Places(h)
        BY <4>1 DEF Places
      <4>3. QED BY <4>2
    <3>4. QED BY <3>1, <3>2, <3>3 DEF Somewhere
  <2>5. QED BY <2>3, <2>4
<1>2. QED BY <1>1, AccountsRight, PTL

(* Who holds a reference or a mailbox uses no freed memory, and a launcher   *)
(* without a reference does only after the handle has been retired.          *)
THEOREM OnlyLaunchersDangle == Spec => []AliveWhileUsed
<1>1. IInv => AliveWhileUsed
  <2>1. SUFFICES ASSUME IInv PROVE AliveWhileUsed OBVIOUS
  <2>2. TypeShape /\ Accounts BY <2>1 DEF IInv, TypeShape
  <2>3. ASSUME NEW t \in Threads, op[t].at \in {"push", "release", "delete"}
        PROVE  ctx[op[t].h] = "alive" /\ mq[op[t].h] # "freed"
    <3>1. op[t].h \in Handles BY <2>2, <2>3 DEF TypeShape, TypeInv, Shapes, OpShape, Ops
    <3>2. CASE op[t].at = "delete"
      BY <2>2, <3>1, <3>2 DEF Accounts, Lives, Stages, Deleting
    <3>3. CASE op[t].at # "delete"
      <4>1. ref[op[t].h] >= 1 BY <2>2, <2>3, <3>1, <3>3, HolderAlive DEF Accounts
      <4>2. QED BY <2>2, <3>1, <4>1, HolderAlive DEF Accounts
    <3>4. QED BY <3>2, <3>3
  <2>4. ASSUME NEW w \in Workers, disp[w].at \in {"pop", "length", "cb", "rotate", "pushback"}
        PROVE  ctx[disp[w].q] = "alive"
    <3>1. disp[w].q \in Handles BY <2>2, <2>4 DEF TypeShape, TypeInv, Shapes, DispShape, Dispatches
    <3>2. ref[disp[w].q] >= 1 BY <2>2, <2>4, <3>1, HolderAlive DEF Accounts, Serving
    <3>3. QED BY <2>2, <3>1, <3>2, HolderAlive DEF Accounts
  <2>5. \A i \in 1 .. Len(global) : mq[global[i]] = "alive"
    BY <2>2 DEF TypeShape, TypeInv, Accounts, Mails, Listed
  <2>6. ASSUME NEW t \in Threads, op[t].at \in {"publish", "announce"}, slot[op[t].h] = "live"
        PROVE  ctx[op[t].h] = "alive"
    <3>1. op[t].h \in Handles BY <2>2, <2>6 DEF TypeShape, TypeInv, Shapes, OpShape, Ops
    <3>2. ref[op[t].h] >= 1 BY <2>2, <2>6, <3>1, HolderAlive DEF Accounts
    <3>3. QED BY <2>2, <3>1, <3>2, HolderAlive DEF Accounts
  <2>7. ASSUME NEW w \in Workers, op[w].at = "publish" PROVE mq[op[w].h] = "alive"
    <3>1. w \in Threads BY DEF Threads
    <3>2. Launched(w) /\ op[w].h = launch[w].h BY <2>1, <2>7, <3>1 DEF IInv, Pointers, Pointer
    <3>3. QED BY <2>2, <3>2 DEF Launched, Accounts, Hands
  <2>8. QED BY <2>2, <2>3, <2>4, <2>5, <2>6, <2>7 DEF AliveWhileUsed, Accounts, Hands
<1>2. QED BY <1>1, AccountsRight, PTL
-----------------------------------------------------------------------------
(* The scheduler implements the actors.                                     *)

Running(w, h) == disp[w].q = h /\ disp[w].at \in {"length", "cb"}
BusyMap == [h \in Handles |-> \E w \in Workers : disp[w].q = h /\ disp[w].at \in {"length", "cb"}]
LifeMap == [h \in Handles |-> IF ctx[h] = "freed" THEN "gone" ELSE ctx[h]]

(* What the actors see of the scheduler stays the same.                     *)
LEMMA MapsSame ==
  /\ (\A h \in Handles : \A w \in Workers : Running(w, h)' <=> Running(w, h)) => BusyMap' = BusyMap
  /\ ctx' = ctx => LifeMap' = LifeMap
<1>1. ASSUME \A h \in Handles : \A w \in Workers : Running(w, h)' <=> Running(w, h)
      PROVE  BusyMap' = BusyMap
  <2>1. ASSUME NEW h \in Handles
        PROVE  (\E w \in Workers : disp'[w].q = h /\ disp'[w].at \in {"length", "cb"})
               = (\E w \in Workers : disp[w].q = h /\ disp[w].at \in {"length", "cb"})
    BY <1>1, Zenon DEF Running
  <2>2. QED BY <2>1, Zenon DEF BusyMap
<1>2. QED BY <1>1 DEF LifeMap

(* A step that touches no mailbox, no life and no handler is none of the    *)
(* actors'.                                                                 *)
LEMMA Stutters ==
  ASSUME queue' = queue, ctx' = ctx, \A h \in Handles : \A w \in Workers : Running(w, h)' <=> Running(w, h)
  PROVE  UNCHANGED Abstract!vars
<1>1. BusyMap' = BusyMap /\ LifeMap' = LifeMap BY MapsSame
<1>2. QED BY <1>1, Zenon DEF Abstract!vars, BusyMap, LifeMap

(* The handler of `h` starts or returns, and no other.                      *)
LEMMA BusySet ==
  ASSUME NEW g \in Handles, NEW b \in BOOLEAN,
         \A h \in Handles \ {g} : \A w \in Workers : Running(w, h)' <=> Running(w, h),
         (\E w \in Workers : Running(w, g)') <=> b
  PROVE  BusyMap' = [BusyMap EXCEPT ![g] = b]
<1>1. ASSUME NEW h \in Handles, h # g PROVE BusyMap'[h] = BusyMap[h]
  <2>1. (\E w \in Workers : disp'[w].q = h /\ disp'[w].at \in {"length", "cb"})
         = (\E w \in Workers : disp[w].q = h /\ disp[w].at \in {"length", "cb"})
    BY <1>1, Zenon DEF Running
  <2>2. QED BY <2>1, Zenon DEF BusyMap
<1>2. BusyMap'[g] = b
  <2>1. (\E w \in Workers : disp'[w].q = g /\ disp'[w].at \in {"length", "cb"}) = b
    BY Zenon DEF Running
  <2>2. QED BY <2>1, Zenon DEF BusyMap
<1>3. /\ BusyMap = [h \in Handles |-> BusyMap[h]] /\ BusyMap' = [h \in Handles |-> BusyMap'[h]]
  BY Zenon DEF BusyMap
<1> DEFINE F == BusyMap  G == BusyMap'
<1>4. /\ F = [h \in Handles |-> F[h]] /\ G = [h \in Handles |-> G[h]] /\ G[g] = b
      /\ \A h \in Handles : h # g => G[h] = F[h]
  BY <1>1, <1>2, <1>3
<1> HIDE DEF F, G
<1>5. G = [F EXCEPT ![g] = b] BY <1>4
<1>6. QED BY <1>5 DEF F, G

(* A service is launched, or goes.                                          *)
LEMMA LifeSet ==
  ASSUME ctx \in [Handles -> {"none", "alive", "freed"}], NEW g \in Handles, NEW c \in {"alive", "freed"},
         ctx' = [ctx EXCEPT ![g] = c]
  PROVE  LifeMap' = [LifeMap EXCEPT ![g] = IF c = "freed" THEN "gone" ELSE c]
BY DEF LifeMap

(* No two workers run handlers of one service, and a service with a running  *)
(* handler is alive.                                                        *)
LEMMA RunsAlone ==
  ASSUME TypeShape, Accounts, NEW w \in Workers, NEW h \in Handles, disp[w].q = h, disp[w].at \in Serving
  PROVE  /\ \A v \in Workers : Running(v, h) => v = w
         /\ ctx[h] = "alive" /\ LifeMap[h] = "alive"
<1>1. h # None BY HandlesAssumption DEF HandlesAssumption
<1>2. \A v \in Workers : Running(v, h) => v = w BY <1>1 DEF Running, Accounts, OnePlace
<1>3. ref[h] >= 1 BY HolderAlive DEF Accounts
<1>4. ctx[h] = "alive" BY <1>3, HolderAlive DEF Accounts
<1>5. QED BY <1>2, <1>4 DEF LifeMap

(* What only moves a worker between points where no handler runs.           *)
LEMMA QuietMove ==
  ASSUME NEW w \in Workers, \A v \in Workers : v # w => disp'[v] = disp[v],
         \/ disp'[w].q = disp[w].q /\ (disp'[w].at \in {"length", "cb"} <=> disp[w].at \in {"length", "cb"})
         \/ disp'[w].at \notin {"length", "cb"} /\ disp[w].at \notin {"length", "cb"}
  PROVE  \A h \in Handles : \A v \in Workers : Running(v, h)' <=> Running(v, h)
<1>1. SUFFICES ASSUME NEW h \in Handles, NEW v \in Workers PROVE Running(v, h)' <=> Running(v, h) OBVIOUS
<1>2. CASE v # w
  <2>1. disp'[v] = disp[v] BY <1>2
  <2>2. QED BY <2>1 DEF Running
<1>3. CASE v = w BY <1>3 DEF Running
<1>4. QED BY <1>2, <1>3

(* A push is an arrival, a deletion is an exit between two messages.        *)
LEMMA OpImplements ==
  ASSUME TypeShape, Accounts, NEW t \in Threads, OpStep(t)
  PROVE  [Abstract!Next]_(Abstract!vars)
<1>r. disp' = disp => \A h \in Handles : \A w \in Workers : Running(w, h)' <=> Running(w, h) BY DEF Running
<1>1. CASE Grab(t) \/ Release(t) \/ Announce(t)
  BY <1>1, <1>r, Stutters DEF Grab, Release, Announce
<1>2. CASE Push(t)
  <2> DEFINE h == op[t].h  m == op[t].m
  <2>0. h \in Handles /\ m \in Messages /\ op[t].at = "push"
    BY <1>2 DEF Push, TypeShape, TypeInv, Shapes, OpShape, Ops
  <2>1. ref[h] >= 1 BY <2>0, HolderAlive DEF Accounts
  <2>2. ctx[h] = "alive" BY <2>0, <2>1, HolderAlive DEF Accounts
  <2>3. LifeMap[h] = "alive" BY <2>0, <2>2 DEF LifeMap
  <2>4. queue' = [queue EXCEPT ![h] = Append(@, m)] /\ ctx' = ctx /\ disp' = disp BY <1>2 DEF Push, MqPush
  <2>5. BusyMap' = BusyMap /\ LifeMap' = LifeMap BY <1>r, <2>4, MapsSame
  <2>6. Abstract!Arrive(h, m) BY <2>3, <2>4, <2>5, Zenon DEF Abstract!Arrive, BusyMap, LifeMap
  <2> HIDE DEF h, m
  <2>7. Abstract!Next BY <2>0, <2>6 DEF Abstract!Next
  <2>8. QED BY <2>7
<1>3. CASE Delete(t)
  <2>p. PICK h \in Handles : op[t].h = h BY <1>3 DEF Delete, TypeShape, TypeInv, Shapes, OpShape, Ops
  <2>0. ref[h] = 0 /\ ctx[h] = "alive" BY <1>3, <2>p DEF Delete, Accounts, Lives, Deleting
  <2>1. ctx' = [ctx EXCEPT ![h] = "freed"] /\ queue' = queue /\ disp' = disp BY <1>3, <2>p DEF Delete
  <2>2. \A w \in Workers : ~Running(w, h)
    <3>1. \A w \in Workers : disp[w].at \in Serving /\ disp[w].q = h => ref[h] >= 1
      BY <2>0, HolderAlive DEF Accounts
    <3>2. QED BY <2>0, <3>1 DEF Running, Serving
  <2>3. ~BusyMap[h] BY <2>0, <2>2, Zenon DEF BusyMap, Running
  <2>4. LifeMap[h] = "alive" BY <2>0 DEF LifeMap
  <2>5. BusyMap' = BusyMap BY <1>r, <2>1, MapsSame
  <2>6. LifeMap' = [LifeMap EXCEPT ![h] = "gone"] BY <2>0, <2>1, LifeSet DEF TypeShape, TypeInv
  <2>7. Abstract!Exit(h) BY <2>1, <2>3, <2>4, <2>5, <2>6, Zenon DEF Abstract!Exit, BusyMap, LifeMap
  <2>8. Abstract!Next BY <2>7 DEF Abstract!Next
  <2>9. QED BY <2>8
<1>4. QED BY <1>1, <1>2, <1>3 DEF OpStep

(* A dropped message is one discarded by a service that is gone.            *)
LEMMA DropImplements ==
  ASSUME TypeShape, Accounts, NEW w \in Workers, NEW h \in Handles, release[h], DropOne(w, h),
         ctx' = ctx, disp' = disp
  PROVE  [Abstract!Next]_(Abstract!vars)
<1>1. queue[h] # <<>> /\ queue' = [queue EXCEPT ![h] = Tail(@)] BY DEF DropOne
<1>2. ctx[h] = "freed" BY DEF Accounts, Lives, Stages
<1>3. LifeMap[h] = "gone" BY <1>2 DEF LifeMap
<1>4. \A k \in Handles : \A v \in Workers : Running(v, k)' <=> Running(v, k) BY DEF Running
<1>5. BusyMap' = BusyMap /\ LifeMap' = LifeMap BY <1>4, MapsSame
<1>6. Abstract!Discard(h) BY <1>1, <1>3, <1>5, Zenon DEF Abstract!Discard, BusyMap, LifeMap
<1>7. QED BY <1>6 DEF Abstract!Next

(* A message is taken while no handler of the service runs.                 *)
LEMMA PopImplements ==
  ASSUME TypeShape, Accounts, NEW w \in Workers, Pop(w), queue[disp[w].q] # <<>>
  PROVE  [Abstract!Next]_(Abstract!vars)
<1>p. PICK h \in Handles : disp[w].q = h
  BY DEF Pop, At, TypeShape, TypeInv, Shapes, DispShape, Dispatches
<1>0. disp[w].at = "pop" /\ disp[w].q = h /\ ctx' = ctx
  BY <1>p DEF Pop, At
<1>1. /\ disp'[w].at \in {"length", "cb"} /\ disp'[w].q = disp[w].q
      /\ \A v \in Workers : v # w => disp'[v] = disp[v]
  BY GotoEffect DEF Pop
<1>2. queue[h] # <<>> /\ queue' = [queue EXCEPT ![h] = Tail(@)] BY <1>p DEF Pop
<1>3. (\A v \in Workers : Running(v, h) => v = w) /\ LifeMap[h] = "alive"
  BY <1>0, <1>p, RunsAlone DEF Serving
<1>4. \A v \in Workers : ~Running(v, h) BY <1>0, <1>3 DEF Running
<1>5. ~BusyMap[h] BY <1>0, <1>4, Zenon DEF BusyMap, Running
<1>6. BusyMap' = [BusyMap EXCEPT ![h] = TRUE]
  <2>1. ASSUME NEW k \in Handles \ {h}, NEW v \in Workers PROVE Running(v, k)' <=> Running(v, k)
    <3>1. CASE v = w BY <1>1, <1>p, <3>1 DEF Running
    <3>2. CASE v # w
      <4>1. disp'[v] = disp[v] BY <1>1, <3>2
      <4>2. QED BY <4>1 DEF Running
    <3>3. QED BY <3>1, <3>2
  <2>2. (\E v \in Workers : Running(v, h)') <=> TRUE BY <1>1, <1>p DEF Running
  <2>3. QED BY <1>0, <2>1, <2>2, BusySet
<1>7. LifeMap' = LifeMap BY <1>0, MapsSame
<1>8. Abstract!Handle(h) BY <1>2, <1>3, <1>5, <1>6, <1>7, Zenon DEF Abstract!Handle, BusyMap, LifeMap
<1>9. Abstract!Next BY <1>8 DEF Abstract!Next
<1>10. QED BY <1>9

(* A handler's return is its end.                                           *)
LEMMA ReturnImplements ==
  ASSUME TypeShape, Accounts, NEW w \in Workers, Return(w)
  PROVE  [Abstract!Next]_(Abstract!vars)
<1>p. PICK h \in Handles : disp[w].q = h
  BY DEF Return, At, TypeShape, TypeInv, Shapes, DispShape, Dispatches
<1>0. disp[w].at = "cb" /\ disp[w].q = h /\ ctx' = ctx /\ queue' = queue
  BY <1>p DEF Return, At
<1>1. /\ disp'[w].at \in {"rotate", "pop"} /\ disp'[w].q = disp[w].q
      /\ \A v \in Workers : v # w => disp'[v] = disp[v]
  <2>1. disp' = [disp EXCEPT ![w] = IF @.left = 0 THEN [@ EXCEPT !.at = "rotate"]
                 ELSE [@ EXCEPT !.at = "pop", !.first = FALSE, !.left = disp[w].left - 1]]
    BY DEF Return
  <2>2. QED BY <2>1 DEF TypeShape, TypeInv, Dispatches
<1>2. \A v \in Workers : Running(v, h) => v = w BY <1>0, <1>p, RunsAlone DEF Serving
<1>3. Running(w, h) BY <1>0, <1>p DEF Running
<1>4. BusyMap[h] BY <1>0, <1>3, Zenon DEF BusyMap, Running
<1>5. BusyMap' = [BusyMap EXCEPT ![h] = FALSE]
  <2>1. ASSUME NEW k \in Handles \ {h}, NEW v \in Workers PROVE Running(v, k)' <=> Running(v, k)
    <3>1. CASE v = w BY <1>1, <1>p, <3>1 DEF Running
    <3>2. CASE v # w
      <4>1. disp'[v] = disp[v] BY <1>1, <3>2
      <4>2. QED BY <4>1 DEF Running
    <3>3. QED BY <3>1, <3>2
  <2>2. (\E v \in Workers : Running(v, h)') <=> FALSE
    <3>1. ~Running(w, h)' BY <1>1 DEF Running
    <3>2. ASSUME NEW v \in Workers, v # w PROVE ~Running(v, h)'
      <4>1. disp'[v] = disp[v] /\ ~Running(v, h) BY <1>1, <1>2, <3>2
      <4>2. QED BY <4>1 DEF Running
    <3>3. QED BY <3>1, <3>2
  <2>3. QED BY <1>0, <2>1, <2>2, BusySet
<1>6. LifeMap' = LifeMap BY <1>0, MapsSame
<1>7. Abstract!Finish(h) BY <1>0, <1>4, <1>5, <1>6, Zenon DEF Abstract!Finish, BusyMap, LifeMap
<1>8. Abstract!Next BY <1>7 DEF Abstract!Next
<1>9. QED BY <1>8

(* Every step of a worker is a step of the actors or none.                  *)
LEMMA WorkerImplements ==
  ASSUME TypeShape, Accounts, NEW w \in Workers, WorkerStep(w) \/ Wakeup(w)
  PROVE  [Abstract!Next]_(Abstract!vars)
<1>r. disp' = disp => \A h \in Handles : \A v \in Workers : Running(v, h)' <=> Running(v, h) BY DEF Running
<1>1. CASE MqCreate(w) \/ InitReturns(w) \/ Publish(w) \/ FailRetire(w) \/ FailReap(w)
  <2>1. queue' = queue /\ ctx' = ctx /\ disp' = disp
    BY <1>1 DEF MqCreate, InitReturns, Publish, FailRetire, FailReap
  <2>2. QED BY <1>r, <2>1, Stutters
<1>2. CASE FailDrop(w)
  <2>0. launch[w].at = "drop" /\ ctx' = ctx /\ disp' = disp BY <1>2 DEF FailDrop, Launching
  <2>1. PICK h \in Handles : launch[w].h = h
    BY <2>0 DEF TypeShape, TypeInv, Shapes, LaunchShape, Launches
  <2>2. release[h] BY <2>0, <2>1 DEF Accounts, Hands
  <2>3. CASE DropOne(w, h) BY <2>0, <2>2, <2>3, DropImplements
  <2>4. CASE queue' = queue BY <1>r, <2>0, <2>4, Stutters
  <2>5. QED BY <1>2, <2>1, <2>3, <2>4 DEF FailDrop
<1>3. CASE Drop(w)
  <2>0. disp[w].at = "drop" /\ ctx' = ctx BY <1>3 DEF Drop, At
  <2>1. PICK h \in Handles : disp[w].q = h
    BY <2>0 DEF TypeShape, TypeInv, Shapes, DispShape, Dispatches
  <2>2. release[h] BY <2>0, <2>1 DEF Accounts, Hands
  <2>3. CASE DropOne(w, h) /\ disp' = disp BY <2>0, <2>2, <2>3, DropImplements
  <2>4. CASE queue' = queue /\ Keep(w, "next", None)
    <3>1. \A k \in Handles : \A v \in Workers : Running(v, k)' <=> Running(v, k)
      BY <2>0, <2>4, KeepEffect, QuietMove
    <3>2. QED BY <2>0, <2>4, <3>1, Stutters
  <2>5. QED BY <1>3, <2>1, <2>3, <2>4 DEF Drop
<1>4. CASE Pop(w)
  <2>1. CASE queue[disp[w].q] # <<>> BY <1>4, <2>1, PopImplements
  <2>2. CASE queue[disp[w].q] = <<>>
    <3>0. disp[w].at = "pop" /\ ctx' = ctx /\ queue' = queue /\ Keep(w, "next", None) BY <1>4, <2>2 DEF Pop, At
    <3>1. \A k \in Handles : \A v \in Workers : Running(v, k)' <=> Running(v, k)
      BY <3>0, KeepEffect, QuietMove
    <3>2. QED BY <3>0, <3>1, Stutters
  <2>3. QED BY <2>1, <2>2
<1>5. CASE Return(w) BY <1>5, ReturnImplements
<1>6. CASE Top(w) \/ GrabContext(w) \/ Reap(w) \/ NextQueue(w) \/ Length(w) \/ Rotate(w)
           \/ PushBack(w) \/ Doze(w) \/ Wakeup(w)
  <2>0. queue' = queue /\ ctx' = ctx
    BY <1>6 DEF Top, GrabContext, Reap, NextQueue, Length, Rotate, PushBack, Doze, Wakeup
  <2>1. /\ \A v \in Workers : v # w => disp'[v] = disp[v]
        /\ \/ disp'[w].q = disp[w].q /\ disp'[w].at = "cb" /\ disp[w].at = "length"
           \/ disp'[w].at \notin {"length", "cb"} /\ disp[w].at \notin {"length", "cb"}
    <3>1. CASE Top(w) \/ NextQueue(w)
      BY <3>1, KeepEffect, GotoEffect DEF Top, NextQueue, GlobalPop, At
    <3>2. CASE GrabContext(w)
      <4>1. CASE slot[disp[w].q] = "live"
        <5>1. disp[w].at = "grab"
              /\ disp' = [disp EXCEPT ![w] = [@ EXCEPT !.at = "pop", !.first = TRUE, !.left = 0]]
          BY <3>2, <4>1 DEF GrabContext, At
        <5>2. QED BY <5>1 DEF TypeShape, TypeInv, Dispatches
      <4>2. CASE slot[disp[w].q] # "live" BY <3>2, <4>2, GotoEffect DEF GrabContext, At
      <4>3. QED BY <4>1, <4>2
    <3>3. CASE Reap(w) BY <3>3, KeepEffect, GotoEffect DEF Reap, At
    <3>4. CASE Length(w)
      <4> DEFINE n == Len(queue[disp[w].q]) \div 2 ^ Weight[w]
                 l == IF n > 1 THEN n - 1 ELSE 0
      <4>1. disp[w].at = "length" /\ disp' = [disp EXCEPT ![w] = [@ EXCEPT !.at = "cb", !.left = l]]
        BY <3>4 DEF Length, At
      <4> HIDE DEF n, l
      <4>2. QED BY <4>1 DEF TypeShape, TypeInv, Dispatches
    <3>5. CASE Rotate(w)
      <4>1. CASE global = <<>> BY <3>5, <4>1, GotoEffect DEF Rotate, At
      <4>2. CASE global # <<>>
        <5> DEFINE g == Head(global)
        <5>1. disp[w].at = "rotate" /\ disp' = [disp EXCEPT ![w] = [@ EXCEPT !.at = "pushback", !.nq = g]]
          BY <3>5, <4>2 DEF Rotate, At
        <5> HIDE DEF g
        <5>2. QED BY <5>1 DEF TypeShape, TypeInv, Dispatches
      <4>3. QED BY <4>1, <4>2
    <3>6. CASE PushBack(w) BY <3>6, KeepEffect DEF PushBack, At
    <3>7. CASE Doze(w) \/ Wakeup(w) BY <3>7, GotoEffect DEF Doze, Wakeup, At
    <3>8. QED BY <1>6, <3>1, <3>2, <3>3, <3>4, <3>5, <3>6, <3>7
  <2>2. \A k \in Handles : \A v \in Workers : Running(v, k)' <=> Running(v, k) BY <2>1, QuietMove
  <2>3. QED BY <2>0, <2>2, Stutters
<1>7. QED BY <1>1, <1>2, <1>3, <1>4, <1>5, <1>6 DEF WorkerStep

(* A registration launches an actor; sends and kills are not seen yet.      *)
LEMMA ChoiceImplements ==
  ASSUME TypeShape, Accounts, Choice
  PROVE  [Abstract!Next]_(Abstract!vars)
<1>r. disp' = disp => \A h \in Handles : \A v \in Workers : Running(v, h)' <=> Running(v, h) BY DEF Running
<1>1. ASSUME NEW t \in Threads, NEW h \in Handles, Send(t, h) \/ Touch(t, h)
      PROVE  [Abstract!Next]_(Abstract!vars)
  <2>1. queue' = queue /\ ctx' = ctx /\ disp' = disp BY <1>1 DEF Send, Touch
  <2>2. QED BY <1>r, <2>1, Stutters
<1>2. ASSUME NEW w \in Workers, NEW h \in Handles, Kill(w, h)
      PROVE  [Abstract!Next]_(Abstract!vars)
  <2>1. queue' = queue /\ ctx' = ctx /\ disp' = disp BY <1>2 DEF Kill
  <2>2. QED BY <1>r, <2>1, Stutters
<1>3. ASSUME NEW w \in Workers, NEW h \in Handles, Register(w, h)
      PROVE  [Abstract!Next]_(Abstract!vars)
  <2>1. queue' = queue /\ ctx' = [ctx EXCEPT ![h] = "alive"] /\ disp' = disp BY <1>3 DEF Register
  <2>2. ctx[h] = "none" BY <1>3 DEF Register, Accounts, Lives, Stages
  <2>3. LifeMap[h] = "none" BY <2>2 DEF LifeMap
  <2>4. LifeMap' = [LifeMap EXCEPT ![h] = "alive"] BY <2>1, LifeSet DEF TypeShape, TypeInv
  <2>5. BusyMap' = BusyMap BY <1>r, <2>1, MapsSame
  <2>6. Abstract!Launch(h) BY <2>1, <2>3, <2>4, <2>5, Zenon DEF Abstract!Launch, BusyMap, LifeMap
  <2>7. Abstract!Next BY <2>6 DEF Abstract!Next
  <2>8. QED BY <2>7
<1>4. QED BY <1>1, <1>2, <1>3 DEF Choice

(* Every step of the scheduler is a step of the actors or none.             *)
LEMMA StepImplements ==
  ASSUME IInv, [Next]_vars
  PROVE  [Abstract!Next]_(Abstract!vars)
<1>0. TypeShape /\ Accounts BY DEF IInv, TypeShape
<1>1. CASE \E t \in Threads : OpStep(t) BY <1>0, <1>1, OpImplements
<1>2. CASE \E w \in Workers : WorkerStep(w) \/ Wakeup(w) BY <1>0, <1>2, WorkerImplements
<1>3. CASE Choice BY <1>0, <1>3, ChoiceImplements
<1>4. CASE Quit
  <2>1. queue' = queue /\ ctx' = ctx BY <1>4 DEF Quit
  <2>2. ASSUME NEW h \in Handles, NEW w \in Workers PROVE Running(w, h)' <=> Running(w, h)
    <3>1. disp[w] \in Dispatches BY <1>0 DEF TypeShape, TypeInv
    <3>2. CASE disp[w].at = "wait"
      <4>1. disp'[w] = [disp[w] EXCEPT !.at = "top"] BY <1>4, <3>2 DEF Quit
      <4>2. disp'[w].at = "top" BY <3>1, <4>1 DEF Dispatches
      <4>3. QED BY <3>2, <4>2 DEF Running
    <3>3. CASE disp[w].at # "wait"
      <4>1. disp'[w] = disp[w] BY <1>4, <3>3 DEF Quit
      <4>2. QED BY <4>1 DEF Running
    <3>4. QED BY <3>2, <3>3
  <2>3. QED BY <2>1, <2>2, Stutters
<1>5. CASE UNCHANGED vars
  <2>1. queue' = queue /\ ctx' = ctx /\ disp' = disp BY <1>5 DEF vars
  <2>2. \A h \in Handles : \A v \in Workers : Running(v, h)' <=> Running(v, h) BY <2>1 DEF Running
  <2>3. QED BY <2>1, <2>2, Stutters
<1>6. QED BY <1>1, <1>2, <1>3, <1>4, <1>5 DEF Next, Ended

(* The scheduler is an implementation of the actors: one handler at a time,  *)
(* messages in their order, none lost while the service lives.              *)
THEOREM SchedulerImplementsActors == Spec => ActorSpec
<1>1. Init => Abstract!Init
  <2>1. SUFFICES ASSUME Init PROVE Abstract!Init OBVIOUS
  <2>2. queue = [h \in Handles |-> <<>>] BY <2>1 DEF Init
  <2>3. BusyMap = [h \in Handles |-> FALSE]
    <3>1. \A w \in Workers : disp[w].at = "top" BY <2>1 DEF Init
    <3>2. ASSUME NEW h \in Handles
          PROVE  (\E w \in Workers : disp[w].q = h /\ disp[w].at \in {"length", "cb"}) = FALSE
      BY <3>1
    <3>3. QED BY <3>2, Zenon DEF BusyMap
  <2>4. LifeMap \in [Handles -> {"none", "alive"}] BY <2>1 DEF Init, LifeMap
  <2>5. QED BY <2>2, <2>3, <2>4, Zenon DEF Abstract!Init, BusyMap, LifeMap
<1>2. IInv /\ [Next]_vars => [Abstract!Next]_(Abstract!vars) BY StepImplements
<1>3. QED BY <1>1, <1>2, AccountsRight, PTL DEF Spec, ActorSpec, Abstract!Spec
=============================================================================
