------------------------- MODULE SocketServerProofs -------------------------
(***************************************************************************)
(* What a service may rely on of its sockets, for any number of slots, ids,  *)
(* parts of a package and requests: what is buffered is waited for, a close  *)
(* is answered, a socket reported closed is never heard of again, and the     *)
(* packages on a connection are whole and in order.                         *)
(***************************************************************************)
EXTENDS SocketServer, FiniteSetTheorems, SequenceTheorems, WellFoundedInduction, TLAPS

(* Commands, slots and events.                                              *)
Commands == [op : {"O", "L", "B", "S", "K", "H", "D", "P"}, id : Nat, n : Nat]

SlotType ==
  [type : {"INVALID", "RESERVE", "PLISTEN", "LISTEN", "CONNECTING", "CONNECTED",
           "HALFCLOSE", "PACCEPT", "BIND"},
   id : Nat, high : Seq(Nat \X Nat), low : Seq(Nat \X Nat), wb_size : Int,
   armed : BOOLEAN, fd : {"none", "tcp", "file"}]

Events == [s : SlotsOf \cup {NoSocket}, read : BOOLEAN, write : BOOLEAN]

SocketType ==
  /\ sock \in [SlotsOf -> SlotType]
  /\ alloc_id \in Nat /\ reserved \subseteq Nat
  /\ pipe \in Seq(Commands) /\ ev \in Seq(Events)
  /\ posted \in Seq([id : Ids, op : {"D", "P"}])
  /\ gone \subseteq Nat /\ owed \subseteq Nat

InUse(s) == s.type \notin {"INVALID", "RESERVE"}

(* What a slot's type says of its file and of its write event: a socket      *)
(* that connects waits for it, and a connection with something buffered.     *)
SlotSound(s) ==
  /\ InUse(s) <=> s.fd # "none"
  /\ s.type = "BIND" => s.fd = "file"
  /\ s.type = "CONNECTING" => s.armed = TRUE
  /\ s.fd = "tcp" /\ ~Empty(s) => s.armed = TRUE

SlotsSound == \A k \in SlotsOf : SlotSound(sock[k])

(* A slot in use has the id of a service that was not told of its end.       *)
Placed ==
  \A k \in SlotsOf : InUse(sock[k]) =>
    /\ Hash(sock[k].id) = k /\ sock[k].id <= alloc_id
    /\ sock[k].id \notin reserved /\ sock[k].id \notin gone

(* An id that reserve_id has given out holds its slot, alone, until the      *)
(* command that opens it is read.                                           *)
Held ==
  \A r \in reserved :
    /\ r <= alloc_id /\ r \notin gone /\ sock[Hash(r)].type = "RESERVE"
    /\ \A q \in reserved : Hash(q) = Hash(r) => q = r

Opens(c) == c.op \in {"O", "L", "B"}

(* The commands are about ids that were given out; the one that opens an id  *)
(* is the first about it, and finds the slot as it was reserved.             *)
Commanded ==
  \A i \in DOMAIN pipe :
    /\ pipe[i].id <= alloc_id /\ pipe[i].id \notin reserved
    /\ Opens(pipe[i]) =>
         /\ sock[Hash(pipe[i].id)].type = "RESERVE" /\ sock[Hash(pipe[i].id)].id = pipe[i].id
         /\ pipe[i].id \notin gone
         /\ \A r \in reserved : Hash(r) # Hash(pipe[i].id)
         /\ \A j \in DOMAIN pipe : pipe[j].id = pipe[i].id => i <= j

Past == \A id \in gone : id <= alloc_id

SocketInv == SocketType /\ SlotsSound /\ Placed /\ Held /\ Commanded /\ Past
-----------------------------------------------------------------------------
(* A slot for every id.                                                     *)
LEMMA HashIn == ASSUME NEW id \in Nat PROVE Hash(id) \in SlotsOf
<1>1. MaxSocket \in Nat \ {0} BY SocketAssumption DEF SocketAssumption
<1>2. QED BY <1>1 DEF Hash, SlotsOf

(* Reading a command.                                                       *)
LEMMA PipeRead ==
  ASSUME pipe \in Seq(Commands), pipe # <<>>
  PROVE  /\ Tail(pipe) \in Seq(Commands) /\ Head(pipe) \in Commands
         /\ 1 \in DOMAIN pipe /\ Head(pipe) = pipe[1]
         /\ \A i \in DOMAIN Tail(pipe) :
              i \in Nat \ {0} /\ i + 1 \in DOMAIN pipe /\ Tail(pipe)[i] = pipe[i + 1]
         /\ \A i \in DOMAIN pipe : i # 1 => i - 1 \in DOMAIN Tail(pipe) /\ Tail(pipe)[i - 1] = pipe[i]
  OBVIOUS

(* Writing a command.                                                       *)
LEMMA PipeWritten ==
  ASSUME pipe \in Seq(Commands), NEW c \in Commands
  PROVE  /\ Append(pipe, c) \in Seq(Commands)
         /\ DOMAIN pipe = 1 .. Len(pipe) /\ DOMAIN Append(pipe, c) = 1 .. Len(pipe) + 1
         /\ Len(pipe) \in Nat
         /\ Append(pipe, c)[Len(pipe) + 1] = c
         /\ \A i \in 1 .. Len(pipe) : Append(pipe, c)[i] = pipe[i]
  OBVIOUS

(* A set of numbers has a least one.                                        *)
LEMMA LeastOf ==
  ASSUME NEW E, E \subseteq Nat, E # {} PROVE Min(E) \in E /\ \A y \in E : Min(E) <= y
<1> DEFINE R == OpToRel(<, Nat)
<1>a. \A j, i \in Nat : j < i => <<j, i>> \in R BY DEF OpToRel
<1>b. IsWellFoundedOn(R, Nat) BY NatLessThanWellFounded
<1> HIDE DEF R
<1>1. PICK i \in E : \A j \in E : ~(<<j, i>> \in R) BY <1>b, WFMin
<1>2. \A j \in E : ~(j < i) BY <1>1, <1>a, Zenon
<1>3. \A j \in E : i <= j BY <1>2
<1>4. QED BY <1>3 DEF Min

(* The first package of a list ends somewhere in it.                        *)
LEMMA HeadEnds ==
  ASSUME NEW S, NEW list \in Seq(S), list # <<>>
  PROVE  /\ HeadEnd(list) \in 1 .. Len(list)
         /\ HeadEnd(list) = Len(list) \/ list[HeadEnd(list) + 1][1] # list[HeadEnd(list)][1]
<1> DEFINE ends == {i \in DOMAIN list : i = Len(list) \/ list[i + 1][1] # list[i][1]}
<1>1. Len(list) \in ends /\ ends \subseteq 1 .. Len(list) /\ ends \subseteq Nat OBVIOUS
<1>2. HeadEnd(list) = Min(ends) BY DEF HeadEnd
<1> HIDE DEF ends
<1>3. Min(ends) \in ends BY <1>1, LeastOf
<1>4. PICK e : e = HeadEnd(list) OBVIOUS
<1>5. e \in ends BY <1>2, <1>3, <1>4
<1>6. e \in 1 .. Len(list) BY <1>1, <1>5
<1>7. e = Len(list) \/ list[e + 1][1] # list[e][1] BY <1>5 DEF ends
<1>8. QED BY <1>4, <1>6, <1>7

(* A suffix of a list.                                                      *)
LEMMA RestOf ==
  ASSUME NEW S, NEW list \in Seq(S), NEW n \in Nat
  PROVE  Rest(list, n) \in Seq(S) /\ (list = <<>> => Rest(list, n) = <<>>)
  BY DEF Rest
-----------------------------------------------------------------------------
(* What is done to a slot.                                                  *)
LEMMA ForceCloseSlot ==
  ASSUME NEW s \in SlotType
  PROVE  /\ ForceClose(s) \in SlotType /\ SlotSound(ForceClose(s))
         /\ ForceClose(s).type = "INVALID" /\ ForceClose(s).id = s.id
<1> DEFINE t == ForceClose(s)
<1>0. <<>> \in Seq(Nat \X Nat) OBVIOUS
<1>1. t \in SlotType /\ t.type = "INVALID" /\ t.id = s.id /\ t.fd = "none"
  BY <1>0 DEF ForceClose, SlotType
<1> HIDE DEF t
<1>2. SlotSound(t) BY <1>1 DEF SlotSound, InUse
<1>3. QED BY <1>1, <1>2 DEF t

(* raise_uncomplete moves parts from one list to the other.                 *)
LEMMA RaiseSlot ==
  ASSUME NEW s \in SlotType
  PROVE  LET t == RaiseUncomplete(s) IN
         /\ t \in SlotType /\ t.type = s.type /\ t.id = s.id /\ t.armed = s.armed /\ t.fd = s.fd
         /\ Empty(s) => Empty(t)
<1>1. CASE s.high = <<>> /\ ListUncomplete(s.low)
  <2> DEFINE n == HeadEnd(s.low)
  <2>0. s.low \in Seq(Nat \X Nat) /\ s.low # <<>> BY <1>1 DEF SlotType, ListUncomplete
  <2>1. n \in 1 .. Len(s.low) BY <2>0, HeadEnds
  <2>2. RaiseUncomplete(s) = [s EXCEPT !.high = SubSeq(s.low, 1, n), !.low = Rest(s.low, n)]
    BY <1>1 DEF RaiseUncomplete
  <2> HIDE DEF n
  <2>a. \A i \in 1 .. n : s.low[i] \in Nat \X Nat BY <2>0, <2>1
  <2>3. SubSeq(s.low, 1, n) \in Seq(Nat \X Nat) BY <2>1, <2>a, SubSeqProperties
  <2>4. Rest(s.low, n) \in Seq(Nat \X Nat) BY <2>0, <2>1, RestOf
  <2>5. QED BY <2>0, <2>2, <2>3, <2>4 DEF SlotType, Empty
<1>2. CASE ~(s.high = <<>> /\ ListUncomplete(s.low))
  BY <1>2 DEF RaiseUncomplete
<1>3. QED BY <1>1, <1>2

(* send_buffer: the slot stays what it is and its write event stays on while  *)
(* something is buffered; a half closed one is closed at the end.            *)
LEMMA FlushedSlot ==
  ASSUME NEW s \in SlotType, NEW n \in 0 .. Len(s.high \o s.low)
  PROVE  LET t == Flushed(s, n) IN
         /\ t \in SlotType /\ t.id = s.id
         /\ Empty(s) => Empty(t)
         /\ \/ t.type = s.type /\ t.fd = s.fd /\ (~Empty(t) \/ s.type = "HALFCLOSE" => t.armed = s.armed)
            \/ s.type = "HALFCLOSE" /\ t.type = "INVALID" /\ t.fd = "none"
<1> DEFINE h == IF n < Len(s.high) THEN n ELSE Len(s.high)
           u == [s EXCEPT !.high = Rest(s.high, h), !.low = Rest(s.low, n - h), !.wb_size = s.wb_size - n]
<1>1. s.high \in Seq(Nat \X Nat) /\ s.low \in Seq(Nat \X Nat) /\ s.wb_size \in Int BY DEF SlotType
<1>2. Len(s.high) \in Nat /\ n \in Nat BY <1>1
<1>3. h \in Nat /\ n - h \in Nat /\ s.wb_size - n \in Int BY <1>1, <1>2
<1>4. Flushed(s, n) = IF u.high # <<>> THEN u
                      ELSE IF s.low # <<>> THEN RaiseUncomplete(u) ELSE CheckClose(u)
  BY DEF Flushed
<1> HIDE DEF h
<1>5. /\ Rest(s.high, h) \in Seq(Nat \X Nat) /\ Rest(s.low, n - h) \in Seq(Nat \X Nat)
      /\ s.high = <<>> => Rest(s.high, h) = <<>>
      /\ s.low = <<>> => Rest(s.low, n - h) = <<>>
  BY <1>1, <1>3, RestOf
<1>6. /\ u \in SlotType /\ u.high = Rest(s.high, h) /\ u.low = Rest(s.low, n - h)
      /\ u.type = s.type /\ u.id = s.id /\ u.fd = s.fd /\ u.armed = s.armed
  BY <1>3, <1>5 DEF SlotType
<1> HIDE DEF u
<1>7. CASE u.high # <<>>
  <2>1. Flushed(s, n) = u /\ ~Empty(s) BY <1>4, <1>5, <1>6, <1>7 DEF Empty
  <2>2. QED BY <1>6, <2>1
<1>8. CASE u.high = <<>> /\ s.low # <<>>
  <2>1. Flushed(s, n) = RaiseUncomplete(u) /\ ~Empty(s) BY <1>4, <1>8 DEF Empty
  <2>2. QED BY <1>6, <2>1, RaiseSlot
<1>9. CASE u.high = <<>> /\ s.low = <<>>
  <2>1. Flushed(s, n) = CheckClose(u) /\ Empty(u) BY <1>4, <1>5, <1>6, <1>9 DEF Empty
  <2>2. CASE s.type = "HALFCLOSE"
    <3>1. Flushed(s, n) = ForceClose(u) BY <1>6, <2>1, <2>2 DEF CheckClose
    <3>2. ForceClose(u).fd = "none" /\ Empty(ForceClose(u)) BY <1>6 DEF ForceClose, SlotType, Empty
    <3>3. QED BY <1>6, <2>2, <3>1, <3>2, ForceCloseSlot
  <2>3. CASE s.type # "HALFCLOSE"
    <3> DEFINE v == [u EXCEPT !.armed = FALSE]
    <3>1. Flushed(s, n) = v BY <1>6, <2>1, <2>3 DEF CheckClose
    <3>2. v \in SlotType /\ v.id = u.id /\ v.type = u.type /\ v.fd = u.fd /\ Empty(v)
      BY <1>6, <2>1 DEF SlotType, Empty
    <3> HIDE DEF v
    <3>3. QED BY <1>6, <2>3, <3>1, <3>2
  <2>4. QED BY <2>2, <2>3
<1>10. QED BY <1>7, <1>8, <1>9

(* append_sendbuffer and append_sendbuffer_low.                             *)
LEMMA AppendedSlot ==
  ASSUME NEW s \in SlotType, NEW parts \in Seq(Nat \X Nat)
  PROVE  \A t \in {AppendHigh(s, parts), AppendLow(s, parts)} :
           /\ t \in SlotType /\ t.type = s.type /\ t.id = s.id
           /\ t.fd = s.fd /\ t.armed = s.armed
<1>1. s.high \o parts \in Seq(Nat \X Nat) /\ s.low \o parts \in Seq(Nat \X Nat)
      /\ s.wb_size + Len(parts) \in Int
  BY DEF SlotType
<1>2. QED BY <1>1 DEF AppendHigh, AppendLow, SlotType

(* new_fd and the type it is given.                                         *)
LEMMA NewSlot ==
  ASSUME NEW id \in Nat
  PROVE  NewFd(id) \in SlotType /\ NewFd(id).id = id /\ NewFd(id).fd = "tcp" /\ Empty(NewFd(id))
<1>0. FreeSlot \in SlotType /\ FreeSlot.high = <<>> /\ FreeSlot.low = <<>>
  <2>1. <<>> \in Seq(Nat \X Nat) OBVIOUS
  <2>2. QED BY <2>1 DEF FreeSlot, SlotType
<1>1. ASSUME NEW x \in SlotType, x.high = <<>>, x.low = <<>>
      PROVE  LET t == [x EXCEPT !.id = id, !.fd = "tcp"] IN
             t \in SlotType /\ t.id = id /\ t.fd = "tcp" /\ t.high = <<>> /\ t.low = <<>>
  BY <1>1 DEF SlotType
<1>2. LET t == [FreeSlot EXCEPT !.id = id, !.fd = "tcp"] IN
      t \in SlotType /\ t.id = id /\ t.fd = "tcp" /\ t.high = <<>> /\ t.low = <<>>
  BY <1>0, <1>1, Zenon
<1>3. QED BY <1>2 DEF NewFd, Empty
-----------------------------------------------------------------------------
(* A slot after some work on it: it has the same id, and what was reserved   *)
(* is reserved.                                                             *)
Follows(s, t) ==
  /\ SlotSound(t) /\ t.id = s.id
  /\ t.type = "RESERVE" <=> s.type = "RESERVE"
  /\ InUse(t) => InUse(s)

(* Work on slots, commands read, and ids reported closed that no slot in use *)
(* has and no command will open.                                            *)
LEMMA Worked ==
  ASSUME SocketInv, SocketType', \A k \in SlotsOf : Follows(sock[k], sock'[k]),
         alloc_id' = alloc_id, reserved' = reserved,
         pipe' = pipe \/ (pipe # <<>> /\ pipe' = Tail(pipe)),
         \A g \in gone' : g \in gone \/
           /\ g \in Nat /\ g <= alloc_id /\ g \notin reserved
           /\ \A k \in SlotsOf : InUse(sock'[k]) => sock'[k].id # g
           /\ \A i \in DOMAIN pipe' : Opens(pipe'[i]) => pipe'[i].id # g
  PROVE  SocketInv'
<1>0. SocketType /\ SlotsSound /\ Placed /\ Held /\ Commanded /\ Past BY DEF SocketInv
<1>1. SlotsSound' BY DEF SlotsSound, Follows
<1>2. Placed'
  <2> SUFFICES ASSUME NEW k \in SlotsOf, InUse(sock'[k])
               PROVE  /\ Hash(sock'[k].id) = k /\ sock'[k].id <= alloc_id
                      /\ sock'[k].id \notin reserved /\ sock'[k].id \notin gone'
    BY DEF Placed
  <2>1. InUse(sock[k]) /\ sock'[k].id = sock[k].id BY DEF Follows
  <2>2. QED BY <1>0, <2>1 DEF Placed
<1>3. Held'
  <2> SUFFICES ASSUME NEW r \in reserved
               PROVE  /\ r <= alloc_id /\ r \notin gone' /\ sock'[Hash(r)].type = "RESERVE"
                      /\ \A q \in reserved : Hash(q) = Hash(r) => q = r
    BY DEF Held
  <2>1. r \in Nat /\ Hash(r) \in SlotsOf BY <1>0, HashIn DEF SocketType
  <2>2. QED BY <1>0, <2>1 DEF Held, Follows
<1>4. ASSUME NEW i \in DOMAIN pipe'
      PROVE  \E a \in DOMAIN pipe :
               /\ pipe'[i] = pipe[a]
               /\ \A j \in DOMAIN pipe' : \E b \in DOMAIN pipe : pipe'[j] = pipe[b] /\ (a <= b => i <= j)
  <2>1. CASE pipe' = pipe BY <2>1
  <2>2. CASE pipe # <<>> /\ pipe' = Tail(pipe)
    <3>1. \A j \in DOMAIN pipe' : j \in Nat \ {0} /\ j + 1 \in DOMAIN pipe /\ pipe'[j] = pipe[j + 1]
      BY <1>0, <2>2, PipeRead DEF SocketType
    <3>2. \A j \in DOMAIN pipe' : i + 1 <= j + 1 => i <= j BY <3>1
    <3>3. QED BY <3>1, <3>2
  <2>3. QED BY <2>1, <2>2
<1>5. Commanded'
  <2> SUFFICES ASSUME NEW i \in DOMAIN pipe'
               PROVE  /\ pipe'[i].id <= alloc_id /\ pipe'[i].id \notin reserved
                      /\ Opens(pipe'[i]) =>
                           /\ sock'[Hash(pipe'[i].id)].type = "RESERVE"
                           /\ sock'[Hash(pipe'[i].id)].id = pipe'[i].id
                           /\ pipe'[i].id \notin gone'
                           /\ \A r \in reserved : Hash(r) # Hash(pipe'[i].id)
                           /\ \A j \in DOMAIN pipe' : pipe'[j].id = pipe'[i].id => i <= j
    BY DEF Commanded
  <2>1. PICK a \in DOMAIN pipe :
          /\ pipe'[i] = pipe[a]
          /\ \A j \in DOMAIN pipe' : \E b \in DOMAIN pipe : pipe'[j] = pipe[b] /\ (a <= b => i <= j)
    BY <1>4
  <2>2. pipe[a].id \in Nat /\ Hash(pipe[a].id) \in SlotsOf
    <3>1. pipe[a] \in Commands BY <1>0 DEF SocketType
    <3>2. QED BY <3>1, HashIn DEF Commands
  <2>3. pipe'[i].id <= alloc_id /\ pipe'[i].id \notin reserved BY <1>0, <2>1 DEF Commanded
  <2>4. ASSUME Opens(pipe'[i])
        PROVE  /\ sock'[Hash(pipe'[i].id)].type = "RESERVE"
               /\ sock'[Hash(pipe'[i].id)].id = pipe'[i].id
               /\ pipe'[i].id \notin gone'
               /\ \A r \in reserved : Hash(r) # Hash(pipe'[i].id)
    BY <1>0, <2>1, <2>2, <2>4 DEF Commanded, Follows
  <2>5. ASSUME Opens(pipe'[i]), NEW j \in DOMAIN pipe', pipe'[j].id = pipe'[i].id PROVE i <= j
    BY <1>0, <2>1, <2>5 DEF Commanded
  <2>6. QED BY <2>3, <2>4, <2>5
<1>6. Past' BY <1>0 DEF Past
<1>7. QED BY <1>1, <1>2, <1>3, <1>5, <1>6 DEF SocketInv

(* A command that opens nothing has been read; its id may be reported.       *)
LEMMA CommandRead ==
  ASSUME SocketInv, SocketType', \A k \in SlotsOf : Follows(sock[k], sock'[k]),
         alloc_id' = alloc_id, reserved' = reserved,
         pipe # <<>>, pipe' = Tail(pipe), ~Opens(Head(pipe)),
         \/ gone' = gone
         \/ /\ gone' = gone \cup {Head(pipe).id}
            /\ \A k \in SlotsOf : InUse(sock'[k]) => sock'[k].id # Head(pipe).id
  PROVE  SocketInv'
<1>0. SocketType /\ Commanded BY DEF SocketInv
<1>1. 1 \in DOMAIN pipe /\ Head(pipe) = pipe[1] /\ Head(pipe).id \in Nat
  BY <1>0, PipeRead DEF SocketType, Commands
<1>2. Head(pipe).id <= alloc_id /\ Head(pipe).id \notin reserved BY <1>0, <1>1 DEF Commanded
<1>3. ASSUME NEW i \in DOMAIN pipe', Opens(pipe'[i]) PROVE pipe'[i].id # Head(pipe).id
  <2>1. i \in Nat \ {0} /\ i + 1 \in DOMAIN pipe /\ pipe'[i] = pipe[i + 1]
    BY <1>0, PipeRead DEF SocketType
  <2>2. ~(i + 1 <= 1) BY <2>1
  <2>3. QED BY <1>0, <1>1, <1>3, <2>1, <2>2 DEF Commanded
<1>4. QED BY <1>1, <1>2, <1>3, Worked

(* An event has been treated; the id of the slot may be reported, closed.    *)
LEMMA EventTreated ==
  ASSUME SocketInv, SocketType', \A k \in SlotsOf : Follows(sock[k], sock'[k]),
         alloc_id' = alloc_id, reserved' = reserved, pipe' = pipe,
         \/ gone' = gone
         \/ \E k \in SlotsOf :
              gone' = gone \cup {sock[k].id} /\ InUse(sock[k]) /\ ~InUse(sock'[k])
  PROVE  SocketInv'
<1>0. SocketType /\ Placed /\ Commanded BY DEF SocketInv
<1>1. CASE gone' = gone BY <1>1, Worked
<1>2. ASSUME NEW k \in SlotsOf, gone' = gone \cup {sock[k].id}, InUse(sock[k]), ~InUse(sock'[k])
      PROVE  SocketInv'
  <2>1. PICK g \in Nat : g = sock[k].id BY <1>0 DEF SocketType, SlotType
  <2>2. g <= alloc_id /\ g \notin reserved /\ Hash(g) = k BY <1>0, <1>2, <2>1 DEF Placed
  <2>3. \A j \in SlotsOf : InUse(sock'[j]) => sock'[j].id # g
    BY <1>0, <1>2, <2>2 DEF Placed, Follows
  <2>4. \A i \in DOMAIN pipe' : Opens(pipe'[i]) => pipe'[i].id # g
    BY <1>0, <1>2, <2>2 DEF Commanded, InUse
  <2>5. gone' = gone \cup {g} BY <1>2, <2>1
  <2>6. QED BY <2>2, <2>3, <2>4, <2>5, Worked
<1>3. QED BY <1>1, <1>2
-----------------------------------------------------------------------------
(* A close is under way.                                                    *)
Asked(id) == \E i \in DOMAIN pipe : pipe[i].id = id /\ pipe[i].op \in {"K", "H"}
HalfSlot(s, id) == s.type = "HALFCLOSE" /\ s.id = id /\ (s.armed = TRUE \/ s.fd = "file")
Half(id) == HalfSlot(sock[Hash(id)], id)
Waited == \A id \in owed : Asked(id) \/ Half(id)

(* While no assertion has failed that is the property.                      *)
LEMMA WaitedIs == ASSUME SocketType PROVE CloseUnderWay <=> failed \/ Waited
<1>1. ASSUME NEW id \in owed
      PROVE  Half(id) <=> LET s == sock[Hash(id)] IN
                          Live(id) /\ s.type = "HALFCLOSE" /\ (s.armed \/ s.fd = "file")
  <2>1. PICK s \in SlotType : s = sock[Hash(id)] BY HashIn DEF SocketType
  <2>2. s.armed \in BOOLEAN BY <2>1 DEF SlotType
  <2>3. (s.armed = TRUE) <=> s.armed BY <2>2, Zenon
  <2>4. Half(id) <=> s.type = "HALFCLOSE" /\ s.id = id /\ (s.armed = TRUE \/ s.fd = "file")
    BY <2>1 DEF Half, HalfSlot
  <2>5. Live(id) <=> s.type # "INVALID" /\ s.id = id BY <2>1 DEF Live
  <2>6. (LET q == sock[Hash(id)] IN
           Live(id) /\ q.type = "HALFCLOSE" /\ (q.armed \/ q.fd = "file"))
         <=> Live(id) /\ s.type = "HALFCLOSE" /\ (s.armed \/ s.fd = "file")
    BY <2>1, Zenon
  <2>7. "HALFCLOSE" # "INVALID" OBVIOUS
  <2>8. QED BY <2>3, <2>4, <2>5, <2>6, <2>7, Zenon
<1>2. QED BY <1>1, Zenon DEF CloseUnderWay, Waited, Asked
-----------------------------------------------------------------------------
(* The end of ctrl_cmd.                                                     *)
LEMMA CtrlEffect ==
  ASSUME NEW type, NEW id, CtrlEnd(type, id)
  PROVE  /\ pipe' = Tail(pipe) /\ UNCHANGED <<alloc_id, reserved, ev, posted>>
         /\ type \in {"close", "error"} => gone' = gone \cup {id} /\ owed' = owed \ {id}
         /\ type \notin {"close", "error"} => gone' = gone /\ owed' = owed
  BY DEF CtrlEnd, Tell, TellNobody

(* The table when one slot changes.                                         *)
LEMMA SlotSet ==
  ASSUME sock \in [SlotsOf -> SlotType], NEW k \in SlotsOf, NEW s \in SlotType,
         sock' = [sock EXCEPT ![k] = s]
  PROVE  /\ sock' \in [SlotsOf -> SlotType] /\ sock'[k] = s
         /\ \A j \in SlotsOf : j # k => sock'[j] = sock[j]
  OBVIOUS

(* Nothing to do.                                                           *)
LEMMA SlotKept ==
  ASSUME SocketInv, NEW k \in SlotsOf
  PROVE  sock = [sock EXCEPT ![k] = sock[k]] /\ Follows(sock[k], sock[k]) /\ sock[k] \in SlotType
  BY DEF SocketInv, SocketType, SlotsSound, Follows

(* What follows for all slots when one has followed.                        *)
LEMMA OneFollows ==
  ASSUME SocketInv, NEW k \in SlotsOf, NEW s \in SlotType, sock' = [sock EXCEPT ![k] = s],
         Follows(sock[k], s)
  PROVE  /\ sock' \in [SlotsOf -> SlotType] /\ sock'[k] = s
         /\ \A j \in SlotsOf : j # k => sock'[j] = sock[j]
         /\ \A j \in SlotsOf : Follows(sock[j], sock'[j])
<1>1. sock \in [SlotsOf -> SlotType] BY DEF SocketInv, SocketType
<1>2. sock' \in [SlotsOf -> SlotType] /\ sock'[k] = s /\ \A j \in SlotsOf : j # k => sock'[j] = sock[j]
  BY <1>1, SlotSet
<1>3. QED BY <1>2, SlotKept

(* A command other than one that opens, on the slot of its id.              *)
LEMMA CommandDone ==
  ASSUME SocketInv, Waited, pipe # <<>>, ~Opens(Head(pipe)),
         NEW h \in Nat, h = Head(pipe).id, NEW k \in SlotsOf, k = Hash(h),
         NEW s \in SlotType, sock' = [sock EXCEPT ![k] = s], Follows(sock[k], s),
         NEW type, CtrlEnd(type, h),
         type \in {"close", "error"} => ~(InUse(s) /\ s.id = h),
         sock[k].id # h => s = sock[k],
         type \notin {"close", "error"} /\ (Head(pipe).op \in {"K", "H"} \/ sock[k].type = "HALFCLOSE")
           => (s = sock[k] /\ Head(pipe).op \notin {"K", "H"}) \/ HalfSlot(s, h)
  PROVE  SocketInv' /\ Waited'
<1>0. SocketType /\ Placed BY DEF SocketInv
<1>1. /\ sock' \in [SlotsOf -> SlotType] /\ sock'[k] = s
      /\ \A j \in SlotsOf : j # k => sock'[j] = sock[j]
      /\ \A j \in SlotsOf : Follows(sock[j], sock'[j])
  BY OneFollows
<1>2. /\ pipe' = Tail(pipe) /\ UNCHANGED <<alloc_id, reserved, ev, posted>>
      /\ type \in {"close", "error"} => gone' = gone \cup {h} /\ owed' = owed \ {h}
      /\ type \notin {"close", "error"} => gone' = gone /\ owed' = owed
  BY CtrlEffect
<1>3. gone' \subseteq Nat /\ owed' \subseteq owed BY <1>0, <1>2 DEF SocketType
<1>4. SocketType' BY <1>0, <1>1, <1>2, <1>3, PipeRead DEF SocketType
<1>5. \A j \in SlotsOf : InUse(sock'[j]) /\ type \in {"close", "error"} => sock'[j].id # h
  <2> SUFFICES ASSUME NEW j \in SlotsOf, InUse(sock'[j]), type \in {"close", "error"}
               PROVE  sock'[j].id # h
    OBVIOUS
  <2>1. CASE j = k BY <1>1, <2>1
  <2>2. CASE j # k BY <1>0, <1>1, <2>2 DEF Placed
  <2>3. QED BY <2>1, <2>2
<1>6. SocketInv' BY <1>1, <1>2, <1>4, <1>5, CommandRead
<1>7. ASSUME NEW id \in owed' PROVE (Asked(id) \/ Half(id))'
  <2>0. id \in owed /\ id \in Nat /\ Hash(id) \in SlotsOf BY <1>0, <1>3, HashIn DEF SocketType
  <2>1. CASE id = h
    <3>1. type \notin {"close", "error"} BY <1>2, <2>1
    <3>2. CASE HalfSlot(s, h)
      <4>1. HalfSlot(sock'[Hash(id)], id) BY <1>1, <2>1, <3>2
      <4>2. QED BY <4>1 DEF Half
    <3>3. CASE ~HalfSlot(s, h)
      <4>1. Head(pipe).op \notin {"K", "H"} BY <3>1, <3>3
      <4>2. ~Half(id) BY <2>1, <3>1, <3>3 DEF Half, HalfSlot
      <4>3. PICK i \in DOMAIN pipe : pipe[i].id = id /\ pipe[i].op \in {"K", "H"}
        BY <2>0, <4>2 DEF Waited, Asked
      <4>4. i # 1 BY <1>0, <4>1, <4>3, PipeRead DEF SocketType
      <4>5. i - 1 \in DOMAIN pipe' /\ pipe'[i - 1] = pipe[i] BY <1>0, <1>2, <4>4, PipeRead DEF SocketType
      <4>6. Asked(id)' BY <4>3, <4>5 DEF Asked
      <4>7. QED BY <4>6
    <3>4. QED BY <3>2, <3>3
  <2>2. CASE id # h
    <3>1. CASE Asked(id)
      <4>1. PICK i \in DOMAIN pipe : pipe[i].id = id /\ pipe[i].op \in {"K", "H"} BY <3>1 DEF Asked
      <4>2. i # 1 BY <1>0, <2>2, <4>1, PipeRead DEF SocketType
      <4>3. i - 1 \in DOMAIN pipe' /\ pipe'[i - 1] = pipe[i] BY <1>0, <1>2, <4>2, PipeRead DEF SocketType
      <4>4. Asked(id)' BY <4>1, <4>3 DEF Asked
      <4>5. QED BY <4>4
    <3>2. CASE Half(id)
      <4>1. HalfSlot(sock[Hash(id)], id) BY <3>2 DEF Half
      <4>2. Hash(id) = k => sock[k].id # h BY <2>2, <4>1 DEF HalfSlot
      <4>3. sock'[Hash(id)] = sock[Hash(id)] BY <1>1, <2>0, <4>2
      <4>4. Half(id)' BY <4>1, <4>3 DEF Half
      <4>5. QED BY <4>4
    <3>3. QED BY <2>0, <3>1, <3>2 DEF Waited
  <2>3. QED BY <2>1, <2>2
<1>8. Waited' BY <1>7 DEF Waited
<1>9. QED BY <1>6, <1>8

(* An event of a slot.                                                      *)
LEMMA EventDone ==
  ASSUME SocketInv, Waited, NEW k \in SlotsOf,
         NEW s \in SlotType, sock' = [sock EXCEPT ![k] = s], Follows(sock[k], s),
         UNCHANGED <<alloc_id, reserved, pipe, posted>>, ev' \in Seq(Events),
         \/ /\ gone' = gone /\ owed' = owed
            /\ HalfSlot(sock[k], sock[k].id) => HalfSlot(s, sock[k].id)
         \/ /\ gone' = gone \cup {sock[k].id} /\ owed' = owed \ {sock[k].id}
            /\ InUse(sock[k]) /\ ~InUse(s)
  PROVE  SocketInv' /\ Waited'
<1>0. SocketType /\ Placed /\ sock[k].id \in Nat BY DEF SocketInv, SocketType, SlotType
<1>1. /\ sock' \in [SlotsOf -> SlotType] /\ sock'[k] = s
      /\ \A j \in SlotsOf : j # k => sock'[j] = sock[j]
      /\ \A j \in SlotsOf : Follows(sock[j], sock'[j])
  BY OneFollows
<1>2. gone' \subseteq Nat /\ owed' \subseteq owed BY <1>0 DEF SocketType
<1>3. SocketType' BY <1>0, <1>1, <1>2 DEF SocketType
<1>4. SocketInv' BY <1>1, <1>3, EventTreated
<1>5. ASSUME NEW id \in owed' PROVE (Asked(id) \/ Half(id))'
  <2>0. id \in owed /\ id \in Nat /\ Hash(id) \in SlotsOf BY <1>0, <1>2, HashIn DEF SocketType
  <2>1. CASE Asked(id)
    <3>1. Asked(id)' BY <2>1 DEF Asked
    <3>2. QED BY <3>1
  <2>2. CASE Half(id)
    <3>1. HalfSlot(sock[Hash(id)], id) BY <2>2 DEF Half
    <3>2. CASE Hash(id) # k
      <4>1. sock'[Hash(id)] = sock[Hash(id)] BY <1>1, <2>0, <3>2
      <4>2. Half(id)' BY <3>1, <4>1 DEF Half
      <4>3. QED BY <4>2
    <3>3. CASE Hash(id) = k
      <4>1. sock[k].id = id BY <3>1, <3>3 DEF HalfSlot
      <4>2. HalfSlot(s, id) BY <3>1, <3>3, <4>1
      <4>3. HalfSlot(sock'[Hash(id)], id) BY <1>1, <3>3, <4>2
      <4>4. Half(id)' BY <4>3 DEF Half
      <4>5. QED BY <4>4
    <3>4. QED BY <3>2, <3>3
  <2>3. QED BY <2>0, <2>1, <2>2 DEF Waited
<1>6. Waited' BY <1>5 DEF Waited
<1>7. QED BY <1>4, <1>6

(* A command that opens a socket: the reserved slot comes into use, or is    *)
(* free again.                                                              *)
LEMMA OpenDone ==
  ASSUME SocketInv, Waited, pipe # <<>>, Opens(Head(pipe)),
         NEW h \in Nat, h = Head(pipe).id, NEW k \in SlotsOf, k = Hash(h),
         NEW s \in SlotType, sock' = [sock EXCEPT ![k] = s], SlotSound(s), s.id = h,
         s.type # "RESERVE",
         NEW type, CtrlEnd(type, h), type \in {"close", "error"} => ~InUse(s)
  PROVE  SocketInv' /\ Waited'
<1>0. SocketType /\ SlotsSound /\ Placed /\ Held /\ Commanded /\ Past BY DEF SocketInv
<1>1. /\ sock' \in [SlotsOf -> SlotType] /\ sock'[k] = s
      /\ \A j \in SlotsOf : j # k => sock'[j] = sock[j]
  BY <1>0, SlotSet DEF SocketType
<1>2. /\ pipe' = Tail(pipe) /\ UNCHANGED <<alloc_id, reserved, ev, posted>>
      /\ type \in {"close", "error"} => gone' = gone \cup {h} /\ owed' = owed \ {h}
      /\ type \notin {"close", "error"} => gone' = gone /\ owed' = owed
  BY CtrlEffect
<1>3. gone' \subseteq Nat /\ owed' \subseteq owed BY <1>0, <1>2 DEF SocketType
<1>4. SocketType' BY <1>0, <1>1, <1>2, <1>3, PipeRead DEF SocketType
<1>5. 1 \in DOMAIN pipe /\ Head(pipe) = pipe[1] BY <1>0, PipeRead DEF SocketType
<1>6. /\ h <= alloc_id /\ h \notin reserved /\ h \notin gone /\ sock[k].type = "RESERVE" /\ sock[k].id = h
      /\ \A r \in reserved : Hash(r) # k
  BY <1>0, <1>5 DEF Commanded
<1>7. SlotsSound' BY <1>0, <1>1 DEF SlotsSound
<1>8. Placed'
  <2> SUFFICES ASSUME NEW j \in SlotsOf, InUse(sock'[j])
               PROVE  /\ Hash(sock'[j].id) = j /\ sock'[j].id <= alloc_id
                      /\ sock'[j].id \notin reserved /\ sock'[j].id \notin gone'
    BY <1>2 DEF Placed
  <2>1. CASE j = k BY <1>1, <1>2, <1>6, <2>1
  <2>2. CASE j # k
    <3>1. sock'[j] = sock[j] BY <1>1, <2>2
    <3>2. sock[j].id # h BY <1>0, <2>2, <3>1 DEF Placed
    <3>3. QED BY <1>0, <1>2, <3>1, <3>2 DEF Placed
  <2>3. QED BY <2>1, <2>2
<1>9. Held'
  <2> SUFFICES ASSUME NEW r \in reserved
               PROVE  /\ r <= alloc_id /\ r \notin gone' /\ sock'[Hash(r)].type = "RESERVE"
                      /\ \A q \in reserved : Hash(q) = Hash(r) => q = r
    BY <1>2 DEF Held
  <2>1. Hash(r) \in SlotsOf BY <1>0, HashIn DEF SocketType
  <2>2. QED BY <1>0, <1>1, <1>2, <1>6, <2>1 DEF Held
<1>10. Commanded'
  <2> SUFFICES ASSUME NEW i \in DOMAIN pipe'
               PROVE  /\ pipe'[i].id <= alloc_id /\ pipe'[i].id \notin reserved
                      /\ Opens(pipe'[i]) =>
                           /\ sock'[Hash(pipe'[i].id)].type = "RESERVE"
                           /\ sock'[Hash(pipe'[i].id)].id = pipe'[i].id
                           /\ pipe'[i].id \notin gone'
                           /\ \A r \in reserved : Hash(r) # Hash(pipe'[i].id)
                           /\ \A j \in DOMAIN pipe' : pipe'[j].id = pipe'[i].id => i <= j
    BY <1>2 DEF Commanded
  <2>0. \A j \in DOMAIN pipe' : j \in Nat \ {0} /\ j + 1 \in DOMAIN pipe /\ pipe'[j] = pipe[j + 1]
    BY <1>0, <1>2, PipeRead DEF SocketType
  <2>1. PICK a \in DOMAIN pipe : a = i + 1 BY <2>0
  <2>2. pipe'[i] = pipe[a] /\ ~(a <= 1) BY <2>0, <2>1
  <2>3. pipe[a].id \in Nat /\ Hash(pipe[a].id) \in SlotsOf
    <3>1. pipe[a] \in Commands BY <1>0 DEF SocketType
    <3>2. QED BY <3>1, HashIn DEF Commands
  <2>4. pipe'[i].id <= alloc_id /\ pipe'[i].id \notin reserved BY <1>0, <2>2 DEF Commanded
  <2>5. ASSUME Opens(pipe[a])
        PROVE  /\ sock'[Hash(pipe[a].id)].type = "RESERVE"
               /\ sock'[Hash(pipe[a].id)].id = pipe[a].id
               /\ pipe[a].id \notin gone'
               /\ \A r \in reserved : Hash(r) # Hash(pipe[a].id)
    <3>1. /\ sock[Hash(pipe[a].id)].type = "RESERVE" /\ sock[Hash(pipe[a].id)].id = pipe[a].id
          /\ pipe[a].id \notin gone /\ \A r \in reserved : Hash(r) # Hash(pipe[a].id)
      BY <1>0, <2>5 DEF Commanded
    <3>2. pipe[a].id # h BY <1>0, <1>5, <2>2, <2>5 DEF Commanded
    <3>3. Hash(pipe[a].id) # k BY <1>6, <3>1, <3>2
    <3>4. QED BY <1>1, <1>2, <2>3, <3>1, <3>2, <3>3
  <2>6. ASSUME Opens(pipe[a]), NEW j \in DOMAIN pipe', pipe'[j].id = pipe[a].id PROVE i <= j
    <3>1. a <= j + 1 BY <1>0, <2>0, <2>6 DEF Commanded
    <3>2. i \in Nat /\ j \in Nat BY <2>0
    <3>3. QED BY <2>1, <3>1, <3>2
  <2>7. QED BY <2>2, <2>4, <2>5, <2>6
<1>11. Past' BY <1>0, <1>2, <1>6 DEF Past
<1>12. SocketInv' BY <1>4, <1>7, <1>8, <1>9, <1>10, <1>11 DEF SocketInv
<1>13. ASSUME NEW id \in owed' PROVE (Asked(id) \/ Half(id))'
  <2>0. id \in owed /\ id \in Nat /\ Hash(id) \in SlotsOf BY <1>0, <1>3, HashIn DEF SocketType
  <2>1. CASE Asked(id)
    <3>1. PICK i \in DOMAIN pipe : pipe[i].id = id /\ pipe[i].op \in {"K", "H"} BY <2>1 DEF Asked
    <3>2. i # 1 BY <1>5, <3>1 DEF Opens
    <3>3. i - 1 \in DOMAIN pipe' /\ pipe'[i - 1] = pipe[i] BY <1>0, <1>2, <3>2, PipeRead DEF SocketType
    <3>4. Asked(id)' BY <3>1, <3>3 DEF Asked
    <3>5. QED BY <3>4
  <2>2. CASE Half(id)
    <3>1. HalfSlot(sock[Hash(id)], id) BY <2>2 DEF Half
    <3>2. sock'[Hash(id)] = sock[Hash(id)] BY <1>1, <1>6, <2>0, <3>1 DEF HalfSlot
    <3>3. Half(id)' BY <3>1, <3>2 DEF Half
    <3>4. QED BY <3>3
  <2>3. QED BY <2>0, <2>1, <2>2 DEF Waited
<1>14. Waited' BY <1>13 DEF Waited
<1>15. QED BY <1>12, <1>14
-----------------------------------------------------------------------------
(* The commands.                                                            *)

(* Slots as new_fd leaves them.                                             *)
LEMMA TypedSlot ==
  ASSUME NEW id \in Nat, NEW ty \in {"CONNECTED", "PLISTEN", "PACCEPT"}
  PROVE  LET t == [NewFd(id) EXCEPT !.type = ty] IN
         t \in SlotType /\ t.id = id /\ t.type = ty /\ SlotSound(t)
<1>1. ASSUME NEW x \in SlotType, x.id = id, x.fd = "tcp", Empty(x)
      PROVE  LET t == [x EXCEPT !.type = ty] IN
             t \in SlotType /\ t.id = id /\ t.type = ty /\ SlotSound(t)
  BY <1>1 DEF SlotType, SlotSound, InUse, Empty
<1>2. QED BY <1>1, NewSlot, Zenon

(* A socket that connects has its write event on.                           *)
LEMMA ConnectingSlot ==
  ASSUME NEW id \in Nat
  PROVE  LET t == [NewFd(id) EXCEPT !.type = "CONNECTING", !.armed = TRUE] IN
         t \in SlotType /\ t.id = id /\ t.type = "CONNECTING" /\ SlotSound(t)
<1>1. ASSUME NEW x \in SlotType, x.id = id, x.fd = "tcp", Empty(x)
      PROVE  LET t == [x EXCEPT !.type = "CONNECTING", !.armed = TRUE] IN
             t \in SlotType /\ t.id = id /\ t.type = "CONNECTING" /\ SlotSound(t)
  BY <1>1 DEF SlotType, SlotSound, InUse, Empty
<1>2. QED BY <1>1, NewSlot, Zenon

(* A bound file.                                                            *)
LEMMA BoundSlot ==
  ASSUME NEW id \in Nat
  PROVE  LET t == [NewFd(id) EXCEPT !.type = "BIND", !.fd = "file"] IN
         t \in SlotType /\ t.id = id /\ t.type = "BIND" /\ SlotSound(t)
<1>1. ASSUME NEW x \in SlotType, x.id = id, x.fd = "tcp", Empty(x)
      PROVE  LET t == [x EXCEPT !.type = "BIND", !.fd = "file"] IN
             t \in SlotType /\ t.id = id /\ t.type = "BIND" /\ SlotSound(t)
  BY <1>1 DEF SlotType, SlotSound, InUse, Empty
<1>2. QED BY <1>1, NewSlot, Zenon

(* open_socket, listen_socket, bind_socket.                                 *)
LEMMA OpenKeeps ==
  ASSUME SocketInv, Waited, OpenSocket \/ ListenSocket \/ BindSocket
  PROVE  SocketInv' /\ Waited'
<1>0. SocketType /\ Commanded BY DEF SocketInv
<1>1. pipe # <<>> /\ Opens(Head(pipe))
  BY DEF OpenSocket, ListenSocket, BindSocket, Command, Opens
<1>2. PICK h \in Nat : h = Head(pipe).id BY <1>0, <1>1, PipeRead DEF SocketType, Commands
<1>3. PICK k \in SlotsOf : k = Hash(h) BY HashIn
<1>4. sock[k] \in SlotType /\ sock[k].type = "RESERVE" /\ sock[k].id = h /\ SlotSound(sock[k])
  BY <1>0, <1>1, <1>2, <1>3, PipeRead DEF SocketType, Commanded, SocketInv, SlotsSound
<1>5. ASSUME sock' = [sock EXCEPT ![k].type = "INVALID"], CtrlEnd("error", h)
      PROVE  SocketInv' /\ Waited'
  <2> DEFINE t == [sock[k] EXCEPT !.type = "INVALID"]
  <2>1. t \in SlotType /\ t.id = h /\ t.type = "INVALID" /\ t.fd = sock[k].fd
    BY <1>4 DEF SlotType
  <2>2. sock' = [sock EXCEPT ![k] = t] BY <1>5
  <2> HIDE DEF t
  <2>3. SlotSound(t) /\ ~InUse(t) BY <1>4, <2>1 DEF SlotSound, InUse
  <2>4. QED BY <1>1, <1>2, <1>3, <1>5, <2>1, <2>2, <2>3, OpenDone
<1>6. ASSUME NEW ty \in {"CONNECTED", "PLISTEN", "PACCEPT"}, NEW m \in {"open", "nothing"},
             sock' = [sock EXCEPT ![k] = [NewFd(h) EXCEPT !.type = ty]], CtrlEnd(m, h)
      PROVE  SocketInv' /\ Waited'
  <2> DEFINE t == [NewFd(h) EXCEPT !.type = ty]
  <2>1. t \in SlotType /\ t.id = h /\ t.type = ty /\ SlotSound(t) BY ZenonT(30), TypedSlot
  <2>2. sock' = [sock EXCEPT ![k] = t] BY <1>6
  <2> HIDE DEF t
  <2>3. QED BY <1>1, <1>2, <1>3, <1>6, <2>1, <2>2, OpenDone
<1>7. ASSUME sock' = [sock EXCEPT ![k] = [NewFd(h) EXCEPT !.type = "CONNECTING", !.armed = TRUE]],
             CtrlEnd("nothing", h)
      PROVE  SocketInv' /\ Waited'
  <2> DEFINE t == [NewFd(h) EXCEPT !.type = "CONNECTING", !.armed = TRUE]
  <2>1. t \in SlotType /\ t.id = h /\ t.type = "CONNECTING" /\ SlotSound(t) BY ConnectingSlot
  <2>2. sock' = [sock EXCEPT ![k] = t] BY <1>7
  <2> HIDE DEF t
  <2>3. QED BY <1>1, <1>2, <1>3, <1>7, <2>1, <2>2, OpenDone
<1>8. ASSUME sock' = [sock EXCEPT ![k] = [NewFd(h) EXCEPT !.type = "BIND", !.fd = "file"]],
             CtrlEnd("open", h)
      PROVE  SocketInv' /\ Waited'
  <2> DEFINE t == [NewFd(h) EXCEPT !.type = "BIND", !.fd = "file"]
  <2>1. t \in SlotType /\ t.id = h /\ t.type = "BIND" /\ SlotSound(t) BY BoundSlot
  <2>2. sock' = [sock EXCEPT ![k] = t] BY <1>8
  <2> HIDE DEF t
  <2>3. QED BY <1>1, <1>2, <1>3, <1>8, <2>1, <2>2, OpenDone
<1>9. CASE OpenSocket BY <1>2, <1>3, <1>5, <1>6, <1>7, <1>9 DEF OpenSocket
<1>10. CASE ListenSocket BY <1>2, <1>3, <1>6, <1>10 DEF ListenSocket
<1>11. CASE BindSocket BY <1>2, <1>3, <1>5, <1>8, <1>11 DEF BindSocket
<1>12. QED BY <1>9, <1>10, <1>11

(* start_socket                                                             *)
LEMMA StartKeeps ==
  ASSUME SocketInv, Waited, StartSocket
  PROVE  SocketInv' /\ Waited'
<1>0. SocketType BY DEF SocketInv
<1>1. pipe # <<>> /\ ~Opens(Head(pipe)) /\ Head(pipe).op \notin {"K", "H"}
  BY DEF StartSocket, Command, Opens
<1>2. PICK h \in Nat : h = Head(pipe).id BY <1>0, <1>1, PipeRead DEF SocketType, Commands
<1>3. PICK k \in SlotsOf : k = Hash(h) BY HashIn
<1>4. sock[k] \in SlotType /\ SlotSound(sock[k]) BY <1>0 DEF SocketType, SocketInv, SlotsSound
<1>5. Live(h) <=> sock[k].type # "INVALID" /\ sock[k].id = h BY <1>3 DEF Live
<1>6. ASSUME NEW m \in {"open", "nothing", "error"}, CtrlEnd(m, h), sock' = sock, m = "error" => ~Live(h)
      PROVE  SocketInv' /\ Waited'
  <2>1. sock' = [sock EXCEPT ![k] = sock[k]] /\ Follows(sock[k], sock[k]) BY <1>6, SlotKept
  <2>2. m \in {"close", "error"} => ~(InUse(sock[k]) /\ sock[k].id = h) BY <1>5, <1>6 DEF InUse
  <2>3. QED BY <1>1, <1>2, <1>3, <1>4, <1>6, <2>1, <2>2, CommandDone
<1>7. ASSUME Live(h), sock[k].type \in {"PACCEPT", "PLISTEN"}, CtrlEnd("open", h),
             sock' = [sock EXCEPT ![k].type = IF @ = "PACCEPT" THEN "CONNECTED" ELSE "LISTEN"]
      PROVE  SocketInv' /\ Waited'
  <2> DEFINE ty == IF sock[k].type = "PACCEPT" THEN "CONNECTED" ELSE "LISTEN"
             t == [sock[k] EXCEPT !.type = ty]
  <2>1. sock' = [sock EXCEPT ![k] = t] BY <1>7
  <2>2. ty \in {"CONNECTED", "LISTEN"} OBVIOUS
  <2> HIDE DEF ty
  <2>3. t \in SlotType /\ t.type = ty /\ t.id = sock[k].id /\ t.fd = sock[k].fd /\ t.armed = sock[k].armed
        /\ t.high = sock[k].high /\ t.low = sock[k].low
    BY <1>4, <2>2 DEF SlotType
  <2> HIDE DEF t
  <2>4. Follows(sock[k], t) BY <1>4, <1>7, <2>2, <2>3 DEF Follows, SlotSound, InUse, Empty
  <2>5. sock[k].id = h /\ sock[k].type # "HALFCLOSE" BY <1>5, <1>7
  <2>6. PICK m : m = "open" OBVIOUS
  <2>7. CtrlEnd(m, h) /\ m \notin {"close", "error"} BY <1>7, <2>6
  <2>8. PICK u \in SlotType : u = t BY <2>3
  <2>9. sock' = [sock EXCEPT ![k] = u] /\ Follows(sock[k], u) BY <2>1, <2>4, <2>8
  <2>10. QED BY <1>1, <1>2, <1>3, <2>5, <2>7, <2>9, CommandDone
<1>8. ASSUME Live(h), sock[k].type \in {"PACCEPT", "PLISTEN"}, CtrlEnd("error", h),
             sock' = [sock EXCEPT ![k] = ForceClose(sock[k])]
      PROVE  SocketInv' /\ Waited'
  <2>1. PICK t \in SlotType : t = ForceClose(sock[k]) BY <1>4, ForceCloseSlot
  <2>2. t.type = "INVALID" /\ t.id = sock[k].id /\ SlotSound(t) BY <1>4, <2>1, ForceCloseSlot
  <2>3. Follows(sock[k], t) /\ ~InUse(t) BY <1>8, <2>2 DEF Follows, InUse
  <2>4. QED BY <1>1, <1>2, <1>3, <1>5, <1>8, <2>1, <2>3, CommandDone
<1>9. QED BY <1>2, <1>3, <1>6, <1>7, <1>8 DEF StartSocket

(* send_buffer writes some or all, or the socket is closed.                 *)
LEMMA BufferSent ==
  ASSUME NEW s \in SlotType, NEW r \in SendBuffer(s)
  PROVE  /\ r.s \in SlotType /\ r.s.id = s.id
         /\ Empty(s) => Empty(r.s)
         /\ \/ r.s.type = s.type /\ r.s.fd = s.fd /\ (~Empty(r.s) \/ s.type = "HALFCLOSE" => r.s.armed = s.armed)
            \/ /\ r.s.type = "INVALID" /\ r.s.fd = "none"
               /\ s.type = "HALFCLOSE" \/ ~Empty(s)
<1> DEFINE all == s.high \o s.low
<1>0. s.high \in Seq(Nat \X Nat) /\ s.low \in Seq(Nat \X Nat) BY DEF SlotType
<1>a. Len(all) = Len(s.high) + Len(s.low) /\ Len(s.high) \in Nat /\ Len(s.low) \in Nat BY <1>0
<1>1. ASSUME NEW n \in 0 .. Len(all), r.s = Flushed(s, n)
      PROVE  /\ r.s \in SlotType /\ r.s.id = s.id
             /\ Empty(s) => Empty(r.s)
             /\ \/ r.s.type = s.type /\ r.s.fd = s.fd /\ (~Empty(r.s) \/ s.type = "HALFCLOSE" => r.s.armed = s.armed)
                \/ /\ r.s.type = "INVALID" /\ r.s.fd = "none"
                   /\ s.type = "HALFCLOSE" \/ ~Empty(s)
  <2>1. PICK t : t = Flushed(s, n) OBVIOUS
  <2>2. /\ t \in SlotType /\ t.id = s.id
        /\ Empty(s) => Empty(t)
        /\ \/ t.type = s.type /\ t.fd = s.fd /\ (~Empty(t) \/ s.type = "HALFCLOSE" => t.armed = s.armed)
           \/ s.type = "HALFCLOSE" /\ t.type = "INVALID" /\ t.fd = "none"
    BY <2>1, FlushedSlot
  <2>3. QED BY <1>1, <2>1, <2>2
<1>2. ASSUME NEW n \in 0 .. Len(all), n < Len(all), r.s = ForceClose(s)
      PROVE  /\ r.s \in SlotType /\ r.s.id = s.id
             /\ Empty(s) => Empty(r.s)
             /\ r.s.type = "INVALID" /\ r.s.fd = "none" /\ ~Empty(s)
  <2>1. ~Empty(s)
    <3> SUFFICES ASSUME Empty(s) PROVE FALSE OBVIOUS
    <3>1. Len(s.high) = 0 /\ Len(s.low) = 0 BY <1>0 DEF Empty
    <3>2. n \in Int /\ 0 <= n BY <1>a
    <3>3. n < Len(s.high) + Len(s.low) BY <1>2, <1>a
    <3>4. QED BY <3>1, <3>2, <3>3
  <2>2. ForceClose(s).fd = "none" BY DEF ForceClose, SlotType
  <2>3. QED BY <1>2, <2>1, <2>2, ForceCloseSlot
<1>3. \/ \E n \in 0 .. Len(all) : r.s = Flushed(s, n)
      \/ \E n \in 0 .. Len(all) : n < Len(all) /\ r.s = ForceClose(s)
  <2> DEFINE fails == {n \in 0 .. Len(all) : n < Len(all) /\ (n = 0 \/ all[n][1] # all[n + 1][1])}
  <2>1. \/ \E n \in 0 .. Len(all) : r = [s |-> Flushed(s, n), w |-> SubSeq(all, 1, n)]
        \/ \E n \in fails : r = [s |-> ForceClose(s), w |-> SubSeq(all, 1, n)]
    BY Zenon DEF SendBuffer
  <2>2. ASSUME NEW n \in 0 .. Len(all), r = [s |-> Flushed(s, n), w |-> SubSeq(all, 1, n)]
        PROVE  r.s = Flushed(s, n)
    BY <2>2
  <2>3. ASSUME NEW n \in fails, r = [s |-> ForceClose(s), w |-> SubSeq(all, 1, n)]
        PROVE  n \in 0 .. Len(all) /\ n < Len(all) /\ r.s = ForceClose(s)
    <3>1. n \in 0 .. Len(all) /\ n < Len(all) OBVIOUS
    <3>2. r.s = ForceClose(s) BY <2>3
    <3>3. QED BY <3>1, <3>2
  <2> HIDE DEF fails, all
  <2>4. QED BY <2>1, <2>2, <2>3
<1> HIDE DEF all
<1>4. QED BY <1>1, <1>2, <1>3

(* close_socket: either the service is told, or the write event that will    *)
(* end the socket is waited for.                                            *)
LEMMA CloseKeeps ==
  ASSUME SocketInv, Waited, CloseSocket, ~Abort
  PROVE  SocketInv' /\ Waited'
<1>0. SocketType BY DEF SocketInv
<1>1. pipe # <<>> /\ ~Opens(Head(pipe)) /\ Head(pipe).op \in {"K", "H"}
  BY DEF CloseSocket, Command, Opens
<1>2. PICK h \in Nat : h = Head(pipe).id BY <1>0, <1>1, PipeRead DEF SocketType, Commands
<1>3. PICK k \in SlotsOf : k = Hash(h) BY HashIn
<1>4. sock[k] \in SlotType /\ SlotSound(sock[k]) BY <1>0 DEF SocketType, SocketInv, SlotsSound
<1>5. Live(h) <=> sock[k].type # "INVALID" /\ sock[k].id = h BY <1>3 DEF Live
<1>6. CASE ~Live(h)
  <2>1. CtrlEnd("close", h) /\ sock' = sock BY <1>2, <1>6 DEF CloseSocket
  <2>2. sock' = [sock EXCEPT ![k] = sock[k]] /\ Follows(sock[k], sock[k]) BY <2>1, SlotKept
  <2>3. ~(InUse(sock[k]) /\ sock[k].id = h) BY <1>5, <1>6 DEF InUse
  <2>4. PICK m : m = "close" OBVIOUS
  <2>5. CtrlEnd(m, h) /\ m \in {"close", "error"} BY <2>1, <2>4
  <2>6. QED BY <1>1, <1>2, <1>3, <1>4, <2>2, <2>3, <2>5, CommandDone
<1>7. CASE Live(h)
  <2> DEFINE s == sock[k]
             outs == IF Empty(s) THEN {[s |-> s, w |-> <<>>]} ELSE SendBuffer(s)
             over(r) == r.s.type = "INVALID" \/ Head(pipe).op = "H" \/ Empty(r.s)
             last(r) == IF over(r) THEN ForceClose(r.s) ELSE [r.s EXCEPT !.type = "HALFCLOSE"]
  <2>1. ~SendAborts(s) /\ \E r \in outs :
           /\ sock' = [sock EXCEPT ![k] = last(r)]
           /\ CtrlEnd(IF over(r) THEN "close" ELSE "nothing", h)
    BY <1>2, <1>3, <1>7 DEF CloseSocket
  <2>2. PICK r \in outs : /\ sock' = [sock EXCEPT ![k] = last(r)]
                          /\ CtrlEnd(IF over(r) THEN "close" ELSE "nothing", h)
    BY <2>1
  <2>3. InUse(s) /\ s.id = h BY <1>5, <1>7, <2>1 DEF InUse, SendAborts
  <2>4. /\ r.s \in SlotType /\ r.s.id = s.id
        /\ Empty(s) => Empty(r.s)
        /\ \/ r.s.type = s.type /\ r.s.fd = s.fd /\ (~Empty(r.s) => r.s.armed = s.armed)
           \/ r.s.type = "INVALID"
    <3>1. CASE Empty(s)
      <4>1. r = [s |-> s, w |-> <<>>] BY <3>1
      <4>2. r.s = s BY <4>1
      <4>3. QED BY <1>4, <4>2
    <3>2. CASE ~Empty(s)
      <4>1. r \in SendBuffer(s) BY <3>2
      <4>2. QED BY <1>4, <4>1, BufferSent
    <3>3. QED BY <3>1, <3>2
  <2>5. CASE over(r)
    <3>1. PICK m : m = "close" OBVIOUS
    <3>2. CtrlEnd(m, h) /\ m \in {"close", "error"} BY <2>2, <2>5, <3>1
    <3>3. PICK t \in SlotType : t = ForceClose(r.s) BY <2>4, ForceCloseSlot
    <3>4. SlotSound(t) /\ t.type = "INVALID" /\ t.id = h BY <2>3, <2>4, <3>3, ForceCloseSlot
    <3>5. sock' = [sock EXCEPT ![k] = t] BY <2>2, <2>5, <3>3
    <3>6. Follows(sock[k], t) /\ ~InUse(t) BY <2>3, <3>4 DEF Follows, InUse
    <3>7. QED BY <1>1, <1>2, <1>3, <2>3, <3>2, <3>5, <3>6, CommandDone
  <2>6. CASE ~over(r)
    <3>1. PICK m : m = "nothing" OBVIOUS
    <3>2. CtrlEnd(m, h) /\ m \notin {"close", "error"} BY <2>2, <2>6, <3>1
    <3>3. PICK t : t = [r.s EXCEPT !.type = "HALFCLOSE"] OBVIOUS
    <3>4. /\ t \in SlotType /\ t.type = "HALFCLOSE" /\ t.id = h /\ t.fd = r.s.fd
          /\ t.armed = r.s.armed
      BY <2>3, <2>4, <3>3 DEF SlotType
    <3>5. sock' = [sock EXCEPT ![k] = t] BY <2>2, <2>6, <3>3
    <3>6. r.s.fd = s.fd /\ r.s.armed = s.armed /\ ~Empty(s) BY <2>4, <2>6
    <3>7. s.fd = "file" \/ (s.fd = "tcp" /\ s.armed = TRUE)
      BY <1>4, <2>3, <3>6 DEF SlotType, SlotSound
    <3>8. HalfSlot(t, h) /\ SlotSound(t) BY <3>4, <3>6, <3>7 DEF HalfSlot, SlotSound, InUse
    <3>9. Follows(sock[k], t) BY <2>3, <3>4, <3>8 DEF Follows, InUse
    <3>10. QED BY <1>1, <1>2, <1>3, <2>3, <3>2, <3>4, <3>5, <3>8, <3>9, CommandDone
  <2>7. QED BY <2>5, <2>6
<1>8. QED BY <1>6, <1>7

(* send_socket: what is not written at once is waited for.                  *)
LEMMA SendKeeps ==
  ASSUME SocketInv, Waited, SendSocket
  PROVE  SocketInv' /\ Waited'
<1>0. SocketType BY DEF SocketInv
<1>1. pipe # <<>> /\ ~Opens(Head(pipe)) /\ Head(pipe).op \notin {"K", "H"}
  BY DEF SendSocket, Command, Opens
<1>2. PICK h \in Nat : h = Head(pipe).id BY <1>0, <1>1, PipeRead DEF SocketType, Commands
<1>3. PICK k \in SlotsOf : k = Hash(h) BY HashIn
<1>4. sock[k] \in SlotType /\ SlotSound(sock[k]) BY <1>0 DEF SocketType, SocketInv, SlotsSound
<1>5. Live(h) <=> sock[k].type # "INVALID" /\ sock[k].id = h BY <1>3 DEF Live
<1>6. ASSUME CtrlEnd("nothing", h), sock' = sock PROVE SocketInv' /\ Waited'
  <2>1. sock' = [sock EXCEPT ![k] = sock[k]] /\ Follows(sock[k], sock[k]) BY <1>6, SlotKept
  <2>2. PICK m : m = "nothing" OBVIOUS
  <2>3. CtrlEnd(m, h) /\ m \notin {"close", "error"} BY <1>6, <2>2
  <2>4. QED BY <1>1, <1>2, <1>3, <1>4, <2>1, <2>3, CommandDone
<1>7. ASSUME Live(h), sock[k].type = "CONNECTED", sock' = [sock EXCEPT ![k] = ForceClose(sock[k])],
             CtrlEnd("close", h)
      PROVE  SocketInv' /\ Waited'
  <2>1. PICK t \in SlotType : t = ForceClose(sock[k]) BY <1>4, ForceCloseSlot
  <2>2. t.type = "INVALID" /\ t.id = sock[k].id /\ SlotSound(t) BY <1>4, <2>1, ForceCloseSlot
  <2>3. Follows(sock[k], t) /\ ~InUse(t) BY <1>7, <2>2 DEF Follows, InUse
  <2>4. PICK m : m = "close" OBVIOUS
  <2>5. CtrlEnd(m, h) /\ m \in {"close", "error"} BY <1>7, <2>4
  <2>6. sock[k].id = h BY <1>5, <1>7
  <2>7. QED BY <1>1, <1>2, <1>3, <1>7, <2>1, <2>3, <2>5, <2>6, CommandDone
<1>8. ASSUME NEW t \in SlotType, SlotSound(t), t.type = sock[k].type, t.id = sock[k].id,
             sock[k].type # "HALFCLOSE", Live(h), sock' = [sock EXCEPT ![k] = t], CtrlEnd("nothing", h)
      PROVE  SocketInv' /\ Waited'
  <2>1. Follows(sock[k], t) BY <1>8 DEF Follows, InUse
  <2>2. PICK m : m = "nothing" OBVIOUS
  <2>3. CtrlEnd(m, h) /\ m \notin {"close", "error"} BY <1>8, <2>2
  <2>4. sock[k].id = h BY <1>5, <1>8
  <2>5. QED BY <1>1, <1>2, <1>3, <1>8, <2>1, <2>3, <2>4, CommandDone
<1>9. PICK p \in Nat : p = Head(pipe).n BY <1>0, <1>1, PipeRead DEF SocketType, Commands
<1>10. Parts(p) \in Seq(Nat \X Nat)
  <2>1. Size \in Nat BY SocketAssumption DEF SocketAssumption
  <2>2. QED BY <2>1 DEF Parts
<1>11. CASE ~Live(h) \/ sock[k].type \in {"HALFCLOSE", "PACCEPT", "PLISTEN", "LISTEN"}
  <2>1. CtrlEnd("nothing", h) /\ sock' = sock
    BY <1>2, <1>3, <1>11 DEF SendSocket, WritesAtOnce
  <2>2. QED BY <1>6, <2>1
<1>12. CASE Live(h) /\ WritesAtOnce(sock[k])
  <2>1. \/ \E n \in 0 .. Size :
             /\ sock' = IF n = Size THEN sock
                        ELSE [sock EXCEPT ![k] = RestHigh(sock[k], Rest(Parts(p), n))]
             /\ CtrlEnd("nothing", h)
        \/ sock' = [sock EXCEPT ![k] = ForceClose(sock[k])] /\ CtrlEnd("close", h)
    BY <1>2, <1>3, <1>9, <1>12 DEF SendSocket, WritesAtOnce
  <2>2. sock[k].type = "CONNECTED" BY <1>12 DEF WritesAtOnce
  <2>3. ASSUME NEW n \in 0 .. Size, CtrlEnd("nothing", h),
               sock' = [sock EXCEPT ![k] = RestHigh(sock[k], Rest(Parts(p), n))]
        PROVE  SocketInv' /\ Waited'
    <3>0. n \in Nat BY SocketAssumption DEF SocketAssumption
    <3>1. PICK q \in Seq(Nat \X Nat) : q = Rest(Parts(p), n) BY <1>10, <3>0, RestOf
    <3>2. PICK u \in SlotType : u = AppendHigh(sock[k], q) BY <1>4, AppendedSlot
    <3>3. u.type = sock[k].type /\ u.id = sock[k].id /\ u.fd = sock[k].fd BY <1>4, <3>2, AppendedSlot
    <3>4. PICK t : t = [u EXCEPT !.armed = TRUE] OBVIOUS
    <3>5. t \in SlotType /\ t.type = u.type /\ t.id = u.id /\ t.fd = u.fd /\ t.armed = TRUE
      BY <3>4 DEF SlotType
    <3>6. SlotSound(t) BY <1>4, <3>3, <3>5 DEF SlotSound, InUse
    <3>7. sock' = [sock EXCEPT ![k] = t] BY <2>3, <3>1, <3>2, <3>4 DEF RestHigh
    <3>8. QED BY <1>8, <1>12, <2>2, <2>3, <3>3, <3>5, <3>6, <3>7
  <2>4. QED BY <1>6, <1>7, <1>12, <2>1, <2>2, <2>3
<1>13. CASE /\ Live(h) /\ sock[k].type \notin {"HALFCLOSE", "PACCEPT", "PLISTEN", "LISTEN"}
            /\ ~WritesAtOnce(sock[k])
  <2>1. /\ sock' = [sock EXCEPT ![k] = IF Head(pipe).op = "P" THEN AppendLow(sock[k], Parts(p))
                                       ELSE AppendHigh(sock[k], Parts(p))]
        /\ CtrlEnd("nothing", h)
    BY <1>2, <1>3, <1>9, <1>13 DEF SendSocket
  <2>2. PICK t \in {AppendHigh(sock[k], Parts(p)), AppendLow(sock[k], Parts(p))} :
          sock' = [sock EXCEPT ![k] = t]
    BY <2>1
  <2>3. /\ t \in SlotType /\ t.type = sock[k].type /\ t.id = sock[k].id
        /\ t.fd = sock[k].fd /\ t.armed = sock[k].armed
    BY <1>4, <1>10, AppendedSlot
  <2>4. sock[k].type \in {"RESERVE", "BIND", "CONNECTING"} \/ (sock[k].type = "CONNECTED" /\ ~Empty(sock[k]))
    BY <1>4, <1>5, <1>13 DEF SlotType, WritesAtOnce
  <2>5. SlotSound(t) BY <1>4, <2>3, <2>4 DEF SlotSound, InUse
  <2>6. QED BY <1>8, <1>13, <2>1, <2>2, <2>3, <2>5
<1>14. QED BY <1>11, <1>12, <1>13
-----------------------------------------------------------------------------
(* The events.                                                              *)

(* Taking an event.                                                         *)
LEMMA EventTaken ==
  ASSUME ev \in Seq(Events), ev # <<>>
  PROVE  Tail(ev) \in Seq(Events) /\ Head(ev) \in Events /\ Head(ev) = ev[1] /\ 1 \in DOMAIN ev
  OBVIOUS

(* The slot an event is about.                                              *)
LEMMA EventSlot ==
  ASSUME SocketInv, NEW types, EventOf(types)
  PROVE  /\ Tail(ev) \in Seq(Events) /\ Head(ev).s \in SlotsOf
         /\ sock[Head(ev).s] \in SlotType /\ SlotSound(sock[Head(ev).s])
         /\ sock[Head(ev).s].type \in types
<1>1. SocketType /\ SlotsSound /\ ev # <<>> /\ Head(ev).s # NoSocket /\ sock[Head(ev).s].type \in types
  BY DEF SocketInv, EventOf
<1>2. Tail(ev) \in Seq(Events) /\ Head(ev) \in Events BY <1>1, EventTaken DEF SocketType
<1>3. Head(ev).s \in SlotsOf BY <1>1, <1>2 DEF Events
<1>4. QED BY <1>1, <1>2, <1>3 DEF SocketType, SlotsSound

(* What a message changes.                                                  *)
LEMMA TellEffect ==
  ASSUME NEW type, NEW id, Tell(type, id)
  PROVE  /\ type \in {"close", "error"} => gone' = gone \cup {id} /\ owed' = owed \ {id}
         /\ type \notin {"close", "error"} => gone' = gone /\ owed' = owed
  BY DEF Tell

(* An event that leaves its slot alone, whoever is told.                    *)
LEMMA EventIdle ==
  ASSUME SocketInv, Waited, sock' = sock,
         UNCHANGED <<alloc_id, reserved, pipe, posted>>, ev' \in Seq(Events),
         gone' = gone, owed' = owed
  PROVE  SocketInv' /\ Waited'
<1>1. 0 \in Nat OBVIOUS
<1>2. PICK k \in SlotsOf : TRUE BY <1>1, HashIn
<1>3. sock = [sock EXCEPT ![k] = sock[k]] /\ Follows(sock[k], sock[k]) /\ sock[k] \in SlotType
  BY SlotKept
<1>4. PICK t \in SlotType : t = sock[k] BY <1>3
<1>5. sock' = [sock EXCEPT ![k] = t] /\ Follows(sock[k], t) BY <1>3, <1>4
<1>6. HalfSlot(sock[k], sock[k].id) => HalfSlot(t, sock[k].id) BY <1>4
<1>7. QED BY <1>5, <1>6, EventDone

(* An event that ends its socket.                                           *)
LEMMA EventCloses ==
  ASSUME SocketInv, Waited, NEW k \in SlotsOf, InUse(sock[k]),
         sock' = [sock EXCEPT ![k] = ForceClose(sock[k])],
         UNCHANGED <<alloc_id, reserved, pipe, posted>>, ev' \in Seq(Events),
         NEW type \in {"close", "error"}, Tell(type, sock[k].id)
  PROVE  SocketInv' /\ Waited'
<1>1. sock[k] \in SlotType BY DEF SocketInv, SocketType
<1>2. PICK t \in SlotType : t = ForceClose(sock[k]) BY <1>1, ForceCloseSlot
<1>3. SlotSound(t) /\ t.type = "INVALID" /\ t.id = sock[k].id BY <1>1, <1>2, ForceCloseSlot
<1>4. Follows(sock[k], t) /\ ~InUse(t) BY <1>3 DEF Follows, InUse
<1>5. gone' = gone \cup {sock[k].id} /\ owed' = owed \ {sock[k].id} BY TellEffect
<1>6. sock' = [sock EXCEPT ![k] = t] BY <1>2
<1>7. QED BY <1>4, <1>5, <1>6, EventDone

(* An event of nobody, or of a socket that is gone.                         *)
LEMMA SkipKeeps ==
  ASSUME SocketInv, Waited, SkipEvent
  PROVE  SocketInv' /\ Waited'
<1>1. ev # <<>> /\ ev \in Seq(Events) BY DEF SkipEvent, EventOf, SocketInv, SocketType
<1>2. ev' \in Seq(Events) BY <1>1, EventTaken DEF SkipEvent, EventEnd
<1>3. QED BY <1>2, EventIdle DEF SkipEvent, EventEnd, TellNobody

(* report_connect: the write event stays on while something is buffered.     *)
LEMMA ConnectKeeps ==
  ASSUME SocketInv, Waited, ReportConnect
  PROVE  SocketInv' /\ Waited'
<1>0. EventOf({"CONNECTING"}) BY DEF ReportConnect
<1>1. PICK k \in SlotsOf : k = Head(ev).s BY <1>0, EventSlot
<1>2. /\ Tail(ev) \in Seq(Events) /\ sock[k] \in SlotType /\ SlotSound(sock[k])
      /\ sock[k].type = "CONNECTING"
  BY <1>0, <1>1, EventSlot
<1>3. UNCHANGED <<alloc_id, reserved, pipe, posted>> /\ ev' \in Seq(Events)
  BY <1>2 DEF ReportConnect, EventEnd
<1>4. InUse(sock[k]) BY <1>2 DEF InUse
<1>5. PICK b \in BOOLEAN : b = ~Empty(sock[k]) BY Zenon DEF Empty
<1>6. ASSUME sock' = [sock EXCEPT ![k].type = "CONNECTED", ![k].armed = b], Tell("open", sock[k].id)
      PROVE  SocketInv' /\ Waited'
  <2>1. PICK t : t = [sock[k] EXCEPT !.type = "CONNECTED", !.armed = b] OBVIOUS
  <2>2. /\ t \in SlotType /\ t.id = sock[k].id /\ t.type = "CONNECTED" /\ t.fd = sock[k].fd
        /\ t.armed = b /\ t.high = sock[k].high /\ t.low = sock[k].low
    BY <1>2, <2>1 DEF SlotType
  <2>3. ~Empty(t) => t.armed = TRUE
    <3>1. Empty(t) <=> Empty(sock[k]) BY <2>2 DEF Empty
    <3>2. ~Empty(sock[k]) => b = TRUE BY <1>5, Zenon
    <3>3. QED BY <2>2, <3>1, <3>2
  <2>4. SlotSound(t) BY <1>2, <2>2, <2>3 DEF SlotSound, InUse
  <2>5. Follows(sock[k], t) BY <1>2, <1>4, <2>2, <2>4 DEF Follows, InUse
  <2>6. sock' = [sock EXCEPT ![k] = t]
    <3>1. sock \in [SlotsOf -> SlotType] BY DEF SocketInv, SocketType
    <3>2. sock' = [sock EXCEPT ![k] = [sock[k] EXCEPT !.type = "CONNECTED", !.armed = b]]
      BY <1>2, <1>6, <3>1 DEF SlotType
    <3>3. QED BY <2>1, <3>2
  <2>7. gone' = gone /\ owed' = owed BY <1>6, TellEffect
  <2>8. ~HalfSlot(sock[k], sock[k].id) BY <1>2 DEF HalfSlot
  <2>9. QED BY <1>3, <2>2, <2>5, <2>6, <2>7, <2>8, EventDone
<1>7. ASSUME sock' = [sock EXCEPT ![k] = ForceClose(sock[k])], Tell("error", sock[k].id)
      PROVE  SocketInv' /\ Waited'
  <2>1. PICK m \in {"close", "error"} : m = "error" OBVIOUS
  <2>2. Tell(m, sock[k].id) BY <1>7, <2>1
  <2>3. QED BY <1>3, <1>4, <1>7, <2>2, EventCloses
<1>8. \/ sock' = [sock EXCEPT ![k].type = "CONNECTED", ![k].armed = ~Empty(sock[k])] /\ Tell("open", sock[k].id)
      \/ sock' = [sock EXCEPT ![k] = ForceClose(sock[k])] /\ Tell("error", sock[k].id)
  BY <1>1 DEF ReportConnect
<1>9. \/ sock' = [sock EXCEPT ![k].type = "CONNECTED", ![k].armed = b] /\ Tell("open", sock[k].id)
      \/ sock' = [sock EXCEPT ![k] = ForceClose(sock[k])] /\ Tell("error", sock[k].id)
  BY <1>5, <1>8, Zenon
<1>10. QED BY <1>6, <1>7, <1>9

(* A free slot is taken: by reserve_id for a service, or at once.            *)
LEMMA SlotTaken ==
  ASSUME SocketInv, Waited, NEW id \in Nat, alloc_id < id, alloc_id' = id,
         NEW k \in SlotsOf, k = Hash(id), sock[k].type = "INVALID",
         NEW t \in SlotType, SlotSound(t), sock' = [sock EXCEPT ![k] = t],
         UNCHANGED <<pipe, posted, gone, owed>>, ev' \in Seq(Events),
         \/ InUse(t) /\ t.id = id /\ reserved' = reserved
         \/ t.type = "RESERVE" /\ reserved' = reserved \cup {id}
  PROVE  SocketInv' /\ Waited'
<1>0. SocketType /\ SlotsSound /\ Placed /\ Held /\ Commanded /\ Past BY DEF SocketInv
<1>1. /\ sock' \in [SlotsOf -> SlotType] /\ sock'[k] = t
      /\ \A j \in SlotsOf : j # k => sock'[j] = sock[j]
  BY <1>0, SlotSet DEF SocketType
<1>2. SocketType' BY <1>0, <1>1 DEF SocketType
<1>3. \A n \in Nat : n <= alloc_id => n <= id /\ n # id BY <1>0 DEF SocketType
<1>4. SlotsSound' BY <1>0, <1>1 DEF SlotsSound
<1>5. id \notin reserved /\ id \notin gone
  BY <1>0, <1>3 DEF SocketType, Held, Past
<1>6. Placed'
  <2> SUFFICES ASSUME NEW j \in SlotsOf, InUse(sock'[j])
               PROVE  /\ Hash(sock'[j].id) = j /\ sock'[j].id <= id
                      /\ sock'[j].id \notin reserved' /\ sock'[j].id \notin gone
    BY DEF Placed
  <2>1. CASE j = k
    <3>1. t.id = id /\ reserved' = reserved BY <1>1, <2>1 DEF InUse
    <3>2. QED BY <1>1, <1>5, <2>1, <3>1
  <2>2. CASE j # k
    <3>1. sock'[j] = sock[j] /\ sock[j].id \in Nat BY <1>0, <1>1, <2>2 DEF SocketType, SlotType
    <3>2. /\ Hash(sock[j].id) = j /\ sock[j].id <= alloc_id
          /\ sock[j].id \notin reserved /\ sock[j].id \notin gone
      BY <1>0, <3>1 DEF Placed
    <3>3. QED BY <1>3, <3>1, <3>2
  <2>3. QED BY <2>1, <2>2
<1>7. \A r \in reserved : r \in Nat /\ r <= alloc_id /\ Hash(r) \in SlotsOf /\ Hash(r) # k
  BY <1>0, HashIn DEF SocketType, Held
<1>8. Held'
  <2> SUFFICES ASSUME NEW r \in reserved'
               PROVE  /\ r <= id /\ r \notin gone /\ sock'[Hash(r)].type = "RESERVE"
                      /\ \A q \in reserved' : Hash(q) = Hash(r) => q = r
    BY DEF Held
  <2>1. CASE r \in reserved
    <3>1. r \notin gone /\ sock[Hash(r)].type = "RESERVE" /\ \A q \in reserved : Hash(q) = Hash(r) => q = r
      BY <1>0, <2>1 DEF Held
    <3>2. sock'[Hash(r)] = sock[Hash(r)] BY <1>1, <1>7, <2>1
    <3>3. r <= id BY <1>3, <1>7, <2>1
    <3>4. QED BY <1>7, <2>1, <3>1, <3>2, <3>3
  <2>2. CASE r \notin reserved
    <3>1. r = id /\ t.type = "RESERVE" /\ reserved' = reserved \cup {id} BY <2>2
    <3>2. QED BY <1>1, <1>5, <1>7, <3>1
  <2>3. QED BY <2>1, <2>2
<1>9. Commanded'
  <2> SUFFICES ASSUME NEW i \in DOMAIN pipe
               PROVE  /\ pipe[i].id <= id /\ pipe[i].id \notin reserved'
                      /\ Opens(pipe[i]) =>
                           /\ sock'[Hash(pipe[i].id)].type = "RESERVE"
                           /\ sock'[Hash(pipe[i].id)].id = pipe[i].id
                           /\ pipe[i].id \notin gone
                           /\ \A r \in reserved' : Hash(r) # Hash(pipe[i].id)
                           /\ \A j \in DOMAIN pipe : pipe[j].id = pipe[i].id => i <= j
    BY DEF Commanded
  <2>1. pipe[i] \in Commands /\ pipe[i].id \in Nat
    <3>1. pipe[i] \in Commands BY <1>0 DEF SocketType
    <3>2. QED BY <3>1 DEF Commands
  <2>2. pipe[i].id <= alloc_id /\ pipe[i].id \notin reserved BY <1>0 DEF Commanded
  <2>3. pipe[i].id <= id /\ pipe[i].id \notin reserved' BY <1>3, <2>1, <2>2
  <2>4. ASSUME Opens(pipe[i])
        PROVE  /\ sock'[Hash(pipe[i].id)].type = "RESERVE"
               /\ sock'[Hash(pipe[i].id)].id = pipe[i].id
               /\ pipe[i].id \notin gone
               /\ \A r \in reserved' : Hash(r) # Hash(pipe[i].id)
               /\ \A j \in DOMAIN pipe : pipe[j].id = pipe[i].id => i <= j
    <3>1. /\ sock[Hash(pipe[i].id)].type = "RESERVE" /\ sock[Hash(pipe[i].id)].id = pipe[i].id
          /\ pipe[i].id \notin gone
          /\ \A r \in reserved : Hash(r) # Hash(pipe[i].id)
          /\ \A j \in DOMAIN pipe : pipe[j].id = pipe[i].id => i <= j
      BY <1>0, <2>4 DEF Commanded
    <3>2. Hash(pipe[i].id) # k /\ Hash(pipe[i].id) \in SlotsOf BY <2>1, <3>1, HashIn
    <3>3. sock'[Hash(pipe[i].id)] = sock[Hash(pipe[i].id)] BY <1>1, <3>2
    <3>4. \A r \in reserved' : Hash(r) # Hash(pipe[i].id) BY <3>1, <3>2
    <3>5. QED BY <3>1, <3>3, <3>4
  <2>5. QED BY <2>3, <2>4
<1>10. Past' BY <1>0, <1>3 DEF Past, SocketType
<1>11. SocketInv' BY <1>2, <1>4, <1>6, <1>8, <1>9, <1>10 DEF SocketInv
<1>12. ASSUME NEW o \in owed' PROVE (Asked(o) \/ Half(o))'
  <2>1. o \in owed /\ o \in Nat /\ Hash(o) \in SlotsOf BY <1>0, HashIn DEF SocketType
  <2>2. CASE Asked(o) BY <2>2 DEF Asked
  <2>3. CASE Half(o)
    <3>1. Hash(o) # k BY <2>3 DEF Half, HalfSlot
    <3>2. sock'[Hash(o)] = sock[Hash(o)] BY <1>1, <2>1, <3>1
    <3>3. QED BY <2>3, <3>2 DEF Half, HalfSlot
  <2>4. QED BY <2>1, <2>2, <2>3 DEF Waited
<1>13. Waited' BY <1>12 DEF Waited
<1>14. QED BY <1>11, <1>13

(* Ids are left out, and nothing else happens.                              *)
LEMMA IdsSkipped ==
  ASSUME SocketInv, Waited, alloc_id' \in Nat, alloc_id <= alloc_id', sock' = sock,
         UNCHANGED <<reserved, pipe, posted, gone, owed>>, ev' \in Seq(Events)
  PROVE  SocketInv' /\ Waited'
<1>0. SocketType /\ SlotsSound /\ Placed /\ Held /\ Commanded /\ Past BY DEF SocketInv
<1>1. \A n \in Nat : n <= alloc_id => n <= alloc_id' BY <1>0 DEF SocketType
<1>2. SocketType' BY <1>0 DEF SocketType
<1>3. SlotsSound' BY <1>0 DEF SlotsSound
<1>4. Placed' BY <1>0, <1>1 DEF Placed, SocketType, SlotType
<1>5. Held' BY <1>0, <1>1 DEF Held, SocketType
<1>6. Commanded'
  <2>1. ASSUME NEW i \in DOMAIN pipe PROVE pipe[i].id \in Nat
    <3>1. pipe[i] \in Commands BY <1>0 DEF SocketType
    <3>2. QED BY <3>1 DEF Commands
  <2>2. QED BY <1>0, <1>1, <2>1 DEF Commanded
<1>7. Past' BY <1>0, <1>1 DEF Past, SocketType
<1>8. Waited' BY DEF Waited, Asked, Half
<1>9. QED BY <1>2, <1>3, <1>4, <1>5, <1>6, <1>7, <1>8 DEF SocketInv

(* report_accept: the new socket has a slot and an id of its own.            *)
LEMMA AcceptKeeps ==
  ASSUME SocketInv, Waited, ReportAccept
  PROVE  SocketInv' /\ Waited'
<1>0. SocketType /\ MaxSocket \in Nat BY SocketAssumption DEF SocketInv, SocketAssumption
<1>1. ev' \in Seq(Events) /\ UNCHANGED <<reserved, pipe, posted>>
  <2>1. EventOf({"LISTEN"}) BY DEF ReportAccept
  <2>2. Tail(ev) \in Seq(Events) BY <2>1, EventSlot
  <2>3. QED BY <2>2 DEF ReportAccept, EventEnd
<1>2. CASE /\ TellNobody \/ TellLimit(sock[Head(ev).s].id)
           /\ UNCHANGED <<sock, alloc_id, failed>>
  BY <1>1, <1>2, EventIdle DEF TellNobody, TellLimit
<1>3. ASSUME NEW d \in 1 .. MaxSocket, sock[Hash(alloc_id + d)].type = "INVALID",
             alloc_id' = alloc_id + d, NEW from,
             \/ /\ sock' = [sock EXCEPT ![Hash(alloc_id + d)] = [NewFd(alloc_id + d) EXCEPT !.type = "PACCEPT"]]
                /\ Tell("accept", from)
             \/ TellNobody /\ sock' = sock
      PROVE  SocketInv' /\ Waited'
  <2>1. PICK id \in Nat : id = alloc_id + d BY <1>0 DEF SocketType
  <2>2. alloc_id < id BY <1>0, <2>1 DEF SocketType
  <2>3. PICK k \in SlotsOf : k = Hash(id) BY HashIn
  <2>4. PICK t : t = [NewFd(id) EXCEPT !.type = "PACCEPT"] OBVIOUS
  <2>5. PICK ty \in {"CONNECTED", "PLISTEN", "PACCEPT"} : ty = "PACCEPT" OBVIOUS
  <2>6. t \in SlotType /\ t.id = id /\ t.type = ty /\ SlotSound(t) BY <2>4, <2>5, TypedSlot
  <2>7. CASE sock' = [sock EXCEPT ![k] = t] /\ Tell("accept", from)
    <3>1. gone' = gone /\ owed' = owed BY <2>7, TellEffect
    <3>2. InUse(t) BY <2>5, <2>6 DEF InUse
    <3>3. sock[k].type = "INVALID" /\ alloc_id' = id BY <1>3, <2>1, <2>3
    <3>4. QED BY <1>1, <2>2, <2>3, <2>6, <2>7, <3>1, <3>2, <3>3, SlotTaken
  <2>8. CASE TellNobody /\ sock' = sock
    <3>1. alloc_id' \in Nat /\ alloc_id <= alloc_id' BY <1>0, <1>3 DEF SocketType
    <3>2. QED BY <1>1, <2>8, <3>1, IdsSkipped DEF TellNobody
  <2>9. QED BY <1>3, <2>1, <2>3, <2>4, <2>7, <2>8
<1>4. QED BY <1>2, <1>3 DEF ReportAccept

(* forward_message_tcp: after data the rest of the event is kept.            *)
LEMMA ReadKeeps ==
  ASSUME SocketInv, Waited, ReadEvent
  PROVE  SocketInv' /\ Waited'
<1>0. EventOf(Others) /\ ev \in Seq(Events) BY DEF ReadEvent, SocketInv, SocketType
<1>1. PICK k \in SlotsOf : k = Head(ev).s BY <1>0, EventSlot
<1>2. Tail(ev) \in Seq(Events) /\ sock[k] \in SlotType /\ sock[k].type \in Others BY <1>0, <1>1, EventSlot
<1>3. CASE Abort BY <1>0, <1>3, EventIdle DEF Abort
<1>4. CASE /\ sock' = sock /\ UNCHANGED <<alloc_id, reserved, pipe, posted>>
           /\ TellNobody \/ Tell("data", sock[k].id)
           /\ ev' = Tail(ev) \/ ev' = [ev EXCEPT ![1].read = FALSE]
  <2>1. gone' = gone /\ owed' = owed BY <1>4, TellEffect DEF TellNobody
  <2>2. ev' \in Seq(Events)
    <3>1. ev # <<>> BY <1>0 DEF EventOf
    <3>2. ev[1] \in Events /\ 1 \in DOMAIN ev BY <1>0, <3>1, EventTaken
    <3>3. PICK e \in Events : e = [ev[1] EXCEPT !.read = FALSE] BY <3>2 DEF Events
    <3>4. [ev EXCEPT ![1] = e] \in Seq(Events) BY <1>0, <3>2
    <3>5. [ev EXCEPT ![1].read = FALSE] = [ev EXCEPT ![1] = e] BY <1>0, <3>2, <3>3
    <3>6. QED BY <1>2, <1>4, <3>4, <3>5
  <2>3. QED BY <1>4, <2>1, <2>2, EventIdle
<1>5. ASSUME NEW type \in {"close", "error"}, Tell(type, sock[k].id), sock[k].type # "RESERVE",
             sock' = [sock EXCEPT ![k] = ForceClose(sock[k])],
             UNCHANGED <<alloc_id, reserved, pipe, posted>>, ev' = Tail(ev)
      PROVE  SocketInv' /\ Waited'
  <2>1. InUse(sock[k]) BY <1>2, <1>5 DEF InUse, Others
  <2>2. ev' \in Seq(Events) BY <1>2, <1>5
  <2>3. QED BY <1>5, <2>1, <2>2, EventCloses
<1>6. QED BY <1>1, <1>3, <1>4, <1>5 DEF ReadEvent, EventEnd

(* send_buffer on a write event: while something is buffered the event stays  *)
(* on, and a half closed socket stays waited for until it is closed.         *)
LEMMA WriteKeeps ==
  ASSUME SocketInv, Waited, WriteEvent
  PROVE  SocketInv' /\ Waited'
<1>0. EventOf(Others) /\ ev \in Seq(Events) BY DEF WriteEvent, SocketInv, SocketType
<1>1. PICK k \in SlotsOf : k = Head(ev).s BY <1>0, EventSlot
<1>2. /\ Tail(ev) \in Seq(Events) /\ sock[k] \in SlotType /\ SlotSound(sock[k])
      /\ sock[k].type \in Others
  BY <1>0, <1>1, EventSlot
<1>3. CASE Abort BY <1>0, <1>3, EventIdle DEF Abort
<1>4. ASSUME NEW r \in SendBuffer(sock[k]), ~SendAborts(sock[k]) \/ Empty(sock[k]),
             sock' = [sock EXCEPT ![k] = r.s],
             IF r.s.type = "INVALID" THEN Tell("close", sock[k].id) ELSE TellNobody,
             EventEnd, UNCHANGED <<alloc_id, failed>>
      PROVE  SocketInv' /\ Waited'
  <2>1. PICK s \in SlotType : s = sock[k] BY <1>2
  <2>2. PICK t : t = r.s OBVIOUS
  <2>3. /\ t \in SlotType /\ t.id = s.id
        /\ Empty(s) => Empty(t)
        /\ \/ t.type = s.type /\ t.fd = s.fd /\ (~Empty(t) \/ s.type = "HALFCLOSE" => t.armed = s.armed)
           \/ t.type = "INVALID" /\ t.fd = "none" /\ (s.type = "HALFCLOSE" \/ ~Empty(s))
    BY <1>4, <2>1, <2>2, BufferSent
  <2>4. sock' = [sock EXCEPT ![k] = t] BY <1>4, <2>2
  <2>5. UNCHANGED <<alloc_id, reserved, pipe, posted>> /\ ev' \in Seq(Events) BY <1>2, <1>4 DEF EventEnd
  <2>6. s.type \in Others /\ s.type # "INVALID" BY <1>2, <2>1 DEF Others
  <2>7. CASE t.type = "INVALID"
    <3>1. t.fd = "none" /\ (s.type = "HALFCLOSE" \/ ~Empty(s)) BY <2>3, <2>6, <2>7
    <3>2. s.type # "RESERVE" BY <1>4, <2>1, <3>1 DEF SendAborts
    <3>3. InUse(s) /\ ~InUse(t) BY <2>6, <2>7, <3>2 DEF InUse, Others
    <3>4. SlotSound(t) BY <2>7, <3>1 DEF SlotSound, InUse
    <3>5. Follows(s, t) BY <2>3, <2>7, <3>2, <3>3, <3>4 DEF Follows
    <3>6. Tell("close", sock[k].id) BY <1>4, <2>2, <2>7
    <3>7. gone' = gone \cup {sock[k].id} /\ owed' = owed \ {sock[k].id} BY <3>6, TellEffect
    <3>8. QED BY <2>1, <2>3, <2>4, <2>5, <3>3, <3>5, <3>7, EventDone
  <2>8. CASE t.type # "INVALID"
    <3>1. t.type = s.type /\ t.fd = s.fd /\ (~Empty(t) \/ s.type = "HALFCLOSE" => t.armed = s.armed)
      BY <2>3, <2>8
    <3>2. t.fd = "tcp" /\ ~Empty(t) => t.armed = TRUE BY <1>2, <2>1, <2>3, <3>1 DEF SlotSound
    <3>3. t.type # "CONNECTING" BY <2>6, <3>1 DEF Others
    <3>4. SlotSound(t) BY <1>2, <2>1, <3>1, <3>2, <3>3 DEF SlotSound, InUse
    <3>5. Follows(s, t) BY <2>3, <3>1, <3>4 DEF Follows, InUse
    <3>6. TellNobody BY <1>4, <2>2, <2>8
    <3>7. gone' = gone /\ owed' = owed BY <3>6 DEF TellNobody
    <3>8. HalfSlot(s, s.id) => HalfSlot(t, s.id) BY <2>3, <3>1 DEF HalfSlot
    <3>9. QED BY <2>1, <2>3, <2>4, <2>5, <3>5, <3>7, <3>8, EventDone
  <2>9. QED BY <2>7, <2>8
<1>5. QED BY <1>1, <1>3, <1>4 DEF WriteEvent

(* sp_wait and the end of the commands, clear_closed_event, and assertions    *)
(* that fail.                                                               *)
LEMMA QuietKeeps ==
  ASSUME SocketInv, Waited, ClearClosedEvent \/ NoCommand \/ Wait \/ NewFdAborts
  PROVE  SocketInv' /\ Waited'
<1>0. SocketType /\ ev \in Seq(Events) BY DEF SocketInv, SocketType
<1>1. CASE ClearClosedEvent
  <2>1. \A i \in DOMAIN ev : ev[i] \in Events /\ [ev[i] EXCEPT !.s = NoSocket] \in Events
    <3>1. \A i \in DOMAIN ev : ev[i] \in Events BY <1>0
    <3>2. \A e \in Events : [e EXCEPT !.s = NoSocket] \in Events BY DEF Events
    <3>3. QED BY <3>1, <3>2
  <2>2. DOMAIN ev = 1 .. Len(ev) /\ Len(ev) \in Nat BY <1>0
  <2>3. DOMAIN ev' = 1 .. Len(ev) BY <1>1, <2>2 DEF ClearClosedEvent
  <2>4. \A i \in 1 .. Len(ev) : ev'[i] \in Events BY <1>1, <2>1, <2>2 DEF ClearClosedEvent
  <2>5. ev' = [i \in 1 .. Len(ev) |-> ev'[i]] BY <1>1, <2>2 DEF ClearClosedEvent
  <2>6. ev' \in Seq(Events) BY <2>2, <2>4, <2>5, SeqDef
  <2>7. QED BY <1>1, <2>6, EventIdle DEF ClearClosedEvent
<1>2. CASE NoCommand BY <1>0, <1>2, EventIdle DEF NoCommand
<1>3. CASE NewFdAborts BY <1>0, <1>3, EventIdle DEF NewFdAborts, Abort
<1>4. CASE Wait
  <2>1. PICK got : got \subseteq Events /\ IsFiniteSet(got) /\ ev' \in SetToSeqs(got)
    <3>1. PICK K \in SUBSET {k \in SlotsOf : InPoll(k)} :
            \E f \in [K -> UNION {Ready(k) : k \in K}] :
               /\ \A k \in K : f[k] \in Ready(k)
               /\ LET got == {f[k] : k \in K} \cup (IF pipe = <<>> THEN {} ELSE {PipeEvent})
                  IN got # {} /\ ev' \in SetToSeqs(got)
      BY <1>4 DEF Wait
    <3>2. PICK f \in [K -> UNION {Ready(k) : k \in K}] :
               /\ \A k \in K : f[k] \in Ready(k)
               /\ LET got == {f[k] : k \in K} \cup (IF pipe = <<>> THEN {} ELSE {PipeEvent})
                  IN got # {} /\ ev' \in SetToSeqs(got)
      BY <3>1
    <3> DEFINE got == {f[k] : k \in K} \cup (IF pipe = <<>> THEN {} ELSE {PipeEvent})
    <3>3. \A k \in K : f[k] \in Events
      <4>1. ASSUME NEW k \in K PROVE f[k] \in Events
        <5>1. f[k] \in Ready(k) /\ k \in SlotsOf BY <3>1, <3>2
        <5>2. f[k] \in [s : {k}, read : BOOLEAN, write : BOOLEAN] BY <5>1 DEF Ready
        <5>3. QED BY <5>1, <5>2 DEF Events
      <4>2. QED BY <4>1
    <3>4. PipeEvent \in Events BY DEF PipeEvent, Events
    <3>5. got \subseteq Events BY <3>3, <3>4
    <3>6. IsFiniteSet(got)
      <4>0. MaxSocket \in Nat BY SocketAssumption DEF SocketAssumption
      <4>1. IsFiniteSet(SlotsOf) BY <4>0, FS_Interval DEF SlotsOf
      <4>2. IsFiniteSet(K) BY <3>1, <4>1, FS_Subset
      <4>3. f \in Surjection(K, {f[k] : k \in K}) BY DEF Surjection
      <4>6. IsFiniteSet({f[k] : k \in K}) BY <4>2, <4>3, FS_Surjection
      <4>4. IsFiniteSet(IF pipe = <<>> THEN {} ELSE {PipeEvent}) BY FS_EmptySet, FS_Singleton
      <4>5. QED BY <4>4, <4>6, FS_Union
    <3>7. ev' \in SetToSeqs(got) BY <3>2
    <3> HIDE DEF got
    <3>8. QED BY <3>5, <3>6, <3>7
  <2>2. Cardinality(got) \in Nat BY <2>1, FS_CardinalityType
  <2>3. ev' \in [1 .. Cardinality(got) -> got] BY <2>1 DEF SetToSeqs
  <2>4. ev' \in Seq(got) BY <2>2, <2>3
  <2>5. ev' \in Seq(Events) BY <2>1, <2>4
  <2>6. QED BY <1>4, <2>5, EventIdle DEF Wait
<1>5. QED BY <1>1, <1>2, <1>3, <1>4
-----------------------------------------------------------------------------
(* The services.                                                            *)

(* reserve_id                                                               *)
LEMMA ReserveKeeps ==
  ASSUME SocketInv, Waited, Reserve
  PROVE  SocketInv' /\ Waited'
<1>0. SocketType /\ MaxSocket \in Nat BY SocketAssumption DEF SocketInv, SocketAssumption
<1>1. PICK d \in 1 .. MaxSocket :
        /\ sock[Hash(alloc_id + d)].type = "INVALID"
        /\ alloc_id' = alloc_id + d /\ reserved' = reserved \cup {alloc_id + d}
        /\ sock' = [sock EXCEPT ![Hash(alloc_id + d)].type = "RESERVE"]
  BY DEF Reserve
<1>2. PICK id \in Nat : id = alloc_id + d BY <1>0 DEF SocketType
<1>3. alloc_id < id BY <1>0, <1>2 DEF SocketType
<1>4. PICK k \in SlotsOf : k = Hash(id) BY HashIn
<1>5. sock[k] \in SlotType /\ SlotSound(sock[k]) /\ sock[k].type = "INVALID"
  BY <1>0, <1>1, <1>2, <1>4 DEF SocketType, SocketInv, SlotsSound
<1>6. PICK t : t = [sock[k] EXCEPT !.type = "RESERVE"] OBVIOUS
<1>7. t \in SlotType /\ t.type = "RESERVE" /\ t.fd = sock[k].fd BY <1>5, <1>6 DEF SlotType
<1>8. SlotSound(t) BY <1>5, <1>7 DEF SlotSound, InUse
<1>9. sock' = [sock EXCEPT ![k] = t] BY <1>1, <1>2, <1>4, <1>6
<1>10. UNCHANGED <<pipe, posted, gone, owed>> /\ ev' \in Seq(Events) BY <1>0 DEF Reserve, SocketType
<1>11. alloc_id' = id /\ reserved' = reserved \cup {id} BY <1>1, <1>2
<1>12. QED BY <1>3, <1>4, <1>5, <1>7, <1>8, <1>9, <1>10, <1>11, SlotTaken

(* open_request: the id is in its slot when the command is in the pipe, and   *)
(* no earlier command is about it.                                          *)
LEMMA OpenRequestKeeps ==
  ASSUME SocketInv, Waited, NEW id, NEW op \in {"O", "L", "B"}, OpenRequest(id, op)
  PROVE  SocketInv' /\ Waited'
<1>0. SocketType /\ SlotsSound /\ Placed /\ Held /\ Commanded /\ Past BY DEF SocketInv
<1>1. /\ id \in reserved /\ reserved' = reserved \ {id} /\ sock' = [sock EXCEPT ![Hash(id)].id = id]
      /\ pipe' = Append(pipe, [op |-> op, id |-> id, n |-> 0])
      /\ UNCHANGED <<alloc_id, ev, posted, gone, owed>>
  BY DEF OpenRequest
<1>2. id \in Nat /\ id <= alloc_id /\ id \notin gone BY <1>0, <1>1 DEF SocketType, Held
<1>3. PICK k \in SlotsOf : k = Hash(id) BY <1>2, HashIn
<1>4. /\ sock[k] \in SlotType /\ SlotSound(sock[k]) /\ sock[k].type = "RESERVE"
      /\ \A q \in reserved : Hash(q) = k => q = id
  BY <1>0, <1>1, <1>3 DEF SocketType, SlotsSound, Held
<1>5. PICK t : t = [sock[k] EXCEPT !.id = id] OBVIOUS
<1>6. /\ t \in SlotType /\ t.id = id /\ t.type = "RESERVE" /\ t.fd = sock[k].fd /\ t.armed = sock[k].armed
      /\ t.high = sock[k].high /\ t.low = sock[k].low
  BY <1>2, <1>4, <1>5 DEF SlotType
<1>7. SlotSound(t) BY <1>4, <1>6 DEF SlotSound, InUse, Empty
<1>8. sock' = [sock EXCEPT ![k] = t] BY <1>1, <1>3, <1>5
<1>9. /\ sock' \in [SlotsOf -> SlotType] /\ sock'[k] = t
      /\ \A j \in SlotsOf : j # k => sock'[j] = sock[j]
  BY <1>0, <1>6, <1>8, SlotSet DEF SocketType
<1>10. PICK c \in Commands : c = [op |-> op, id |-> id, n |-> 0] BY <1>2 DEF Commands
<1>11. c.id = id /\ c.op = op BY <1>10
<1>12. /\ pipe' \in Seq(Commands) /\ DOMAIN pipe = 1 .. Len(pipe) /\ DOMAIN pipe' = 1 .. Len(pipe) + 1
       /\ Len(pipe) \in Nat /\ pipe'[Len(pipe) + 1] = c
       /\ \A i \in 1 .. Len(pipe) : pipe'[i] = pipe[i]
  BY <1>0, <1>1, <1>10, PipeWritten DEF SocketType
<1>13. SocketType' BY <1>0, <1>1, <1>9, <1>12 DEF SocketType
<1>14. SlotsSound' BY <1>0, <1>7, <1>9 DEF SlotsSound
<1>15. Placed'
  <2> SUFFICES ASSUME NEW j \in SlotsOf, InUse(sock'[j])
               PROVE  /\ Hash(sock'[j].id) = j /\ sock'[j].id <= alloc_id
                      /\ sock'[j].id \notin reserved' /\ sock'[j].id \notin gone
    BY <1>1 DEF Placed
  <2>1. j # k BY <1>6, <1>9 DEF InUse
  <2>2. sock'[j] = sock[j] BY <1>9, <2>1
  <2>3. InUse(sock[j]) BY <2>2
  <2>4. /\ Hash(sock[j].id) = j /\ sock[j].id <= alloc_id
        /\ sock[j].id \notin reserved /\ sock[j].id \notin gone
    BY <1>0, <2>3 DEF Placed
  <2>5. reserved' \subseteq reserved BY <1>1
  <2>6. QED BY <2>2, <2>4, <2>5
<1>16. \A r \in reserved' : r \in reserved /\ r \in Nat /\ Hash(r) \in SlotsOf /\ Hash(r) # k
  BY <1>0, <1>1, <1>4, HashIn DEF SocketType
<1>17. Held'
  <2> SUFFICES ASSUME NEW r \in reserved'
               PROVE  /\ r <= alloc_id /\ r \notin gone /\ sock'[Hash(r)].type = "RESERVE"
                      /\ \A q \in reserved' : Hash(q) = Hash(r) => q = r
    BY <1>1 DEF Held
  <2>1. sock'[Hash(r)] = sock[Hash(r)] BY <1>9, <1>16
  <2>2. QED BY <1>0, <1>16, <2>1 DEF Held
<1>18. Commanded'
  <2> SUFFICES ASSUME NEW i \in DOMAIN pipe'
               PROVE  /\ pipe'[i].id <= alloc_id /\ pipe'[i].id \notin reserved'
                      /\ Opens(pipe'[i]) =>
                           /\ sock'[Hash(pipe'[i].id)].type = "RESERVE"
                           /\ sock'[Hash(pipe'[i].id)].id = pipe'[i].id
                           /\ pipe'[i].id \notin gone
                           /\ \A r \in reserved' : Hash(r) # Hash(pipe'[i].id)
                           /\ \A j \in DOMAIN pipe' : pipe'[j].id = pipe'[i].id => i <= j
    BY <1>1 DEF Commanded
  <2>0. \A j \in 1 .. Len(pipe) : pipe[j].id # id BY <1>0, <1>1, <1>12 DEF Commanded
  <2>1. CASE i = Len(pipe) + 1
    <3>1. pipe'[i] = c BY <1>12, <2>1
    <3>2. \A j \in DOMAIN pipe' : pipe'[j].id = id => i <= j
      <4>1. ASSUME NEW j \in DOMAIN pipe', pipe'[j].id = id PROVE i <= j
        <5>1. j \in 1 .. Len(pipe) => pipe'[j].id # id BY <1>12, <2>0
        <5>2. QED BY <1>12, <2>1, <4>1, <5>1
      <4>2. QED BY <4>1
    <3>3. /\ sock'[Hash(id)].type = "RESERVE" /\ sock'[Hash(id)].id = id
          /\ \A r \in reserved' : Hash(r) # Hash(id)
      BY <1>3, <1>6, <1>9, <1>16
    <3>4. QED BY <1>1, <1>2, <1>11, <3>1, <3>2, <3>3
  <2>2. CASE i \in 1 .. Len(pipe)
    <3>1. pipe'[i] = pipe[i] /\ i \in DOMAIN pipe BY <1>12, <2>2
    <3>2. pipe[i] \in Commands /\ pipe[i].id \in Nat
      <4>1. pipe[i] \in Commands BY <1>0, <3>1 DEF SocketType
      <4>2. QED BY <4>1 DEF Commands
    <3>3. pipe[i].id <= alloc_id /\ pipe[i].id \notin reserved BY <1>0, <3>1 DEF Commanded
    <3>4. ASSUME Opens(pipe[i])
          PROVE  /\ sock'[Hash(pipe[i].id)].type = "RESERVE"
                 /\ sock'[Hash(pipe[i].id)].id = pipe[i].id
                 /\ pipe[i].id \notin gone
                 /\ \A r \in reserved' : Hash(r) # Hash(pipe[i].id)
                 /\ \A j \in DOMAIN pipe' : pipe'[j].id = pipe[i].id => i <= j
      <4>1. /\ sock[Hash(pipe[i].id)].type = "RESERVE" /\ sock[Hash(pipe[i].id)].id = pipe[i].id
            /\ pipe[i].id \notin gone
            /\ \A r \in reserved : Hash(r) # Hash(pipe[i].id)
            /\ \A j \in DOMAIN pipe : pipe[j].id = pipe[i].id => i <= j
        BY <1>0, <3>1, <3>4 DEF Commanded
      <4>2. Hash(pipe[i].id) # k /\ Hash(pipe[i].id) \in SlotsOf BY <1>1, <1>3, <3>2, <4>1, HashIn
      <4>3. sock'[Hash(pipe[i].id)] = sock[Hash(pipe[i].id)] BY <1>9, <4>2
      <4>4. ASSUME NEW j \in DOMAIN pipe', pipe'[j].id = pipe[i].id PROVE i <= j
        <5>1. CASE j \in 1 .. Len(pipe) BY <1>12, <4>1, <4>4, <5>1
        <5>2. CASE j \notin 1 .. Len(pipe) BY <1>12, <2>2, <5>2
        <5>3. QED BY <5>1, <5>2
      <4>5. QED BY <1>16, <4>1, <4>3, <4>4
    <3>5. QED BY <1>1, <3>1, <3>3, <3>4
  <2>3. QED BY <1>12, <2>1, <2>2
<1>19. Past' BY <1>0, <1>1 DEF Past
<1>20. SocketInv' BY <1>13, <1>14, <1>15, <1>17, <1>18, <1>19 DEF SocketInv
<1>21. ASSUME NEW o \in owed' PROVE (Asked(o) \/ Half(o))'
  <2>1. o \in owed /\ o \in Nat /\ Hash(o) \in SlotsOf BY <1>0, <1>1, HashIn DEF SocketType
  <2>2. CASE Asked(o)
    <3>1. PICK i \in DOMAIN pipe : pipe[i].id = o /\ pipe[i].op \in {"K", "H"} BY <2>2 DEF Asked
    <3>2. i \in DOMAIN pipe' /\ pipe'[i] = pipe[i] BY <1>12
    <3>3. QED BY <3>1, <3>2 DEF Asked
  <2>3. CASE Half(o)
    <3>1. Hash(o) # k BY <1>4, <2>3 DEF Half, HalfSlot
    <3>2. sock'[Hash(o)] = sock[Hash(o)] BY <1>9, <2>1, <3>1
    <3>3. QED BY <2>3, <3>2 DEF Half, HalfSlot
  <2>4. QED BY <2>1, <2>2, <2>3 DEF Waited
<1>22. Waited' BY <1>21 DEF Waited
<1>23. QED BY <1>20, <1>22

(* send_request of a command about a socket that was opened before.          *)
LEMMA AskKeeps ==
  ASSUME SocketInv, Waited, NEW id \in Nat, NEW op \in {"S", "K", "H", "D", "P"}, NEW n \in Nat,
         Ask(op, id, n), posted' \in Seq([id : Ids, op : {"D", "P"}]),
         \/ owed' = owed
         \/ owed' = owed \cup {id} /\ op \in {"K", "H"}
  PROVE  SocketInv' /\ Waited'
<1>0. SocketType /\ SlotsSound /\ Placed /\ Held /\ Commanded /\ Past BY DEF SocketInv
<1>1. /\ id <= alloc_id /\ id \notin reserved /\ pipe' = Append(pipe, [op |-> op, id |-> id, n |-> n])
      /\ UNCHANGED <<sock, alloc_id, reserved, ev, gone>>
  BY DEF Ask
<1>2. PICK c \in Commands : c = [op |-> op, id |-> id, n |-> n] BY DEF Commands
<1>3. c.id = id /\ c.op = op BY <1>2
<1>4. /\ pipe' \in Seq(Commands) /\ DOMAIN pipe = 1 .. Len(pipe) /\ DOMAIN pipe' = 1 .. Len(pipe) + 1
      /\ Len(pipe) \in Nat /\ pipe'[Len(pipe) + 1] = c
      /\ \A i \in 1 .. Len(pipe) : pipe'[i] = pipe[i]
  BY <1>0, <1>1, <1>2, PipeWritten DEF SocketType
<1>5. SocketType' BY <1>0, <1>1, <1>4 DEF SocketType
<1>6. SlotsSound' /\ Placed' /\ Held' /\ Past' BY <1>0, <1>1 DEF SlotsSound, Placed, Held, Past
<1>7. Commanded'
  <2> SUFFICES ASSUME NEW i \in DOMAIN pipe'
               PROVE  /\ pipe'[i].id <= alloc_id /\ pipe'[i].id \notin reserved
                      /\ Opens(pipe'[i]) =>
                           /\ sock[Hash(pipe'[i].id)].type = "RESERVE"
                           /\ sock[Hash(pipe'[i].id)].id = pipe'[i].id
                           /\ pipe'[i].id \notin gone
                           /\ \A r \in reserved : Hash(r) # Hash(pipe'[i].id)
                           /\ \A j \in DOMAIN pipe' : pipe'[j].id = pipe'[i].id => i <= j
    BY <1>1 DEF Commanded
  <2>1. CASE i = Len(pipe) + 1
    <3>1. pipe'[i] = c BY <1>4, <2>1
    <3>2. ~Opens(pipe'[i]) BY <1>3, <3>1 DEF Opens
    <3>3. QED BY <1>1, <1>3, <3>1, <3>2
  <2>2. CASE i \in 1 .. Len(pipe)
    <3>1. pipe'[i] = pipe[i] /\ i \in DOMAIN pipe BY <1>4, <2>2
    <3>2. ASSUME Opens(pipe[i]), NEW j \in DOMAIN pipe', pipe'[j].id = pipe[i].id PROVE i <= j
      <4>1. CASE j \in 1 .. Len(pipe) BY <1>0, <1>4, <3>1, <3>2, <4>1 DEF Commanded
      <4>2. CASE j \notin 1 .. Len(pipe) BY <1>4, <2>2, <4>2
      <4>3. QED BY <4>1, <4>2
    <3>3. QED BY <1>0, <3>1, <3>2 DEF Commanded
  <2>3. QED BY <1>4, <2>1, <2>2
<1>8. ASSUME NEW o \in owed' PROVE (Asked(o) \/ Half(o))'
  <2>1. CASE o \in owed /\ Asked(o)
    <3>1. PICK i \in DOMAIN pipe : pipe[i].id = o /\ pipe[i].op \in {"K", "H"} BY <2>1 DEF Asked
    <3>2. i \in DOMAIN pipe' /\ pipe'[i] = pipe[i] BY <1>4
    <3>3. QED BY <3>1, <3>2 DEF Asked
  <2>2. CASE o \in owed /\ Half(o) BY <1>1, <2>2 DEF Half
  <2>3. CASE o \notin owed
    <3>1. o = id /\ op \in {"K", "H"} BY <2>3
    <3>2. Len(pipe) + 1 \in DOMAIN pipe' BY <1>4
    <3>3. QED BY <1>3, <1>4, <3>1, <3>2 DEF Asked
  <2>4. QED BY <2>1, <2>2, <2>3 DEF Waited
<1>9. Waited' BY <1>8 DEF Waited
<1>10. QED BY <1>5, <1>6, <1>7, <1>9 DEF SocketInv

(* socket_server_start, _close, _shutdown, _send and _send_lowpriority.      *)
LEMMA RequestKeeps ==
  ASSUME SocketInv, Waited, NEW id \in Ids,
         \/ Start(id) \/ Close(id, "K") \/ Close(id, "H")
         \/ \E op \in {"D", "P"} : SendRequest(id, op)
  PROVE  SocketInv' /\ Waited'
<1>0. id \in Nat /\ posted \in Seq([id : Ids, op : {"D", "P"}])
  <2>1. MaxId \in Nat BY SocketAssumption DEF SocketAssumption
  <2>2. QED BY <2>1 DEF SocketInv, SocketType, Ids
<1>1. PICK z \in Nat : z = 0 OBVIOUS
<1>2. CASE Start(id)
  <2>1. PICK op \in {"S", "K", "H", "D", "P"} : op = "S" OBVIOUS
  <2>2. Ask(op, id, z) /\ posted' = posted /\ owed' = owed BY <1>1, <1>2, <2>1 DEF Start
  <2>3. QED BY <1>0, <2>2, AskKeeps
<1>3. ASSUME NEW op \in {"K", "H"}, Close(id, op) PROVE SocketInv' /\ Waited'
  <2>1. op \in {"S", "K", "H", "D", "P"} OBVIOUS
  <2>2. Ask(op, id, z) /\ posted' = posted /\ owed' = owed \cup {id} BY <1>1, <1>3 DEF Close
  <2>3. QED BY <1>0, <2>1, <2>2, AskKeeps
<1>4. ASSUME NEW op \in {"D", "P"}, SendRequest(id, op) PROVE SocketInv' /\ Waited'
  <2>1. op \in {"S", "K", "H", "D", "P"} OBVIOUS
  <2>2. PICK n \in Nat : n = Len(posted) + 1 BY <1>0
  <2>3. Ask(op, id, n) /\ posted' = Append(posted, [id |-> id, op |-> op]) /\ owed' = owed
    BY <1>4, <2>2 DEF SendRequest
  <2>4. [id |-> id, op |-> op] \in [id : Ids, op : {"D", "P"}] OBVIOUS
  <2>5. posted' \in Seq([id : Ids, op : {"D", "P"}]) BY <1>0, <2>3, <2>4
  <2>6. QED BY <1>0, <2>1, <2>3, <2>5, AskKeeps
<1>5. QED BY <1>2, <1>3, <1>4
-----------------------------------------------------------------------------
(* The invariant of the socket server.                                      *)

(* socket_server_create: every slot is free.                                *)
LEMMA SocketInitInv == SocketInit => SocketInv /\ Waited
<1> SUFFICES ASSUME SocketInit PROVE SocketInv /\ Waited OBVIOUS
<1>0. FreeSlot \in SlotType /\ SlotSound(FreeSlot) /\ FreeSlot.type = "INVALID"
  <2>1. FreeSlot \in SlotType
    <3>1. FALSE \in BOOLEAN OBVIOUS
    <3>2. <<>> \in Seq(Nat \X Nat) OBVIOUS
    <3>3. PICK e \in Seq(Nat \X Nat) : e = <<>> BY <3>2
    <3>4. QED BY <3>1, <3>3 DEF FreeSlot, SlotType
  <2>2. FreeSlot.type = "INVALID" /\ FreeSlot.fd = "none" BY DEF FreeSlot
  <2>3. QED BY <2>1, <2>2 DEF SlotSound, InUse
<1>1. \A k \in SlotsOf : sock[k] = FreeSlot BY DEF SocketInit
<1>2. sock \in [SlotsOf -> SlotType] BY <1>0 DEF SocketInit
<1>3. SocketType BY <1>2 DEF SocketInit, SocketType
<1>4. SlotsSound BY <1>0, <1>1 DEF SlotsSound
<1>5. Placed BY <1>0, <1>1 DEF Placed, InUse
<1>6. Held /\ Past BY DEF SocketInit, Held, Past
<1>7. Commanded BY DEF SocketInit, Commanded
<1>8. Waited BY DEF SocketInit, Waited
<1>9. QED BY <1>3, <1>4, <1>5, <1>6, <1>7, <1>8 DEF SocketInv

(* Every step of the socket thread and of the services keeps it.            *)
LEMMA SocketNextInv ==
  ASSUME SocketInv, Waited, [SocketNext]_sockVars
  PROVE  SocketInv' /\ Waited'
<1>0. ev \in Seq(Events) BY DEF SocketInv, SocketType
<1>1. CASE UNCHANGED sockVars BY <1>0, <1>1, EventIdle DEF sockVars
<1>2. CASE Poll
  <2>1. CASE OpenSocket \/ ListenSocket \/ BindSocket BY <2>1, OpenKeeps
  <2>2. CASE StartSocket BY <2>2, StartKeeps
  <2>3. CASE CloseSocket
    <3>1. CASE Abort BY <1>0, <3>1, EventIdle DEF Abort
    <3>2. CASE ~Abort BY <2>3, <3>2, CloseKeeps
    <3>3. QED BY <3>1, <3>2
  <2>4. CASE SendSocket BY <2>4, SendKeeps
  <2>5. CASE ClearClosedEvent \/ NoCommand \/ Wait \/ NewFdAborts BY <2>5, QuietKeeps
  <2>6. CASE SkipEvent BY <2>6, SkipKeeps
  <2>7. CASE ReportConnect BY <2>7, ConnectKeeps
  <2>8. CASE ReportAccept BY <2>8, AcceptKeeps
  <2>9. CASE ReadEvent BY <2>9, ReadKeeps
  <2>10. CASE WriteEvent BY <2>10, WriteKeeps
  <2>11. QED BY <1>2, <2>1, <2>2, <2>3, <2>4, <2>5, <2>6, <2>7, <2>8, <2>9, <2>10 DEF Poll
<1>3. CASE Reserve BY <1>3, ReserveKeeps
<1>4. ASSUME NEW id \in Ids, NEW op \in {"O", "L", "B"}, OpenRequest(id, op)
      PROVE  SocketInv' /\ Waited'
  BY <1>4, OpenRequestKeeps
<1>5. ASSUME NEW id \in Ids,
             \/ Start(id) \/ Close(id, "K") \/ Close(id, "H")
             \/ \E op \in {"D", "P"} : SendRequest(id, op)
      PROVE  SocketInv' /\ Waited'
  BY <1>5, RequestKeeps
<1>6. QED BY <1>1, <1>2, <1>3, <1>4, <1>5 DEF SocketNext
-----------------------------------------------------------------------------
(* What the services hear.                                                  *)

(* A slot in use is not one whose end was reported.                         *)
LEMMA UsedIsKnown ==
  ASSUME SocketInv, NEW k \in SlotsOf, InUse(sock[k])
  PROVE  sock[k].id \notin gone
  BY DEF SocketInv, Placed

(* The message of a command or of an event.                                 *)
LEMMA ToldIs ==
  ASSUME NEW type, NEW id, CtrlEnd(type, id) \/ Tell(type, id), result' # result
  PROVE  result'.type = type /\ result'.id = id
  BY DEF CtrlEnd, Tell, TellNobody

(* An open, an accept or data is of an id whose end was not reported.        *)
LEMMA HeardIsKnown ==
  ASSUME SocketInv, SocketNext, result' # result, result'.type \in {"data", "open", "accept"}
  PROVE  result'.id \notin gone
<1>0. SocketType /\ Commanded /\ Past BY DEF SocketInv
<1>1. ASSUME NEW type \in {"close", "error", "nothing"}, NEW id, CtrlEnd(type, id) \/ Tell(type, id)
      PROVE  FALSE
  <2>1. result'.type = type BY <1>1, ToldIs
  <2>2. QED BY <2>1
<1>2. CASE OpenSocket \/ ListenSocket \/ BindSocket
  <2>1. pipe # <<>> /\ Opens(Head(pipe))
    BY <1>2 DEF OpenSocket, ListenSocket, BindSocket, Command, Opens
  <2>2. Head(pipe).id \notin gone BY <1>0, <2>1, PipeRead DEF SocketType, Commanded
  <2>3. PICK type : CtrlEnd(type, Head(pipe).id)
    BY <1>2 DEF OpenSocket, ListenSocket, BindSocket
  <2>4. QED BY <2>2, <2>3, ToldIs
<1>3. CASE StartSocket
  <2>1. pipe # <<>> BY <1>3 DEF StartSocket, Command
  <2>2. PICK h \in Nat : h = Head(pipe).id BY <1>0, <2>1, PipeRead DEF SocketType, Commands
  <2>3. PICK k \in SlotsOf : k = Hash(h) BY HashIn
  <2>4. ASSUME Live(h), sock[k].type \in {"PACCEPT", "PLISTEN", "CONNECTED"}, CtrlEnd("open", h)
        PROVE  result'.id \notin gone
    <3>1. sock[k].id = h /\ InUse(sock[k]) BY <2>3, <2>4 DEF Live, InUse
    <3>2. QED BY <2>4, <3>1, UsedIsKnown, ToldIs
  <2>5. \/ CtrlEnd("error", h) \/ CtrlEnd("nothing", h)
        \/ /\ CtrlEnd("open", h)
           /\ Live(h) /\ sock[k].type \in {"PACCEPT", "PLISTEN", "CONNECTED"}
    BY <1>3, <2>2, <2>3 DEF StartSocket
  <2>6. QED BY <1>1, <2>4, <2>5
<1>4. CASE CloseSocket \/ SendSocket
  <2>1. PICK h : h = Head(pipe).id OBVIOUS
  <2>2. Abort \/ CtrlEnd("close", h) \/ CtrlEnd("nothing", h)
    <3>1. CASE CloseSocket BY <2>1, <3>1 DEF CloseSocket
    <3>2. CASE SendSocket BY <2>1, <3>2 DEF SendSocket
    <3>3. QED BY <1>4, <3>1, <3>2
  <2>3. ~Abort BY DEF Abort
  <2>4. QED BY <1>1, <2>2, <2>3
<1>5. CASE ReportConnect
  <2>0. EventOf({"CONNECTING"}) BY <1>5 DEF ReportConnect
  <2>1. PICK k \in SlotsOf : k = Head(ev).s BY <2>0, EventSlot
  <2>2. InUse(sock[k]) BY <2>0, <2>1, EventSlot DEF InUse
  <2>3. PICK type : Tell(type, sock[k].id) BY <1>5, <2>1 DEF ReportConnect
  <2>4. QED BY <2>2, <2>3, UsedIsKnown, ToldIs
<1>6. CASE ReportAccept
  <2>0. EventOf({"LISTEN"}) BY <1>6 DEF ReportAccept
  <2>1. PICK k \in SlotsOf : k = Head(ev).s BY <2>0, EventSlot
  <2>2. InUse(sock[k]) BY <2>0, <2>1, EventSlot DEF InUse
  <2>a. ASSUME NEW id, TellLimit(id) PROVE FALSE
    <3>1. result'.type = "error" BY <2>a DEF TellLimit
    <3>2. QED BY <3>1
  <2>3. Tell("accept", sock[k].id) BY <1>6, <2>1, <2>a DEF ReportAccept, TellNobody
  <2>4. QED BY <2>2, <2>3, UsedIsKnown, ToldIs
<1>7. CASE ReadEvent
  <2>0. EventOf(Others) BY <1>7 DEF ReadEvent
  <2>1. PICK k \in SlotsOf : k = Head(ev).s BY <2>0, EventSlot
  <2>2. sock[k].type \in Others BY <2>0, <2>1, EventSlot
  <2>3. sock[k].type # "RESERVE" /\ \E type : Tell(type, sock[k].id)
    BY <1>7, <2>1 DEF ReadEvent, Abort, TellNobody
  <2>4. InUse(sock[k]) BY <2>2, <2>3 DEF InUse, Others
  <2>5. QED BY <2>3, <2>4, UsedIsKnown, ToldIs
<1>8. CASE WriteEvent
  <2>1. \E id : Tell("close", id) BY <1>8 DEF WriteEvent, Abort, TellNobody
  <2>2. QED BY <1>1, <2>1
<1>9. CASE NewFdAborts \/ ClearClosedEvent \/ NoCommand \/ Wait \/ SkipEvent \/ Reserve
  BY <1>9 DEF NewFdAborts, Abort, ClearClosedEvent, NoCommand, Wait, SkipEvent, TellNobody, Reserve
<1>10. ASSUME NEW id, NEW op, OpenRequest(id, op) PROVE FALSE BY <1>10 DEF OpenRequest
<1>11. ASSUME NEW id, NEW op, NEW n, Ask(op, id, n) PROVE FALSE BY <1>11 DEF Ask
<1>12. CASE Poll BY <1>2, <1>3, <1>4, <1>5, <1>6, <1>7, <1>8, <1>9, <1>12 DEF Poll
<1>13. QED BY <1>9, <1>10, <1>11, <1>12 DEF SocketNext, Start, Close, SendRequest
(***************************************************************************)
(* The listeners that reported an error at the limit of files.              *)
(***************************************************************************)
Open(s) == s.type \in {"LISTEN", "HALFCLOSE"}

(* Such a listener stays open until its end is reported.                    *)
Listening ==
  \A id \in limited : id \in gone \/
    \E k \in SlotsOf : k = Hash(id) /\ sock[k].id = id /\ Open(sock[k])

(* A slot stays open under its id, or its end is reported.                  *)
StaysOpen(k) ==
  Open(sock[k]) => \/ sock'[k].id = sock[k].id /\ Open(sock'[k])
                   \/ sock[k].id \in gone'

LEMMA OpenKept ==
  ASSUME Listening, limited' \subseteq limited, gone \subseteq gone',
         \A k \in SlotsOf : StaysOpen(k)
  PROVE  Listening'
  BY DEF Listening, StaysOpen

(* Work on one slot.                                                        *)
LEMMA OneOpen ==
  ASSUME SocketType, Listening, UNCHANGED limited, gone \subseteq gone',
         NEW k \in SlotsOf, NEW t, sock' = [sock EXCEPT ![k] = t],
         ~Open(sock[k]) \/ (t.id = sock[k].id /\ Open(t)) \/ sock[k].id \in gone'
  PROVE  Listening'
<1>1. sock'[k] = t /\ \A j \in SlotsOf : j # k => sock'[j] = sock[j] BY DEF SocketType
<1>2. \A j \in SlotsOf : StaysOpen(j) BY <1>1 DEF StaysOpen
<1>3. QED BY <1>2, OpenKept

(* What was told before stays told.                                         *)
LEMMA ToldStays ==
  ASSUME NEW type, NEW id, CtrlEnd(type, id) \/ Tell(type, id)
  PROVE  /\ UNCHANGED limited /\ gone \subseteq gone'
         /\ type \in {"close", "error"} => id \in gone'
  BY DEF CtrlEnd, Tell, TellNobody

(* Nothing about a slot or a listener changes.                              *)
LEMMA OpenRests ==
  ASSUME Listening, UNCHANGED <<sock, limited>>, gone \subseteq gone'
  PROVE  Listening'
<1>1. \A k \in SlotsOf : StaysOpen(k) BY DEF StaysOpen
<1>2. QED BY <1>1, OpenKept

(* A command is carried out.                                                *)
LEMMA CommandListens ==
  ASSUME SocketInv, Listening,
         OpenSocket \/ ListenSocket \/ BindSocket \/ StartSocket \/ CloseSocket \/ SendSocket
  PROVE  Listening'
<1>0. SocketType /\ Commanded BY DEF SocketInv
<1>1. pipe # <<>>
  BY DEF OpenSocket, ListenSocket, BindSocket, StartSocket, CloseSocket, SendSocket, Command
<1>2. PICK h \in Nat : h = Head(pipe).id BY <1>0, <1>1, PipeRead DEF SocketType, Commands
<1>3. PICK k \in SlotsOf : k = Hash(h) BY HashIn
<1>4. sock[k] \in SlotType BY <1>0 DEF SocketType
<1>5. ASSUME NEW type, CtrlEnd(type, h), sock' = sock PROVE Listening'
  BY <1>5, ToldStays, OpenRests
<1>6. ASSUME NEW type, CtrlEnd(type, h), NEW t, sock' = [sock EXCEPT ![k] = t],
             \/ ~Open(sock[k])
             \/ t.id = sock[k].id /\ Open(t)
             \/ Live(h) /\ type = "close"
      PROVE  Listening'
  <2>1. UNCHANGED limited /\ gone \subseteq gone' /\ (type = "close" => h \in gone')
    BY <1>6, ToldStays
  <2>2. Live(h) => sock[k].id = h BY <1>3 DEF Live
  <2>3. QED BY <1>0, <1>6, <2>1, <2>2, OneOpen
<1>7. CASE OpenSocket \/ ListenSocket \/ BindSocket
  <2>1. Opens(Head(pipe)) BY <1>7 DEF OpenSocket, ListenSocket, BindSocket, Command, Opens
  <2>2. sock[k].type = "RESERVE" BY <1>0, <1>1, <1>2, <1>3, <2>1, PipeRead DEF SocketType, Commanded
  <2>3. ~Open(sock[k]) BY <2>2 DEF Open
  <2>4. PICK m : CtrlEnd(m, h) BY <1>2, <1>7 DEF OpenSocket, ListenSocket, BindSocket
  <2>5. PICK t : sock' = [sock EXCEPT ![k] = t]
    BY <1>2, <1>3, <1>7 DEF OpenSocket, ListenSocket, BindSocket
  <2>6. QED BY <1>6, <2>3, <2>4, <2>5
<1>8. CASE StartSocket
  <2>1. PICK m : CtrlEnd(m, h) BY <1>2, <1>8 DEF StartSocket
  <2>2. \/ sock' = sock
        \/ sock[k].type \in {"PACCEPT", "PLISTEN"} /\ \E t : sock' = [sock EXCEPT ![k] = t]
    BY <1>2, <1>3, <1>8 DEF StartSocket
  <2>3. sock[k].type \in {"PACCEPT", "PLISTEN"} => ~Open(sock[k]) BY DEF Open
  <2>4. QED BY <1>5, <1>6, <2>1, <2>2, <2>3
<1>9. CASE SendSocket
  <2>1. PICK m : CtrlEnd(m, h) BY <1>2, <1>9 DEF SendSocket
  <2>2. \/ sock' = sock
        \/ sock[k].type \notin {"HALFCLOSE", "LISTEN"} /\ \E t : sock' = [sock EXCEPT ![k] = t]
    BY <1>2, <1>3, <1>9 DEF SendSocket, WritesAtOnce
  <2>3. sock[k].type \notin {"HALFCLOSE", "LISTEN"} => ~Open(sock[k]) BY DEF Open
  <2>4. QED BY <1>5, <1>6, <2>1, <2>2, <2>3
<1>10. CASE CloseSocket
  <2>1. CASE ~Live(h)
    <3>1. CtrlEnd("close", h) /\ sock' = sock BY <1>2, <1>10, <2>1 DEF CloseSocket
    <3>2. QED BY <1>5, <3>1
  <2>2. CASE Abort BY <2>2, OpenRests DEF Abort
  <2>3. CASE Live(h) /\ ~Abort
    <3>1. PICK a \in IF Empty(sock[k]) THEN {[s |-> sock[k], w |-> <<>>]} ELSE SendBuffer(sock[k]) :
            LET over == a.s.type = "INVALID" \/ Head(pipe).op = "H" \/ Empty(a.s) IN
            /\ sock' = [sock EXCEPT ![k] = IF over THEN ForceClose(a.s)
                                           ELSE [a.s EXCEPT !.type = "HALFCLOSE"]]
            /\ CtrlEnd(IF over THEN "close" ELSE "nothing", h)
      BY <1>2, <1>3, <1>10, <2>3 DEF CloseSocket
    <3>2. a.s \in SlotType /\ a.s.id = sock[k].id
      <4>1. CASE Empty(sock[k]) BY <1>4, <3>1, <4>1
      <4>2. CASE ~Empty(sock[k]) BY <1>4, <3>1, <4>2, BufferSent
      <4>3. QED BY <4>1, <4>2
    <3>3. PICK z \in SlotType : z = a.s BY <3>2
    <3>4. CASE a.s.type = "INVALID" \/ Head(pipe).op = "H" \/ Empty(a.s)
      <4>1. PICK m : m = "close" OBVIOUS
      <4>2. CtrlEnd(m, h) /\ \E t : sock' = [sock EXCEPT ![k] = t] BY <3>1, <3>4, <4>1
      <4>3. QED BY <1>6, <2>3, <4>1, <4>2
    <3>5. CASE ~(a.s.type = "INVALID" \/ Head(pipe).op = "H" \/ Empty(a.s))
      <4>1. PICK t : t = [z EXCEPT !.type = "HALFCLOSE"] OBVIOUS
      <4>2. t.id = sock[k].id /\ Open(t) BY <3>2, <3>3, <4>1 DEF SlotType, Open
      <4>3. sock' = [sock EXCEPT ![k] = t] /\ CtrlEnd("nothing", h) BY <3>1, <3>3, <3>5, <4>1
      <4>4. QED BY <1>6, <4>2, <4>3
    <3>6. QED BY <3>4, <3>5
  <2>4. QED BY <2>1, <2>2, <2>3
<1>11. QED BY <1>7, <1>8, <1>9, <1>10

(* An event is treated.                                                     *)
LEMMA EventListens ==
  ASSUME SocketInv, Listening, ReportConnect \/ ReportAccept \/ ReadEvent \/ WriteEvent
  PROVE  Listening'
<1>0. SocketType BY DEF SocketInv
<1>1. PICK types : EventOf(types) BY DEF ReportConnect, ReportAccept, ReadEvent, WriteEvent
<1>2. PICK k \in SlotsOf : k = Head(ev).s BY <1>1, EventSlot
<1>3. sock[k] \in SlotType BY <1>0 DEF SocketType
<1>4. ASSUME NEW type, Tell(type, sock[k].id), NEW t, sock' = [sock EXCEPT ![k] = t],
             ~Open(sock[k]) \/ type \in {"close", "error"}
      PROVE  Listening'
  <2>1. /\ UNCHANGED limited /\ gone \subseteq gone'
        /\ type \in {"close", "error"} => sock[k].id \in gone'
    BY <1>4, ToldStays
  <2>2. QED BY <1>0, <1>4, <2>1, OneOpen
<1>5. CASE ReportConnect
  <2>0. EventOf({"CONNECTING"}) BY <1>5 DEF ReportConnect
  <2>1. ~Open(sock[k]) BY <1>2, <2>0, EventSlot DEF Open
  <2>2. PICK m : Tell(m, sock[k].id) BY <1>2, <1>5 DEF ReportConnect
  <2>3. PICK b : b = ~Empty(sock[k]) OBVIOUS
  <2>4. \/ sock' = [sock EXCEPT ![k].type = "CONNECTED", ![k].armed = ~Empty(sock[k])]
        \/ sock' = [sock EXCEPT ![k] = ForceClose(sock[k])]
    BY <1>2, <1>5 DEF ReportConnect
  <2>5. [sock EXCEPT ![k].type = "CONNECTED", ![k].armed = ~Empty(sock[k])]
          = [sock EXCEPT ![k] = [sock[k] EXCEPT !.type = "CONNECTED", !.armed = ~Empty(sock[k])]]
    BY <1>0, <1>3 DEF SocketType, SlotType
  <2>6. PICK t : sock' = [sock EXCEPT ![k] = t] BY <2>4, <2>5
  <2>7. QED BY <1>4, <2>1, <2>2, <2>6
<1>6. CASE ReportAccept
  <2>0. EventOf({"LISTEN"}) BY <1>6 DEF ReportAccept
  <2>1. sock[k].type = "LISTEN" BY <1>2, <2>0, EventSlot
  <2>2. CASE TellNobody /\ sock' = sock BY <2>2, OpenRests DEF TellNobody
  <2>3. CASE TellLimit(sock[k].id) /\ sock' = sock
    <3>1. gone' = gone /\ limited' = limited \cup {sock[k].id} BY <2>3 DEF TellLimit
    <3>2. Hash(sock[k].id) = k BY <2>1 DEF SocketInv, Placed, InUse
    <3>3. Open(sock[k]) BY <2>1 DEF Open
    <3>4. QED BY <2>3, <3>1, <3>2, <3>3 DEF Listening
  <2>4. ASSUME NEW id, sock[Hash(id)].type = "INVALID", Hash(id) \in SlotsOf, NEW t,
               sock' = [sock EXCEPT ![Hash(id)] = t], Tell("accept", sock[k].id)
        PROVE  Listening'
    <3>1. ~Open(sock[Hash(id)]) BY <2>4 DEF Open
    <3>2. PICK m : m = "accept" OBVIOUS
    <3>3. UNCHANGED limited /\ gone \subseteq gone' BY <2>4, <3>2, ToldStays
    <3>4. QED BY <1>0, <2>4, <3>1, <3>3, OneOpen
  <2>5. \A d \in 1 .. MaxSocket : Hash(alloc_id + d) \in SlotsOf
    <3>1. MaxSocket \in Nat BY SocketAssumption DEF SocketAssumption
    <3>2. \A d \in 1 .. MaxSocket : alloc_id + d \in Nat BY <1>0, <3>1 DEF SocketType
    <3>3. QED BY <3>2, HashIn
  <2>6. QED BY <1>2, <1>6, <2>2, <2>3, <2>4, <2>5 DEF ReportAccept
<1>7. CASE ReadEvent
  <2>1. CASE Abort BY <2>1, OpenRests DEF Abort
  <2>2. CASE sock' = sock /\ (TellNobody \/ Tell("data", sock[k].id))
    <3>1. UNCHANGED limited /\ gone' = gone BY <2>2 DEF TellNobody, Tell
    <3>2. QED BY <2>2, <3>1, OpenRests
  <2>3. ASSUME NEW m \in {"close", "error"}, Tell(m, sock[k].id),
               sock' = [sock EXCEPT ![k] = ForceClose(sock[k])]
        PROVE  Listening'
    BY <1>4, <2>3
  <2>4. QED BY <1>2, <1>7, <2>1, <2>2, <2>3 DEF ReadEvent
<1>8. CASE WriteEvent
  <2>1. CASE Abort BY <2>1, OpenRests DEF Abort
  <2>2. ASSUME NEW a \in SendBuffer(sock[k]), sock' = [sock EXCEPT ![k] = a.s],
               IF a.s.type = "INVALID" THEN Tell("close", sock[k].id) ELSE TellNobody
        PROVE  Listening'
    <3>1. CASE a.s.type = "INVALID"
      <4>1. PICK m : m = "close" OBVIOUS
      <4>2. Tell(m, sock[k].id) BY <2>2, <3>1, <4>1
      <4>3. QED BY <1>4, <2>2, <4>1, <4>2
    <3>2. CASE a.s.type # "INVALID"
      <4>1. a.s.id = sock[k].id /\ a.s.type = sock[k].type BY <1>3, <3>2, BufferSent
      <4>2. UNCHANGED limited /\ gone' = gone BY <2>2, <3>2 DEF TellNobody
      <4>3. Open(sock[k]) => Open(a.s) BY <4>1 DEF Open
      <4>4. QED BY <1>0, <2>2, <4>1, <4>2, <4>3, OneOpen
    <3>3. QED BY <3>1, <3>2
  <2>3. QED BY <1>2, <1>8, <2>1, <2>2 DEF WriteEvent
<1>9. QED BY <1>5, <1>6, <1>7, <1>8

(* The services take free slots and write into reserved ones.               *)
LEMMA RequestListens ==
  ASSUME SocketInv, Listening,
         Reserve \/ (\E id \in Ids, op \in {"O", "L", "B"} : OpenRequest(id, op))
  PROVE  Listening'
<1>0. SocketType BY DEF SocketInv
<1>1. CASE Reserve
  <2>1. PICK d \in 1 .. MaxSocket :
          /\ sock[Hash(alloc_id + d)].type = "INVALID"
          /\ sock' = [sock EXCEPT ![Hash(alloc_id + d)].type = "RESERVE"]
    BY <1>1 DEF Reserve
  <2>2. Hash(alloc_id + d) \in SlotsOf
    <3>1. MaxSocket \in Nat BY SocketAssumption DEF SocketAssumption
    <3>2. alloc_id + d \in Nat BY <1>0, <3>1 DEF SocketType
    <3>3. QED BY <3>2, HashIn
  <2>3. PICK k \in SlotsOf : k = Hash(alloc_id + d) BY <2>2
  <2>4. PICK t : t = [sock[k] EXCEPT !.type = "RESERVE"] OBVIOUS
  <2>5. sock' = [sock EXCEPT ![k] = t] BY <2>1, <2>3, <2>4
  <2>6. ~Open(sock[k]) BY <2>1, <2>3 DEF Open
  <2>7. UNCHANGED <<gone, limited>> BY <1>1 DEF Reserve
  <2>8. QED BY <1>0, <2>5, <2>6, <2>7, OneOpen
<1>2. ASSUME NEW id \in Ids, NEW op \in {"O", "L", "B"}, OpenRequest(id, op) PROVE Listening'
  <2>1. id \in reserved /\ sock' = [sock EXCEPT ![Hash(id)].id = id] /\ UNCHANGED <<gone, limited>>
    BY <1>2 DEF OpenRequest
  <2>2. id \in Nat /\ sock[Hash(id)].type = "RESERVE" BY <1>0, <2>1 DEF SocketType, SocketInv, Held
  <2>3. PICK k \in SlotsOf : k = Hash(id) BY <2>2, HashIn
  <2>4. PICK t : t = [sock[k] EXCEPT !.id = id] OBVIOUS
  <2>5. sock' = [sock EXCEPT ![k] = t] BY <2>1, <2>3, <2>4
  <2>6. ~Open(sock[k]) BY <2>2, <2>3 DEF Open
  <2>7. QED BY <1>0, <2>1, <2>5, <2>6, OneOpen
<1>3. QED BY <1>1, <1>2

(* Every step keeps them.                                                   *)
LEMMA ListeningStays ==
  ASSUME SocketInv, Listening, [SocketNext]_sockVars
  PROVE  Listening'
<1>1. CASE NewFdAborts \/ ClearClosedEvent \/ NoCommand \/ Wait \/ SkipEvent \/ UNCHANGED sockVars
  <2>1. UNCHANGED <<sock, gone, limited>>
    BY <1>1 DEF NewFdAborts, Abort, ClearClosedEvent, NoCommand, Wait, SkipEvent, TellNobody, sockVars
  <2>2. QED BY <2>1, OpenRests
<1>2. ASSUME NEW id, NEW op, NEW n, Ask(op, id, n) PROVE Listening'
  BY <1>2, OpenRests DEF Ask
<1>3. CASE Poll BY <1>1, <1>3, CommandListens, EventListens DEF Poll
<1>4. QED BY <1>1, <1>2, <1>3, RequestListens DEF SocketNext, Start, Close, SendRequest

(* A listener that stays open is heard of by its connections only.          *)
LEMMA LimitedAccepts ==
  ASSUME SocketInv, Listening, SocketNext, result' # result,
         result'.type \in {"data", "open", "accept"}, result'.id \in limited
  PROVE  result'.type = "accept"
<1>0. SocketType /\ Commanded BY DEF SocketInv
<1>1. PICK id : id = result'.id OBVIOUS
<1>2. id \notin gone BY <1>1, HeardIsKnown
<1>3. PICK k \in SlotsOf : k = Hash(id) /\ sock[k].id = id /\ Open(sock[k])
  BY <1>1, <1>2 DEF Listening
<1>4. ASSUME NEW type, NEW who, CtrlEnd(type, who) \/ Tell(type, who)
      PROVE  who = id /\ result'.type = type
  BY <1>1, <1>4, ToldIs
<1>5. CASE OpenSocket \/ ListenSocket \/ BindSocket
  <2>1. pipe # <<>> /\ Opens(Head(pipe))
    BY <1>5 DEF OpenSocket, ListenSocket, BindSocket, Command, Opens
  <2>2. PICK m : CtrlEnd(m, Head(pipe).id) BY <1>5 DEF OpenSocket, ListenSocket, BindSocket
  <2>3. Head(pipe).id = id BY <1>4, <2>2
  <2>4. sock[k].type = "RESERVE" BY <1>0, <1>3, <2>1, <2>3, PipeRead DEF SocketType, Commanded
  <2>5. QED BY <1>3, <2>4 DEF Open
<1>6. CASE StartSocket \/ CloseSocket \/ SendSocket
  <2>1. PICK h : h = Head(pipe).id OBVIOUS
  <2>2. \/ \E m \in {"close", "error", "nothing"} : CtrlEnd(m, h)
        \/ Abort
        \/ CtrlEnd("open", h) /\ sock[Hash(h)].type \in {"PACCEPT", "PLISTEN", "CONNECTED"}
    <3>1. CASE StartSocket BY <2>1, <3>1 DEF StartSocket
    <3>2. CASE CloseSocket BY <2>1, <3>2 DEF CloseSocket
    <3>3. CASE SendSocket BY <2>1, <3>3 DEF SendSocket
    <3>4. QED BY <1>6, <3>1, <3>2, <3>3
  <2>3. ~Abort BY DEF Abort
  <2>4. CASE CtrlEnd("open", h) /\ sock[Hash(h)].type \in {"PACCEPT", "PLISTEN", "CONNECTED"}
    <3>1. h = id BY <1>4, <2>4
    <3>2. QED BY <1>3, <2>4, <3>1 DEF Open
  <2>5. ASSUME NEW m \in {"close", "error", "nothing"}, CtrlEnd(m, h) PROVE FALSE
    <3>1. result'.type = m BY <1>4, <2>5
    <3>2. QED BY <3>1
  <2>6. QED BY <2>2, <2>3, <2>4, <2>5
<1>7. CASE ReportConnect
  <2>0. EventOf({"CONNECTING"}) BY <1>7 DEF ReportConnect
  <2>1. PICK j \in SlotsOf : j = Head(ev).s BY <2>0, EventSlot
  <2>2. sock[j].type = "CONNECTING" BY <2>0, <2>1, EventSlot
  <2>3. PICK m : Tell(m, sock[j].id) BY <1>7, <2>1 DEF ReportConnect
  <2>4. sock[j].id = id /\ Hash(sock[j].id) = j
    BY <1>4, <2>2, <2>3 DEF SocketInv, Placed, InUse
  <2>5. QED BY <1>3, <2>2, <2>4 DEF Open
<1>8. CASE ReportAccept
  <2>a. ASSUME NEW who, TellLimit(who) PROVE FALSE
    <3>1. result'.type = "error" BY <2>a DEF TellLimit
    <3>2. QED BY <3>1
  <2>1. PICK who : Tell("accept", who) BY <1>8, <2>a DEF ReportAccept, TellNobody
  <2>2. QED BY <1>4, <2>1
<1>9. CASE ReadEvent
  <2>0. EventOf(Others) BY <1>9 DEF ReadEvent
  <2>1. PICK j \in SlotsOf : j = Head(ev).s BY <2>0, EventSlot
  <2>2. sock[j].type \in Others BY <2>0, <2>1, EventSlot
  <2>3. \/ \E m \in {"close", "error"} : Tell(m, sock[j].id)
        \/ sock[j].type \notin {"RESERVE", "HALFCLOSE"} /\ Tell("data", sock[j].id)
    BY <1>9, <2>1 DEF ReadEvent, Abort, TellNobody
  <2>4. CASE sock[j].type \notin {"RESERVE", "HALFCLOSE"} /\ Tell("data", sock[j].id)
    <3>1. InUse(sock[j]) BY <2>2, <2>4 DEF InUse, Others
    <3>2. sock[j].id = id /\ Hash(sock[j].id) = j BY <1>4, <2>4, <3>1 DEF SocketInv, Placed
    <3>3. sock[j].type \notin {"LISTEN", "HALFCLOSE"} BY <2>2, <2>4 DEF Others
    <3>4. QED BY <1>3, <3>2, <3>3 DEF Open
  <2>5. ASSUME NEW m \in {"close", "error"}, Tell(m, sock[j].id) PROVE FALSE
    <3>1. result'.type = m BY <1>4, <2>5
    <3>2. QED BY <3>1
  <2>6. QED BY <2>3, <2>4, <2>5
<1>10. CASE WriteEvent
  <2>1. PICK who : Tell("close", who) BY <1>10 DEF WriteEvent, Abort, TellNobody
  <2>2. QED BY <1>4, <2>1
<1>11. CASE NewFdAborts \/ ClearClosedEvent \/ NoCommand \/ Wait \/ SkipEvent \/ Reserve
  BY <1>11 DEF NewFdAborts, Abort, ClearClosedEvent, NoCommand, Wait, SkipEvent, TellNobody, Reserve
<1>12. ASSUME NEW i, NEW op, OpenRequest(i, op) PROVE FALSE BY <1>12 DEF OpenRequest
<1>13. ASSUME NEW i, NEW op, NEW n, Ask(op, i, n) PROVE FALSE BY <1>13 DEF Ask
<1>14. CASE Poll BY <1>5, <1>6, <1>7, <1>8, <1>9, <1>10, <1>11, <1>14 DEF Poll
<1>15. QED BY <1>11, <1>12, <1>13, <1>14 DEF SocketNext, Start, Close, SendRequest
-----------------------------------------------------------------------------
(* The invariant, for every behaviour.                                      *)
THEOREM SocketsSound == SocketSpec => [](SocketInv /\ Waited)
<1>1. SocketInit => SocketInv /\ Waited BY SocketInitInv
<1>2. (SocketInv /\ Waited) /\ [SocketNext]_sockVars => (SocketInv /\ Waited)' BY SocketNextInv
<1>3. QED BY <1>1, <1>2, PTL DEF SocketSpec

(* What waits in the buffers of a connection is waited for: the write event  *)
(* is on, whatever was queued before the socket was connected, written in    *)
(* part or half closed (socket_server.c:610-638, 692-745, 1103-1135).        *)
THEOREM WritesAreArmed == SocketSpec => []WriteArmed
<1>1. SocketInv /\ Waited => WriteArmed
  <2>1. ASSUME SocketInv, NEW k \in SlotsOf, sock[k].fd = "tcp", ~Empty(sock[k]) PROVE sock[k].armed = TRUE
    BY <2>1 DEF SocketInv, SlotsSound, SlotSound
  <2>2. QED BY <2>1, Zenon DEF WriteArmed
<1>2. QED BY <1>1, SocketsSound, PTL

(* A service that closes a socket will be told: the command is still to be    *)
(* read, or the socket is half closed and waits for the write event that ends *)
(* it (socket_server.c:785-809).                                            *)
THEOREM ClosesAreAnswered == SocketSpec => []CloseUnderWay
<1>1. SocketInv /\ Waited => CloseUnderWay BY WaitedIs DEF SocketInv
<1>2. QED BY <1>1, SocketsSound, PTL

(* A service that was told its socket is closed or in error hears nothing     *)
(* more of it, although the slot has a new id and events and commands of the  *)
(* old one are still to be treated (socket_server.c:245-266, 828-858,         *)
(* 1183-1195); a listener that found no file left for a connection and told   *)
(* an error is heard of again, but only by the connections it accepts         *)
(* (socket_server.c:1143-1149, 1242-1243).                                  *)
THEOREM SilentAfterClose == SocketSpec => NothingAfterClose
<1> DEFINE Silent == result' # result /\ result'.type \in {"data", "open", "accept"}
                       => /\ result'.id \notin gone
                          /\ result'.id \in limited => result'.type = "accept"
<1>1. SocketInit => Listening BY DEF SocketInit, Listening
<1>2. SocketInv /\ Listening /\ [SocketNext]_sockVars => Listening' BY ListeningStays
<1>3. SocketInv /\ Listening /\ [SocketNext]_sockVars => [Silent]_sockVars
  BY HeardIsKnown, LimitedAccepts
<1>4. SocketSpec => [][Silent]_sockVars BY <1>1, <1>2, <1>3, SocketsSound, PTL DEF SocketSpec
<1>5. QED BY <1>4 DEF NothingAfterClose
-----------------------------------------------------------------------------
(* The order on the wire.                                                   *)

(* One part follows another: the next of the package, or the first of one    *)
(* after the last of another.                                               *)
Joined(a, b) ==
  \/ b[1] = a[1] /\ b[2] = a[2] + 1
  \/ a[2] = Size /\ b[2] = 1

(* Whole packages for an id, but for the end of the last one; P says what    *)
(* was sent, and the packages of one priority are in the order of sending.   *)
Stream(L, id, P) ==
  /\ \A i \in DOMAIN L : L[i][1] \in DOMAIN P /\ L[i][2] \in 1 .. Size /\ P[L[i][1]].id = id
  /\ \A i \in DOMAIN L : i = 1 => L[i][2] = 1
  /\ \A i \in DOMAIN L : i > 1 => Joined(L[i - 1], L[i])
  /\ \A i, j \in DOMAIN L : j <= i /\ P[L[j][1]].op = P[L[i][1]].op => L[j][1] <= L[i][1]

Ended(L) == L # <<>> => L[Len(L)][2] = Size

(* What was written for a socket and what its buffers hold: all that the      *)
(* peer will have read when they are empty.                                 *)
Line(s, w) == w \o (s.high \o s.low)

LineSound(s, w, P) ==
  /\ Stream(Line(s, w), s.id, P) /\ Ended(Line(s, w))
  /\ \A i \in DOMAIN s.low : P[s.low[i][1]].op = "P"
  /\ s.wb_size = Len(s.high) + Len(s.low)

IsSend(c) == c.op \in {"D", "P"}

(* Every package of a line was sent before those still in the pipe p.        *)
Older(s, w, p) ==
  \A i \in DOMAIN Line(s, w), j \in DOMAIN p : IsSend(p[j]) => Line(s, w)[i][1] < p[j].n

LowWhole(s) == s.low # <<>> => s.low[1][2] = 1

(* The packages in the pipe are in the order they were sent in.              *)
Sends ==
  \A i \in DOMAIN pipe : IsSend(pipe[i]) =>
    /\ pipe[i].n \in DOMAIN posted
    /\ posted[pipe[i].n].id = pipe[i].id /\ posted[pipe[i].n].op = pipe[i].op
    /\ \A j \in DOMAIN pipe : i < j /\ IsSend(pipe[j]) => pipe[i].n < pipe[j].n

(* Ids that no socket has had.                                              *)
Fresh(id) ==
  id > alloc_id \/ id \in reserved \/ \E i \in DOMAIN pipe : Opens(pipe[i]) /\ pipe[i].id = id

WireType ==
  /\ wire \in [Ids -> Seq(Nat \X Nat)] /\ \A i \in DOMAIN pipe : pipe[i].id \in Ids
  /\ \A k \in SlotsOf : InUse(sock[k]) => sock[k].id \in Ids

WireInv ==
  /\ WireType /\ Sends
  /\ \A id \in Ids : Fresh(id) => wire[id] = <<>>
  /\ \A id \in Ids : Stream(wire[id], id, posted)
  /\ \A k \in SlotsOf : LowWhole(sock[k])
  /\ \A k \in SlotsOf : InUse(sock[k]) =>
       /\ LineSound(sock[k], wire[sock[k].id], posted)
       /\ Older(sock[k], wire[sock[k].id], pipe)
-----------------------------------------------------------------------------
(* Lines.                                                                   *)

(* What is at each place of two lists.                                      *)
LEMMA Joining ==
  ASSUME NEW a \in Seq(Nat \X Nat), NEW b \in Seq(Nat \X Nat)
  PROVE  /\ a \o b \in Seq(Nat \X Nat) /\ Len(a) \in Nat /\ Len(b) \in Nat
         /\ Len(a \o b) = Len(a) + Len(b) /\ DOMAIN (a \o b) = 1 .. Len(a) + Len(b)
         /\ DOMAIN a = 1 .. Len(a) /\ DOMAIN b = 1 .. Len(b)
         /\ \A i \in 1 .. Len(a) : (a \o b)[i] = a[i]
         /\ \A i \in 1 .. Len(b) : (a \o b)[Len(a) + i] = b[i]
  OBVIOUS

(* Three lists.                                                             *)
LEMMA Regroup ==
  ASSUME NEW a \in Seq(Nat \X Nat), NEW b \in Seq(Nat \X Nat), NEW c \in Seq(Nat \X Nat)
  PROVE  (a \o b) \o c = a \o (b \o c)
<1>1. PICK x \in Nat : x = Len(a) OBVIOUS
<1>2. PICK y \in Nat : y = Len(b) OBVIOUS
<1>3. PICK z \in Nat : z = Len(c) OBVIOUS
<1>4. PICK ab \in Seq(Nat \X Nat) : ab = a \o b BY Joining
<1>5. PICK bc \in Seq(Nat \X Nat) : bc = b \o c BY Joining
<1>6. PICK l \in Seq(Nat \X Nat) : l = ab \o c BY Joining
<1>7. PICK r \in Seq(Nat \X Nat) : r = a \o bc BY Joining
<1>8. Len(ab) = x + y /\ (\A i \in 1 .. x : ab[i] = a[i]) /\ \A i \in 1 .. y : ab[x + i] = b[i]
  BY SMTT(30), <1>1, <1>2, <1>4, Joining
<1>9. Len(bc) = y + z /\ (\A i \in 1 .. y : bc[i] = b[i]) /\ \A i \in 1 .. z : bc[y + i] = c[i]
  BY <1>2, <1>3, <1>5, Joining
<1>10. Len(l) = x + y + z /\ (\A i \in 1 .. x + y : l[i] = ab[i]) /\ \A i \in 1 .. z : l[(x + y) + i] = c[i]
  <2>1. Len(ab) = x + y BY <1>8
  <2>2. /\ Len(ab \o c) = Len(ab) + Len(c) /\ (\A i \in 1 .. Len(ab) : (ab \o c)[i] = ab[i])
        /\ \A i \in 1 .. Len(c) : (ab \o c)[Len(ab) + i] = c[i]
    BY Joining
  <2>3. QED BY <1>3, <1>6, <2>1, <2>2
<1>11. Len(r) = x + y + z /\ (\A i \in 1 .. x : r[i] = a[i]) /\ \A i \in 1 .. y + z : r[x + i] = bc[i]
  <2>1. Len(bc) = y + z BY <1>9
  <2>2. /\ Len(a \o bc) = Len(a) + Len(bc) /\ (\A i \in 1 .. Len(a) : (a \o bc)[i] = a[i])
        /\ \A i \in 1 .. Len(bc) : (a \o bc)[Len(a) + i] = bc[i]
    BY Joining
  <2>3. QED BY SMTT(30), <1>1, <1>7, <2>1, <2>2
<1>12. ASSUME NEW i \in 1 .. x + y + z PROVE l[i] = r[i]
  <2>1. CASE i <= x
    <3>1. i \in 1 .. x /\ i \in 1 .. x + y BY <2>1
    <3>2. QED BY <1>8, <1>10, <1>11, <3>1
  <2>2. CASE i > x /\ i <= x + y
    <3>1. PICK p \in 1 .. y : i = x + p
      <4>1. i - x \in 1 .. y /\ i = x + (i - x) BY <2>2
      <4>2. QED BY <4>1
    <3>2. x + p \in 1 .. x + y /\ p \in 1 .. y + z OBVIOUS
    <3>3. l[x + p] = b[p] BY <1>8, <1>10, <3>2
    <3>4. r[x + p] = b[p] BY <1>9, <1>11, <3>2
    <3>5. QED BY <3>1, <3>3, <3>4
  <2>3. CASE i > x + y
    <3>1. PICK p \in 1 .. z : i = (x + y) + p
      <4>1. i - (x + y) \in 1 .. z /\ i = (x + y) + (i - (x + y)) BY <2>3
      <4>2. QED BY <4>1
    <3>2. y + p \in 1 .. y + z /\ i = x + (y + p) BY <3>1
    <3>3. l[i] = c[p] BY <1>10, <3>1
    <3>4. r[x + (y + p)] = c[p] BY <1>9, <1>11, <3>2
    <3>5. QED BY <3>2, <3>3, <3>4
  <2>4. QED BY <2>1, <2>2, <2>3
<1>13. l = r BY <1>10, <1>11, <1>12, SeqEqual
<1>14. QED BY <1>4, <1>5, <1>6, <1>7, <1>13

(* A list is cut in two.                                                    *)
LEMMA Cutting ==
  ASSUME NEW list \in Seq(Nat \X Nat), NEW n \in 0 .. Len(list)
  PROVE  /\ SubSeq(list, 1, n) \in Seq(Nat \X Nat) /\ Rest(list, n) \in Seq(Nat \X Nat)
         /\ Len(SubSeq(list, 1, n)) = n /\ Len(Rest(list, n)) = Len(list) - n
         /\ \A i \in 1 .. n : SubSeq(list, 1, n)[i] = list[i]
         /\ \A i \in 1 .. Len(list) - n : Rest(list, n)[i] = list[n + i]
         /\ SubSeq(list, 1, n) \o Rest(list, n) = list
<1>0. Len(list) \in Nat /\ n \in Nat /\ n <= Len(list) OBVIOUS
<1>1. \A i \in 1 .. n : list[i] \in Nat \X Nat BY <1>0
<1>2. \A i \in n + 1 .. Len(list) : list[i] \in Nat \X Nat BY <1>0
<1>3. /\ SubSeq(list, 1, n) \in Seq(Nat \X Nat) /\ Len(SubSeq(list, 1, n)) = n
      /\ \A i \in 1 .. n : SubSeq(list, 1, n)[i] = list[i]
  BY <1>0, <1>1, SubSeqProperties
<1>4. /\ SubSeq(list, n + 1, Len(list)) \in Seq(Nat \X Nat)
      /\ Len(SubSeq(list, n + 1, Len(list))) = IF n + 1 <= Len(list) THEN Len(list) - (n + 1) + 1 ELSE 0
      /\ \A i \in 1 .. Len(list) - (n + 1) + 1 : SubSeq(list, n + 1, Len(list))[i] = list[(n + 1) + i - 1]
  BY <1>0, <1>2, SubSeqProperties
<1>5. Len(Rest(list, n)) = Len(list) - n /\ Rest(list, n) \in Seq(Nat \X Nat) BY <1>0, <1>4 DEF Rest
<1>6. \A i \in 1 .. Len(list) - n : Rest(list, n)[i] = list[n + i]
  <2>1. ASSUME NEW i \in 1 .. Len(list) - n PROVE Rest(list, n)[i] = list[n + i]
    <3>1. i \in 1 .. Len(list) - (n + 1) + 1 /\ (n + 1) + i - 1 = n + i BY <1>0
    <3>2. QED BY <1>4, <3>1 DEF Rest
  <2>2. QED BY <2>1
<1>7. SubSeq(list, 1, n) \o SubSeq(list, n + 1, Len(list)) = SubSeq(list, 1, Len(list))
  <2>1. PICK one \in 1 .. Len(list) + 1 : one = 1 BY <1>0
  <2>2. n \in one - 1 .. Len(list) /\ Len(list) \in n .. Len(list) BY <1>0, <2>1
  <2>3. SubSeq(list, one, n) \o SubSeq(list, n + 1, Len(list)) = SubSeq(list, one, Len(list))
    BY <2>2, ConcatAdjacentSubSeq
  <2>4. QED BY <2>1, <2>3
<1>8. SubSeq(list, 1, Len(list)) = list BY SubSeqFull
<1>9. QED BY <1>3, <1>5, <1>6, <1>7, <1>8 DEF Rest

(* The beginning of a stream is a stream.                                   *)
LEMMA StreamBegins ==
  ASSUME NEW a \in Seq(Nat \X Nat), NEW b \in Seq(Nat \X Nat), NEW id, NEW P, Stream(a \o b, id, P)
  PROVE  Stream(a, id, P)
<1>1. \A i \in DOMAIN a : i \in DOMAIN (a \o b) /\ (a \o b)[i] = a[i] BY Joining
<1>2. \A i \in DOMAIN a : i > 1 => i - 1 \in DOMAIN a BY Joining
<1>3. QED BY <1>1, <1>2 DEF Stream

(* The parts of a package.                                                  *)
LEMMA PartsOf ==
  ASSUME NEW n \in Nat
  PROVE  /\ Parts(n) \in Seq(Nat \X Nat) /\ Len(Parts(n)) = Size
         /\ \A i \in 1 .. Size : Parts(n)[i] = <<n, i>>
<1>0. Size \in Nat \ {0} BY SocketAssumption DEF SocketAssumption
<1>1. QED BY <1>0 DEF Parts
(* The parts of package n are at the places after x in the line c, the rest   *)
(* is the line ab of x + y parts.                                           *)
Inserted(c, ab, x, y, n) ==
  /\ DOMAIN ab = 1 .. x + y /\ DOMAIN c = 1 .. x + Size + y
  /\ \A i \in 1 .. x : c[i] = ab[i]
  /\ \A i \in 1 .. Size : c[x + i][1] = n /\ c[x + i][2] = i
  /\ \A i \in x + 1 .. x + y : c[Size + i] = ab[i]

(* After x parts a package has ended, all of them are older, and what        *)
(* follows is of the other priority.                                        *)
MayEnter(ab, x, y, n, P) ==
  /\ x > 0 => ab[x][2] = Size
  /\ y > 0 => ab[x + 1][2] = 1
  /\ \A i \in 1 .. x : ab[i][1] < n
  /\ \A i \in x + 1 .. x + y : P[ab[i][1]].op # P[n].op

(* A package sent later goes between two halves of a stream: after a whole   *)
(* package, and before packages of the other priority only.                  *)
LEMMA StreamInserts ==
  ASSUME NEW x \in Nat, NEW y \in Nat, NEW ab, NEW c, NEW id, NEW P, NEW n \in Nat,
         Inserted(c, ab, x, y, n), MayEnter(ab, x, y, n, P),
         Stream(ab, id, P), n \in DOMAIN P, P[n].id = id, DOMAIN P \subseteq Nat
  PROVE  Stream(c, id, P)
<1>0. PICK z \in Nat : z = Size /\ z > 0 BY SocketAssumption DEF SocketAssumption
<1>1. /\ DOMAIN ab = 1 .. x + y /\ DOMAIN c = 1 .. x + z + y
      /\ \A i \in 1 .. x : c[i] = ab[i]
      /\ \A i \in 1 .. z : c[x + i][1] = n /\ c[x + i][2] = i
      /\ \A i \in x + 1 .. x + y : c[z + i] = ab[i]
  BY <1>0 DEF Inserted
<1>2. /\ x > 0 => ab[x][2] = z
      /\ y > 0 => ab[x + 1][2] = 1
      /\ \A i \in 1 .. x : ab[i][1] < n
      /\ \A i \in x + 1 .. x + y : P[ab[i][1]].op # P[n].op
  BY <1>0 DEF MayEnter
<1> USE <1>0, <1>1, <1>2
<1>4. /\ \A i \in 1 .. x + y : ab[i][1] \in DOMAIN P /\ ab[i][2] \in 1 .. z /\ P[ab[i][1]].id = id
      /\ \A i \in 1 .. x + y : i = 1 => ab[i][2] = 1
      /\ \A i \in 1 .. x + y : i > 1 => Joined(ab[i - 1], ab[i])
      /\ \A i, j \in 1 .. x + y : j <= i /\ P[ab[j][1]].op = P[ab[i][1]].op => ab[j][1] <= ab[i][1]
  BY DEF Stream
<1>3. ASSUME NEW i \in 1 .. x + z + y
      PROVE  \/ i \in 1 .. x
             \/ \E p \in 1 .. z : i = x + p
             \/ \E p \in x + 1 .. x + y : i = z + p
  <2>1. CASE i <= x BY <2>1
  <2>2. CASE i > x /\ i <= x + z
    <3>1. i - x \in 1 .. z /\ i = x + (i - x) BY <2>2
    <3>2. QED BY <3>1
  <2>3. CASE i > x + z
    <3>1. i - z \in x + 1 .. x + y /\ i = z + (i - z) BY <2>3
    <3>2. QED BY <3>1
  <2>4. QED BY <2>1, <2>2, <2>3
<1>5. \A p \in 1 .. x : p \in 1 .. x + y OBVIOUS
<1>6. \A p \in x + 1 .. x + y : p \in 1 .. x + y OBVIOUS
<1>7. \A i \in DOMAIN c : c[i][1] \in DOMAIN P /\ c[i][2] \in 1 .. Size /\ P[c[i][1]].id = id
  <2> SUFFICES ASSUME NEW i \in 1 .. x + z + y
               PROVE  c[i][1] \in DOMAIN P /\ c[i][2] \in 1 .. z /\ P[c[i][1]].id = id
    OBVIOUS
  <2>1. CASE i \in 1 .. x BY <1>4, <1>5, <2>1
  <2>2. ASSUME NEW p \in 1 .. z, i = x + p
        PROVE  c[i][1] \in DOMAIN P /\ c[i][2] \in 1 .. z /\ P[c[i][1]].id = id
    <3>1. c[i][1] = n /\ c[i][2] = p BY <2>2
    <3>2. QED BY <3>1
  <2>3. ASSUME NEW p \in x + 1 .. x + y, i = z + p
        PROVE  c[i][1] \in DOMAIN P /\ c[i][2] \in 1 .. z /\ P[c[i][1]].id = id
    <3>1. c[i] = ab[p] /\ p \in 1 .. x + y BY <1>6, <2>3
    <3>2. ab[p][1] \in DOMAIN P /\ ab[p][2] \in 1 .. z /\ P[ab[p][1]].id = id BY <1>4, <3>1
    <3>3. QED BY <3>1, <3>2, Zenon
  <2>4. QED BY <1>3, <2>1, <2>2, <2>3
<1>8. \A i \in DOMAIN c : i = 1 => c[i][2] = 1
  <2>1. CASE x > 0
    <3>1. 1 \in 1 .. x /\ 1 \in 1 .. x + y BY <2>1
    <3>2. c[1] = ab[1] /\ ab[1][2] = 1 BY <1>4, <3>1
    <3>3. QED BY <3>2
  <2>2. CASE x = 0
    <3>1. 1 \in 1 .. z /\ x + 1 = 1 BY <2>2
    <3>2. c[1][2] = 1 BY <3>1
    <3>3. QED BY <3>2
  <2>3. QED BY <2>1, <2>2
<1>9. \A i \in DOMAIN c : i > 1 => Joined(c[i - 1], c[i])
  <2> SUFFICES ASSUME NEW i \in 1 .. x + z + y, i > 1 PROVE Joined(c[i - 1], c[i]) OBVIOUS
  <2>1. CASE i <= x
    <3>1. i \in 1 .. x /\ i - 1 \in 1 .. x /\ i \in 1 .. x + y BY <2>1
    <3>2. c[i] = ab[i] /\ c[i - 1] = ab[i - 1] BY <3>1
    <3>3. QED BY <1>4, <3>1, <3>2
  <2>2. CASE i = x + 1
    <3>1. 1 \in 1 .. z /\ i - 1 = x /\ x \in 1 .. x /\ x > 0 BY <2>2
    <3>2. c[x + 1][2] = 1 BY <3>1
    <3>3. c[x][2] = z BY <3>1
    <3>4. QED BY <2>2, <3>1, <3>2, <3>3 DEF Joined
  <2>3. CASE i > x + 1 /\ i <= x + z
    <3>1. PICK p \in 2 .. z : i = x + p
      <4>1. i - x \in 2 .. z /\ i = x + (i - x) BY <2>3
      <4>2. QED BY <4>1
    <3>2. p \in 1 .. z /\ p - 1 \in 1 .. z /\ i - 1 = x + (p - 1) BY <3>1
    <3>3. c[i][1] = n /\ c[i][2] = p BY <3>1, <3>2
    <3>4. c[i - 1][1] = n /\ c[i - 1][2] = p - 1 BY <3>2
    <3>5. p = (p - 1) + 1 BY <3>1
    <3>6. QED BY <3>3, <3>4, <3>5 DEF Joined
  <2>4. CASE i = x + z + 1
    <3>0. y > 0 BY <2>4
    <3>1. x + 1 \in x + 1 .. x + y /\ i = z + (x + 1) BY <2>4, <3>0
    <3>2. c[i] = ab[x + 1] BY <3>1
    <3>3. c[i][2] = 1 BY <3>0, <3>2
    <3>4. i - 1 = x + z /\ z \in 1 .. z BY <2>4
    <3>5. c[i - 1][2] = z BY <3>4
    <3>6. QED BY <3>3, <3>5 DEF Joined
  <2>5. CASE i > x + z + 1
    <3>1. PICK p \in x + 2 .. x + y : i = z + p
      <4>1. i - z \in x + 2 .. x + y /\ i = z + (i - z) BY <2>5
      <4>2. QED BY <4>1
    <3>2. /\ p \in x + 1 .. x + y /\ p - 1 \in x + 1 .. x + y /\ i - 1 = z + (p - 1)
          /\ p \in 1 .. x + y /\ p > 1
      BY <3>1
    <3>3. c[i] = ab[p] /\ c[i - 1] = ab[p - 1] BY <3>1, <3>2
    <3>4. Joined(ab[p - 1], ab[p]) BY <1>4, <3>2
    <3>5. QED BY <3>3, <3>4
  <2>6. QED BY <2>1, <2>2, <2>3, <2>4, <2>5
<1>10. \A i, j \in DOMAIN c : j <= i /\ P[c[j][1]].op = P[c[i][1]].op => c[j][1] <= c[i][1]
  <2> SUFFICES ASSUME NEW i \in 1 .. x + z + y, NEW j \in 1 .. x + z + y, j <= i,
                      P[c[j][1]].op = P[c[i][1]].op
               PROVE  c[j][1] <= c[i][1]
    OBVIOUS
  <2>1. CASE i \in 1 .. x
    <3>1. j \in 1 .. x BY <2>1
    <3>2. c[i] = ab[i] /\ c[j] = ab[j] BY <2>1, <3>1
    <3>3. QED BY <1>4, <1>5, <2>1, <3>1, <3>2
  <2>2. ASSUME NEW p \in 1 .. z, i = x + p PROVE c[j][1] <= c[i][1]
    <3>1. c[i][1] = n BY <2>2
    <3>2. CASE j \in 1 .. x
      <4>1. c[j] = ab[j] /\ ab[j][1] < n BY <3>2
      <4>2. ab[j][1] \in Nat BY <1>4, <1>5, <3>2
      <4>3. QED BY <3>1, <4>1, <4>2
    <3>3. ASSUME NEW q \in 1 .. z, j = x + q PROVE c[j][1] <= c[i][1]
      <4>1. c[j][1] = n BY <3>3
      <4>2. QED BY <3>1, <4>1
    <3>4. ASSUME NEW q \in x + 1 .. x + y, j = z + q PROVE FALSE BY <2>2, <3>4
    <3>5. QED BY <1>3, <3>2, <3>3, <3>4
  <2>3. ASSUME NEW p \in x + 1 .. x + y, i = z + p PROVE c[j][1] <= c[i][1]
    <3>0. c[i] = ab[p] /\ p \in 1 .. x + y BY <1>6, <2>3
    <3>1. CASE j \in 1 .. x
      <4>1. j <= p /\ c[j] = ab[j] /\ j \in 1 .. x + y BY <1>5, <3>1
      <4>2. P[ab[j][1]].op = P[ab[p][1]].op BY <3>0, <4>1, Zenon
      <4>3. ab[j][1] <= ab[p][1] BY <1>4, <3>0, <4>1, <4>2
      <4>4. QED BY <3>0, <4>1, <4>3, Zenon
    <3>2. ASSUME NEW q \in 1 .. z, j = x + q PROVE FALSE
      <4>1. c[j][1] = n BY <3>2
      <4>2. P[ab[p][1]].op # P[n].op OBVIOUS
      <4>3. QED BY <3>0, <4>1, <4>2
    <3>3. ASSUME NEW q \in x + 1 .. x + y, j = z + q PROVE c[j][1] <= c[i][1]
      <4>1. q <= p /\ c[j] = ab[q] /\ q \in 1 .. x + y BY <1>6, <2>3, <3>3
      <4>2. P[ab[q][1]].op = P[ab[p][1]].op BY <3>0, <4>1, Zenon
      <4>3. ab[q][1] <= ab[p][1] BY <1>4, <3>0, <4>1, <4>2
      <4>4. QED BY <3>0, <4>1, <4>3, Zenon
    <3>4. QED BY <1>3, <3>1, <3>2, <3>3
  <2>4. QED BY <1>3, <2>1, <2>2, <2>3
<1>11. QED BY <1>7, <1>8, <1>9, <1>10 DEF Stream
(* The same for lists.                                                      *)
LEMMA StreamGrows ==
  ASSUME NEW a \in Seq(Nat \X Nat), NEW b \in Seq(Nat \X Nat), NEW id, NEW P, NEW n \in Nat,
         Stream(a \o b, id, P), Ended(a \o b), b # <<>> => b[1][2] = 1,
         n \in DOMAIN P, P[n].id = id, DOMAIN P \subseteq Nat,
         \A i \in DOMAIN a : a[i][1] < n, \A i \in DOMAIN b : P[b[i][1]].op # P[n].op
  PROVE  Stream((a \o Parts(n)) \o b, id, P) /\ Ended((a \o Parts(n)) \o b)
<1>1. PICK x \in Nat : x = Len(a) OBVIOUS
<1>2. PICK y \in Nat : y = Len(b) OBVIOUS
<1>3. PICK z \in Nat : z = Size /\ z > 0 BY SocketAssumption DEF SocketAssumption
<1>4. PICK ab : ab = a \o b OBVIOUS
<1>5. PICK d : d = a \o Parts(n) OBVIOUS
<1>6. PICK c : c = d \o b OBVIOUS
<1>7. /\ DOMAIN ab = 1 .. x + y /\ Len(ab) = x + y /\ ab \in Seq(Nat \X Nat)
      /\ DOMAIN a = 1 .. x /\ DOMAIN b = 1 .. y
      /\ \A i \in 1 .. x : ab[i] = a[i]
      /\ \A i \in 1 .. y : ab[x + i] = b[i]
  BY <1>1, <1>2, <1>4, Joining
<1>8. /\ d \in Seq(Nat \X Nat) /\ Len(d) = x + z
      /\ \A i \in 1 .. x : d[i] = a[i]
      /\ \A i \in 1 .. z : d[x + i] = <<n, i>>
  <2>1. Parts(n) \in Seq(Nat \X Nat) /\ Len(Parts(n)) = z /\ \A i \in 1 .. z : Parts(n)[i] = <<n, i>>
    BY <1>3, PartsOf
  <2>2. PICK q \in Seq(Nat \X Nat) : q = Parts(n) BY <2>1
  <2>3. /\ a \o q \in Seq(Nat \X Nat) /\ Len(a \o q) = Len(a) + Len(q)
        /\ \A i \in 1 .. Len(a) : (a \o q)[i] = a[i]
        /\ \A i \in 1 .. Len(q) : (a \o q)[Len(a) + i] = q[i]
    BY Joining
  <2>4. d = a \o q BY <1>5, <2>2
  <2>5. /\ d \in Seq(Nat \X Nat) /\ Len(d) = x + z
        /\ \A i \in 1 .. x : d[i] = a[i]
        /\ \A i \in 1 .. z : d[x + i] = q[i]
    BY <1>1, <2>1, <2>2, <2>3, <2>4
  <2>6. QED BY <2>1, <2>2, <2>5
<1>9. /\ Len(c) = x + z + y /\ DOMAIN c = 1 .. x + z + y
      /\ \A i \in 1 .. x + z : c[i] = d[i]
      /\ \A i \in 1 .. y : c[(x + z) + i] = b[i]
  <2>0. d \in Seq(Nat \X Nat) BY <1>8
  <2>1. /\ Len(d \o b) = Len(d) + Len(b) /\ DOMAIN (d \o b) = 1 .. Len(d) + Len(b)
        /\ \A i \in 1 .. Len(d) : (d \o b)[i] = d[i]
        /\ \A i \in 1 .. Len(b) : (d \o b)[Len(d) + i] = b[i]
    BY <2>0, Joining
  <2>2. Len(d) = x + z /\ Len(b) = y BY <1>2, <1>8
  <2>3. QED BY <1>6, <2>1, <2>2
<1>10. \A i \in 1 .. x : c[i] = ab[i]
  <2>1. \A i \in 1 .. x : i \in 1 .. x + z OBVIOUS
  <2>2. QED BY <1>7, <1>8, <1>9, <2>1
<1>11. \A i \in 1 .. z : c[x + i][1] = n /\ c[x + i][2] = i
  <2>1. \A i \in 1 .. z : x + i \in 1 .. x + z OBVIOUS
  <2>2. \A i \in 1 .. z : c[x + i] = <<n, i>> BY <1>8, <1>9, <2>1
  <2>3. \A i \in 1 .. z : <<n, i>>[1] = n /\ <<n, i>>[2] = i OBVIOUS
  <2>4. QED BY ZenonT(30), <2>2, <2>3
<1>12. \A i \in x + 1 .. x + y : i - x \in 1 .. y /\ ab[i] = b[i - x] /\ c[z + i] = b[i - x]
  <2> SUFFICES ASSUME NEW i \in x + 1 .. x + y
               PROVE  i - x \in 1 .. y /\ ab[i] = b[i - x] /\ c[z + i] = b[i - x]
    OBVIOUS
  <2>1. PICK p \in 1 .. y : p = i - x
    <3>1. i - x \in 1 .. y OBVIOUS
    <3>2. QED BY <3>1
  <2>2. i = x + p /\ z + i = (x + z) + p BY <2>1
  <2>3. QED BY SMTT(30), <1>7, <1>9, <2>1, <2>2
<1>13. y > 0 => b # <<>> /\ x + 1 \in x + 1 .. x + y /\ ab[x + 1][2] = 1
  <2> SUFFICES ASSUME y > 0 PROVE b # <<>> /\ x + 1 \in x + 1 .. x + y /\ ab[x + 1][2] = 1 OBVIOUS
  <2>1. b # <<>> BY <1>2
  <2>2. 1 \in 1 .. y /\ x + 1 \in x + 1 .. x + y OBVIOUS
  <2>3. ab[x + 1] = b[1] BY <1>7, <2>2
  <2>4. QED BY <2>1, <2>2, <2>3
<1>14. ab # <<>> => ab[x + y][2] = z BY <1>3, <1>4, <1>7 DEF Ended
<1>15. x > 0 => ab[x][2] = z
  <2> SUFFICES ASSUME x > 0 PROVE ab[x][2] = z OBVIOUS
  <2>1. CASE y = 0
    <3>1. ab # <<>> BY <1>7, <2>1
    <3>2. x + y = x BY <2>1
    <3>3. QED BY <1>14, <3>1, <3>2
  <2>2. CASE y > 0
    <3>0. DOMAIN ab = 1 .. x + y BY <1>7
    <3>a. x + 1 \in 1 .. x + y /\ x + 1 > 1 /\ (x + 1) - 1 = x /\ x \in 1 .. x + y BY <2>2
    <3>1. x + 1 \in DOMAIN ab /\ x + 1 > 1 /\ (x + 1) - 1 = x /\ x \in DOMAIN ab BY <3>0, <3>a, Zenon
    <3>2. Joined(ab[(x + 1) - 1], ab[x + 1]) BY <1>4, <3>1 DEF Stream
    <3>3. Joined(ab[x], ab[x + 1]) BY <3>1, <3>2
    <3>4. ab[x][2] \in 1 .. z BY <1>3, <1>4, <3>1 DEF Stream
    <3>5. ab[x + 1][2] = 1 BY <1>13, <2>2
    <3>6. PICK u \in 1 .. z : u = ab[x][2] BY <3>4
    <3>7. u + 1 # 1 OBVIOUS
    <3>8. QED BY <1>3, <3>3, <3>5, <3>6, <3>7 DEF Joined
  <2>3. QED BY <2>1, <2>2
<1>16. Stream(ab, id, P) BY <1>4
<1>17. \A i \in 1 .. x : ab[i][1] < n BY <1>7
<1>18. \A i \in x + 1 .. x + y : c[z + i] = ab[i] /\ P[ab[i][1]].op # P[n].op
  <2>1. \A p \in 1 .. y : P[b[p][1]].op # P[n].op BY <1>7
  <2>2. ASSUME NEW i \in x + 1 .. x + y PROVE c[z + i] = ab[i] /\ P[ab[i][1]].op # P[n].op
    <3>1. PICK p \in 1 .. y : ab[i] = b[p] /\ c[z + i] = b[p] BY <1>12
    <3>2. QED BY <2>1, <3>1, Zenon
  <2>3. QED BY <2>2
<1>19. Stream(c, id, P)
  <2>1. DOMAIN ab = 1 .. x + y /\ DOMAIN c = 1 .. x + z + y BY <1>7, <1>9, Zenon
  <2>2. \A i \in x + 1 .. x + y : c[z + i] = ab[i] BY <1>18, Zenon
  <2>3. \A i \in x + 1 .. x + y : P[ab[i][1]].op # P[n].op BY <1>18, Zenon
  <2>4. y > 0 => ab[x + 1][2] = 1 BY <1>13, Zenon
  <2>5. Inserted(c, ab, x, y, n) BY <1>3, <1>10, <1>11, <2>1, <2>2, Zenon DEF Inserted
  <2>6. MayEnter(ab, x, y, n, P) BY <1>3, <1>15, <1>17, <2>3, <2>4, Zenon DEF MayEnter
  <2>7. QED BY <1>16, <2>5, <2>6, StreamInserts
<1>20. Ended(c)
  <2>1. CASE y = 0
    <3>1. Len(c) = x + z /\ z \in 1 .. z BY <1>3, <1>9, <2>1
    <3>2. QED BY <1>3, <1>11, <3>1 DEF Ended
  <2>2. CASE y > 0
    <3>1. x + y \in x + 1 .. x + y /\ Len(c) = z + (x + y) BY <1>9, <2>2
    <3>2. c[Len(c)] = ab[x + y] BY <1>18, <3>1
    <3>3. ab # <<>> BY <1>7, <2>2
    <3>4. QED BY <1>3, <1>14, <3>2, <3>3 DEF Ended
  <2>3. QED BY <2>1, <2>2
<1>21. QED BY <1>5, <1>6, <1>19, <1>20

(* Parts taken from the first of two lists and then from the second.         *)
LEMMA RestOfTwo ==
  ASSUME NEW a \in Seq(Nat \X Nat), NEW b \in Seq(Nat \X Nat), NEW n \in 0 .. Len(a \o b)
  PROVE  /\ n < Len(a) => Rest(a, n) \o b = Rest(a \o b, n) /\ Rest(a, n) # <<>>
         /\ n >= Len(a) => n - Len(a) \in 0 .. Len(b) /\ Rest(b, n - Len(a)) = Rest(a \o b, n)
<1>1. PICK c \in Seq(Nat \X Nat) : c = a \o b BY Joining
<1>2. /\ Len(a) \in Nat /\ Len(b) \in Nat /\ Len(c) = Len(a) + Len(b)
      /\ \A i \in 1 .. Len(a) : c[i] = a[i]
      /\ \A i \in 1 .. Len(b) : c[Len(a) + i] = b[i]
  BY <1>1, Joining
<1>3. n \in 0 .. Len(c) /\ n \in Nat BY <1>1
<1>4. PICK r \in Seq(Nat \X Nat) : r = Rest(c, n) BY <1>3, Cutting
<1>5. Len(r) = Len(c) - n /\ \A i \in 1 .. Len(c) - n : r[i] = c[n + i] BY <1>3, <1>4, Cutting
<1>6. ASSUME n < Len(a) PROVE Rest(a, n) \o b = Rest(a \o b, n) /\ Rest(a, n) # <<>>
  <2>0. n \in 0 .. Len(a) BY <1>2, <1>3, <1>6
  <2>1. PICK p \in Seq(Nat \X Nat) : p = Rest(a, n) BY <2>0, Cutting
  <2>2. Len(p) = Len(a) - n /\ \A i \in 1 .. Len(a) - n : p[i] = a[n + i] BY <2>0, <2>1, Cutting
  <2>3. PICK q \in Seq(Nat \X Nat) : q = p \o b BY Joining
  <2>4. /\ Len(q) = Len(p) + Len(b)
        /\ \A i \in 1 .. Len(p) : q[i] = p[i]
        /\ \A i \in 1 .. Len(b) : q[Len(p) + i] = b[i]
    BY <2>3, Joining
  <2>5. Len(q) = Len(r) BY <1>2, <1>3, <1>5, <2>2, <2>4
  <2>6. ASSUME NEW i \in 1 .. Len(q) PROVE q[i] = r[i]
    <3>0. i \in 1 .. Len(c) - n /\ i \in Nat /\ r[i] = c[n + i] BY <1>5, <2>5
    <3>1. CASE i <= Len(p)
      <4>1. i \in 1 .. Len(p) /\ i \in 1 .. Len(a) - n /\ n + i \in 1 .. Len(a)
        BY <1>2, <1>3, <2>2, <3>0, <3>1
      <4>2. q[i] = p[i] /\ p[i] = a[n + i] /\ c[n + i] = a[n + i] BY <1>2, <2>2, <2>4, <4>1
      <4>3. QED BY <3>0, <4>2
    <3>2. CASE i > Len(p)
      <4>1. PICK j \in 1 .. Len(b) : i = Len(p) + j /\ n + i = Len(a) + j
        <5>1. /\ i - Len(p) \in 1 .. Len(b) /\ i = Len(p) + (i - Len(p))
              /\ n + i = Len(a) + (i - Len(p))
          BY <1>2, <1>3, <2>2, <2>4, <3>0, <3>2
        <5>2. QED BY <5>1
      <4>2. q[i] = b[j] /\ c[n + i] = b[j] BY <1>2, <2>4, <4>1
      <4>3. QED BY <3>0, <4>2
    <3>3. QED BY <2>2, <3>0, <3>1, <3>2, <1>2, <1>3
  <2>7. q = r BY <2>5, <2>6, SeqEqual
  <2>8. p # <<>> BY <1>2, <1>3, <1>6, <2>2
  <2>9. QED BY <1>1, <1>4, <2>1, <2>3, <2>7, <2>8
<1>7. ASSUME n >= Len(a) PROVE n - Len(a) \in 0 .. Len(b) /\ Rest(b, n - Len(a)) = Rest(a \o b, n)
  <2>0. PICK m \in 0 .. Len(b) : m = n - Len(a)
    <3>1. n - Len(a) \in 0 .. Len(b) BY <1>2, <1>3, <1>7
    <3>2. QED BY <3>1
  <2>1. PICK p \in Seq(Nat \X Nat) : p = Rest(b, m) BY Cutting
  <2>2. Len(p) = Len(b) - m /\ \A i \in 1 .. Len(b) - m : p[i] = b[m + i] BY <2>1, Cutting
  <2>3. Len(p) = Len(r) BY <1>2, <1>3, <1>5, <2>0, <2>2
  <2>4. ASSUME NEW i \in 1 .. Len(p) PROVE p[i] = r[i]
    <3>1. /\ i \in 1 .. Len(c) - n /\ i \in 1 .. Len(b) - m /\ m + i \in 1 .. Len(b)
          /\ n + i = Len(a) + (m + i)
      BY <1>2, <1>3, <1>5, <2>0, <2>2, <2>3
    <3>2. r[i] = c[n + i] /\ p[i] = b[m + i] /\ c[Len(a) + (m + i)] = b[m + i]
      BY <1>2, <1>5, <2>2, <3>1
    <3>3. QED BY <3>1, <3>2
  <2>5. p = r BY <2>3, <2>4, SeqEqual
  <2>6. QED BY <1>1, <1>4, <2>0, <2>1, <2>5
<1>8. QED BY <1>6, <1>7

(* Parts of a low list that follow one another.                             *)
LowJoined(s) ==
  /\ \A i \in DOMAIN s.low : s.low[i][2] \in 1 .. Size
  /\ \A i \in DOMAIN s.low : i > 1 => Joined(s.low[i - 1], s.low[i])

(* Parts of the list l are parts of the list m.                             *)
TakenFrom(l, m) == \A i \in DOMAIN l : \E j \in DOMAIN m : l[i] = m[j]

(* An index of what is left after e elements, seen from the whole.           *)
LEMMA IndexAfter ==
  ASSUME NEW e \in Nat, NEW i \in Nat, NEW l \in Nat, 1 <= i, i <= l - e
  PROVE  e + i \in 1 .. l
OBVIOUS

(* raise_uncomplete with an empty high list: the order stays, and the low    *)
(* list begins with a whole package.                                        *)
LEMMA RaisedLine ==
  ASSUME NEW s \in SlotType, s.high = <<>>, LowJoined(s)
  PROVE  LET t == RaiseUncomplete(s) IN
         /\ LowWhole(t) /\ t.high \o t.low = s.low /\ t.wb_size = s.wb_size
         /\ TakenFrom(t.low, s.low)
<1>0. s.low \in Seq(Nat \X Nat) BY DEF SlotType
<1>1. PICK low \in Seq(Nat \X Nat) : low = s.low BY <1>0
<1>2. /\ DOMAIN low = 1 .. Len(low) /\ Len(low) \in Nat
      /\ \A i \in DOMAIN low : low[i][2] \in 1 .. Size
      /\ \A i \in DOMAIN low : i > 1 => Joined(low[i - 1], low[i])
  BY <1>1 DEF LowJoined
<1>3. CASE ListUncomplete(s.low)
  <2>0. low # <<>> BY <1>1, <1>3 DEF ListUncomplete
  <2>1. PICK e \in 1 .. Len(low) : e = HeadEnd(low) /\ (e = Len(low) \/ low[e + 1][1] # low[e][1])
    BY <2>0, HeadEnds
  <2>2. e \in 0 .. Len(low) BY <1>2
  <2>3. PICK p \in Seq(Nat \X Nat) : p = SubSeq(low, 1, e) BY <2>2, Cutting
  <2>4. PICK q \in Seq(Nat \X Nat) : q = Rest(low, e) BY <2>2, Cutting
  <2>5. p \o q = low /\ Len(q) = Len(low) - e /\ \A i \in 1 .. Len(low) - e : q[i] = low[e + i]
    BY <2>2, <2>3, <2>4, Cutting
  <2>6. PICK t : t = RaiseUncomplete(s) OBVIOUS
  <2>7. t = [s EXCEPT !.high = p, !.low = q]
    BY <1>1, <1>3, <2>1, <2>3, <2>4, <2>6 DEF RaiseUncomplete
  <2>8. t.high = p /\ t.low = q /\ t.wb_size = s.wb_size BY <2>7 DEF SlotType
  <2>9. ASSUME q # <<>> PROVE q[1][2] = 1
    <3>1. Len(q) > 0 BY <2>9
    <3>a. PICK l \in Nat : l = Len(low) BY <1>2
    <3>b. l - e > 0 BY <2>5, <3>1, <3>a
    <3>c. e # l /\ 1 \in 1 .. l - e /\ e + 1 \in 1 .. l BY <3>a, <3>b
    <3>2. e # Len(low) /\ 1 \in 1 .. Len(low) - e /\ e + 1 \in 1 .. Len(low) BY <3>a, <3>c
    <3>3. q[1] = low[e + 1] BY <2>5, <3>2
    <3>4. e + 1 > 1 /\ (e + 1) - 1 = e BY <1>2
    <3>5. Joined(low[(e + 1) - 1], low[e + 1]) BY <1>2, <3>2, <3>4
    <3>6. Joined(low[e], low[e + 1]) BY <3>4, <3>5
    <3>7. low[e + 1][1] # low[e][1] BY <2>1, <3>2
    <3>8. QED BY <3>3, <3>6, <3>7 DEF Joined
  <2>10. ASSUME NEW i \in DOMAIN q PROVE \E j \in DOMAIN low : q[i] = low[j]
    <3>a. DOMAIN q = 1 .. Len(q) OBVIOUS
    <3>1. i \in 1 .. Len(low) - e BY <2>5, <3>a
    <3>b. PICK l \in Nat : l = Len(low) BY <1>2
    <3>c. i \in 1 .. l - e BY <3>1, <3>b
    <3>e. e \in Nat /\ i \in Nat /\ 1 <= i /\ i <= l - e BY SMTT(30), <3>c
    <3>d. e + i \in 1 .. l BY ONLY <3>e, <3>b, IndexAfter
    <3>2. e + i \in DOMAIN low BY <1>2, <3>b, <3>d
    <3>3. QED BY <2>5, <3>1, <3>2
  <2>11. LowWhole(t) BY <2>8, <2>9 DEF LowWhole
  <2>12. TakenFrom(t.low, s.low) BY <1>1, <2>8, <2>10 DEF TakenFrom
  <2>13. QED BY <1>1, <2>5, <2>6, <2>8, <2>11, <2>12
<1>4. CASE ~ListUncomplete(s.low)
  <2>1. RaiseUncomplete(s) = s BY <1>4 DEF RaiseUncomplete
  <2>2. LowWhole(s)
    <3> SUFFICES ASSUME s.low # <<>> PROVE s.low[1][2] = 1 BY DEF LowWhole
    <3>1. 1 \in DOMAIN low /\ Head(low) = low[1] BY <1>1, <1>2
    <3>2. ~(low[1][2] > 1) BY <1>1, <1>4, <3>1 DEF ListUncomplete
    <3>3. low[1][2] \in 1 .. Size BY <1>2, <3>1
    <3>4. Size \in Nat BY SocketAssumption DEF SocketAssumption
    <3>5. QED BY <1>1, <3>2, <3>3, <3>4
  <2>3. s.high \o s.low = s.low BY <1>0, ConcatEmptySeq
  <2>4. TakenFrom(s.low, s.low) BY DEF TakenFrom
  <2>5. QED BY <2>1, <2>2, <2>3, <2>4
<1>5. QED BY <1>3, <1>4

(* send_buffer takes parts from the front: what is left is in the same       *)
(* order, and nothing in the low list is written in part.                    *)
LEMMA FlushedLine ==
  ASSUME NEW s \in SlotType, InUse(s), LowWhole(s), LowJoined(s),
         NEW n \in 0 .. Len(s.high \o s.low)
  PROVE  LET t == Flushed(s, n) IN
         /\ LowWhole(t)
         /\ InUse(t) => /\ t.high \o t.low = Rest(s.high \o s.low, n)
                        /\ t.wb_size = s.wb_size - n /\ TakenFrom(t.low, s.low)
<1> DEFINE h == IF n < Len(s.high) THEN n ELSE Len(s.high)
           u == [s EXCEPT !.high = Rest(s.high, h), !.low = Rest(s.low, n - h), !.wb_size = s.wb_size - n]
<1>1. s.high \in Seq(Nat \X Nat) /\ s.low \in Seq(Nat \X Nat) /\ s.wb_size \in Int BY DEF SlotType
<1>2. Len(s.high) \in Nat /\ Len(s.low) \in Nat /\ n \in Nat /\ s.wb_size - n \in Int BY <1>1
<1>3. h \in Nat /\ n - h \in Nat BY <1>1, <1>2
<1>4. Flushed(s, n) = IF u.high # <<>> THEN u
                      ELSE IF s.low # <<>> THEN RaiseUncomplete(u) ELSE CheckClose(u)
  BY DEF Flushed
<1>5. Rest(s.high, h) \in Seq(Nat \X Nat) /\ Rest(s.low, n - h) \in Seq(Nat \X Nat)
  BY <1>1, <1>3, RestOf
<1>6. /\ u \in SlotType /\ u.high = Rest(s.high, h) /\ u.low = Rest(s.low, n - h)
      /\ u.wb_size = s.wb_size - n /\ u.type = s.type
  <2> HIDE DEF h
  <2>1. QED BY <1>2, <1>5 DEF SlotType
<1> HIDE DEF u
<1>7. CASE n < Len(s.high)
  <2>1. h = n /\ n - h = 0 BY <1>2, <1>7
  <2>2. Rest(s.low, 0) = s.low
    <3>1. Len(s.low) \in Nat BY <1>2
    <3>2. SubSeq(s.low, 1, Len(s.low)) = s.low BY <1>1, SubSeqFull
    <3>3. QED BY <3>2 DEF Rest
  <2>3. u.high = Rest(s.high, n) /\ u.low = s.low BY <1>6, <2>1, <2>2
  <2>4. Rest(s.high, n) \o s.low = Rest(s.high \o s.low, n) /\ Rest(s.high, n) # <<>>
    BY <1>1, <1>7, RestOfTwo
  <2>5. Flushed(s, n) = u BY <1>4, <2>3, <2>4
  <2>6. LowWhole(u) BY <2>3 DEF LowWhole
  <2>7. TakenFrom(u.low, s.low) BY <2>3 DEF TakenFrom
  <2>8. QED BY <1>6, <2>3, <2>4, <2>5, <2>6, <2>7
<1>8. CASE n >= Len(s.high)
  <2>1. h = Len(s.high) BY <1>2, <1>8
  <2>2. PICK m \in 0 .. Len(s.low) : m = n - Len(s.high) /\ Rest(s.low, m) = Rest(s.high \o s.low, n)
    BY <1>1, <1>8, RestOfTwo
  <2>3. Rest(s.high, Len(s.high)) = <<>>
    <3>1. Len(s.high) + 1 \in Int /\ Len(s.high) < Len(s.high) + 1 BY <1>2
    <3>2. QED BY <1>2, <3>1, SubSeqEmpty DEF Rest
  <2>4. u.high = <<>> /\ u.low = Rest(s.low, m) BY <1>6, <2>1, <2>2, <2>3
  <2>5. PICK l \in Seq(Nat \X Nat) : l = s.low BY <1>1
  <2>6. PICK q \in Seq(Nat \X Nat) : q = Rest(l, m) BY <2>5, Cutting
  <2>7. /\ Len(q) = Len(l) - m /\ DOMAIN q = 1 .. Len(q) /\ DOMAIN l = 1 .. Len(l) /\ Len(l) \in Nat
        /\ \A i \in 1 .. Len(l) - m : q[i] = l[m + i]
    <3>1. Len(q) = Len(l) - m /\ \A i \in 1 .. Len(l) - m : q[i] = l[m + i] BY <2>5, <2>6, Cutting
    <3>2. DOMAIN q = 1 .. Len(q) /\ DOMAIN l = 1 .. Len(l) /\ Len(l) \in Nat OBVIOUS
    <3>3. QED BY <3>1, <3>2
  <2>8. \A i \in DOMAIN q : i \in Nat /\ m + i \in DOMAIN l /\ q[i] = l[m + i]
    <3>1. PICK k \in Nat : k = Len(l) BY <2>7
    <3>2. m \in 0 .. k BY <2>5, <3>1
    <3>3. \A i \in 1 .. k - m : i \in Nat /\ m + i \in 1 .. k BY <3>2
    <3>4. DOMAIN q = 1 .. k - m /\ DOMAIN l = 1 .. k BY <2>7, <3>1
    <3>5. QED BY <2>7, <3>1, <3>3, <3>4
  <2>9. LowJoined(u)
    <3>1. \A i \in DOMAIN l : l[i][2] \in 1 .. Size BY <2>5 DEF LowJoined
    <3>2. \A i \in DOMAIN l : i > 1 => Joined(l[i - 1], l[i]) BY <2>5 DEF LowJoined
    <3>3. ASSUME NEW i \in DOMAIN q, i > 1 PROVE Joined(q[i - 1], q[i])
      <4>a. PICK g \in Nat : g = Len(q) OBVIOUS
      <4>b. DOMAIN q = 1 .. g BY <2>7, <4>a
      <4>1. i \in Nat /\ i - 1 \in DOMAIN q BY SMTT(30), <3>3, <4>b
      <4>c. m \in Nat OBVIOUS
      <4>d. \A d, e \in Nat : e > 1 => d + e > 1 /\ (d + e) - 1 = d + (e - 1) OBVIOUS
      <4>2. m + i > 1 /\ (m + i) - 1 = m + (i - 1) BY <3>3, <4>1, <4>c, <4>d, Zenon
      <4>3. q[i] = l[m + i] /\ q[i - 1] = l[m + (i - 1)] /\ m + i \in DOMAIN l BY <2>8, <4>1
      <4>4. Joined(l[(m + i) - 1], l[m + i]) BY <3>2, <4>2, <4>3
      <4>5. QED BY <4>2, <4>3, <4>4
    <3>4. \A i \in DOMAIN q : q[i][2] \in 1 .. Size BY <2>8, <3>1
    <3>5. u.low = q BY <2>4, <2>5, <2>6
    <3>6. QED BY <3>3, <3>4, <3>5 DEF LowJoined
  <2>10. TakenFrom(u.low, s.low) BY <2>4, <2>5, <2>6, <2>8 DEF TakenFrom
  <2>11. CASE s.low # <<>>
    <3>1. PICK t : t = RaiseUncomplete(u) OBVIOUS
    <3>2. Flushed(s, n) = t BY <1>4, <2>4, <2>11, <3>1
    <3>3. LowWhole(t) /\ t.high \o t.low = u.low /\ t.wb_size = u.wb_size /\ TakenFrom(t.low, u.low)
      BY <1>6, <2>4, <2>9, <3>1, RaisedLine
    <3>4. TakenFrom(t.low, s.low)
      <4>1. \A i \in DOMAIN t.low : \E j \in DOMAIN u.low : t.low[i] = u.low[j] BY <3>3 DEF TakenFrom
      <4>2. \A i \in DOMAIN u.low : \E j \in DOMAIN s.low : u.low[i] = s.low[j] BY <2>10 DEF TakenFrom
      <4>3. ASSUME NEW i \in DOMAIN t.low PROVE \E j \in DOMAIN s.low : t.low[i] = s.low[j]
        <5>1. PICK j \in DOMAIN u.low : t.low[i] = u.low[j] BY <4>1
        <5>2. QED BY <4>2, <5>1
      <4>4. QED BY <4>3 DEF TakenFrom
    <3>5. QED BY <1>6, <2>2, <2>4, <3>2, <3>3, <3>4
  <2>12. CASE s.low = <<>>
    <3>0. u.low = <<>> BY <1>6, <1>1, <1>3, <2>12, RestOf
    <3>1. Flushed(s, n) = CheckClose(u) BY <1>4, <2>4, <2>12
    <3>2. CASE u.type = "HALFCLOSE"
      <4>1. PICK t : t = ForceClose(u) OBVIOUS
      <4>2. t.low = <<>> /\ t.type = "INVALID" BY <1>6, <4>1 DEF ForceClose, SlotType
      <4>3. Flushed(s, n) = t BY <3>1, <3>2, <4>1 DEF CheckClose
      <4>4. LowWhole(t) /\ ~InUse(t) BY <4>2 DEF LowWhole, InUse
      <4>5. QED BY <4>3, <4>4
    <3>3. CASE u.type # "HALFCLOSE"
      <4>1. PICK t : t = [u EXCEPT !.armed = FALSE] OBVIOUS
      <4>2. t.low = u.low /\ t.high = u.high /\ t.wb_size = u.wb_size BY <1>6, <4>1 DEF SlotType
      <4>3. Flushed(s, n) = t BY <3>1, <3>3, <4>1 DEF CheckClose
      <4>4. LowWhole(t) BY <3>0, <4>2 DEF LowWhole
      <4>5. t.high \o t.low = u.low
        <5>1. u.low \in Seq(Nat \X Nat) BY <1>6 DEF SlotType
        <5>2. QED BY <2>4, <4>2, <5>1, ConcatEmptySeq
      <4>6. TakenFrom(t.low, s.low) BY <2>10, <4>2
      <4>7. QED BY <1>6, <2>2, <2>4, <4>2, <4>3, <4>4, <4>5, <4>6
    <3>4. QED BY <3>2, <3>3
  <2>13. QED BY <2>11, <2>12
<1>9. n < Len(s.high) \/ n >= Len(s.high) BY <1>2
<1>10. QED BY <1>7, <1>8, <1>9, Zenon

(* The line in the order of writing.                                        *)
LEMMA LineSplits ==
  ASSUME NEW s \in SlotType, NEW w \in Seq(Nat \X Nat)
  PROVE  Line(s, w) = (w \o s.high) \o s.low
<1>1. s.high \in Seq(Nat \X Nat) /\ s.low \in Seq(Nat \X Nat) BY DEF SlotType
<1>2. PICK h \in Seq(Nat \X Nat) : h = s.high BY <1>1
<1>3. PICK l \in Seq(Nat \X Nat) : l = s.low BY <1>1
<1>4. (w \o h) \o l = w \o (h \o l) BY SMTT(30), Regroup
<1>5. QED BY <1>2, <1>3, <1>4 DEF Line

(* What a slot's line says of its low list.                                 *)
LEMMA LowOfLine ==
  ASSUME NEW s \in SlotType, NEW w \in Seq(Nat \X Nat), NEW P, Stream(Line(s, w), s.id, P)
  PROVE  LowJoined(s)
<1>1. PICK a \in Seq(Nat \X Nat) : a = w \o s.high BY Joining DEF SlotType
<1>2. PICK b \in Seq(Nat \X Nat) : b = s.low BY DEF SlotType
<1>3. PICK c \in Seq(Nat \X Nat) : c = a \o b BY Joining
<1>4. Line(s, w) = c BY <1>1, <1>2, <1>3, LineSplits
<1>5. /\ Len(a) \in Nat /\ Len(b) \in Nat /\ DOMAIN c = 1 .. Len(a) + Len(b) /\ DOMAIN b = 1 .. Len(b)
      /\ \A i \in 1 .. Len(b) : c[Len(a) + i] = b[i]
  BY <1>3, Joining
<1>6. PICK x \in Nat : x = Len(a) BY <1>5
<1>7. PICK y \in Nat : y = Len(b) BY <1>5
<1>8. DOMAIN c = 1 .. x + y /\ DOMAIN b = 1 .. y /\ \A i \in 1 .. y : c[x + i] = b[i]
  BY <1>5, <1>6, <1>7
<1>9. /\ \A i \in 1 .. x + y : c[i][2] \in 1 .. Size
      /\ \A i \in 1 .. x + y : i > 1 => Joined(c[i - 1], c[i])
  BY <1>4, <1>8 DEF Stream
<1>10. \A i \in 1 .. y : x + i \in 1 .. x + y OBVIOUS
<1>11. \A i \in DOMAIN b : b[i][2] \in 1 .. Size BY <1>8, <1>9, <1>10
<1>12. ASSUME NEW i \in 1 .. y, i > 1 PROVE Joined(b[i - 1], b[i])
  <2>1. i - 1 \in 1 .. y /\ x + i > 1 /\ (x + i) - 1 = x + (i - 1) BY <1>12
  <2>2. Joined(c[(x + i) - 1], c[x + i]) BY <1>9, <1>10, <2>1
  <2>3. QED BY <1>8, <2>1, <2>2
<1>13. QED BY <1>2, <1>8, <1>11, <1>12 DEF LowJoined

(* The outcomes of send_buffer: the line stays what it was, or the socket is *)
(* closed and what was written is the beginning of the line.                *)
LEMMA SentLine ==
  ASSUME NEW s \in SlotType, InUse(s), NEW w \in Seq(Nat \X Nat), NEW P,
         LineSound(s, w, P), LowWhole(s), NEW r \in SendBuffer(s)
  PROVE  /\ w \o r.w \in Seq(Nat \X Nat) /\ LowWhole(r.s)
         /\ Stream(w \o r.w, s.id, P)
         /\ InUse(r.s) => /\ Line(r.s, w \o r.w) = Line(s, w)
                          /\ LineSound(r.s, w \o r.w, P)
<1> DEFINE all == s.high \o s.low
           fails == {n \in 0 .. Len(all) : n < Len(all) /\ (n = 0 \/ all[n][1] # all[n + 1][1])}
<1>0. s.high \in Seq(Nat \X Nat) /\ s.low \in Seq(Nat \X Nat) /\ s.wb_size \in Int BY DEF SlotType
<1>1. all \in Seq(Nat \X Nat) /\ Len(all) \in Nat /\ Len(all) = Len(s.high) + Len(s.low) BY ZenonT(30), <1>0, Joining
<1>2. /\ Stream(w \o all, s.id, P) /\ Ended(w \o all)
      /\ \A i \in DOMAIN s.low : P[s.low[i][1]].op = "P"
      /\ s.wb_size = Len(all)
  BY <1>1 DEF LineSound, Line
<1>3. LowJoined(s) BY LowOfLine DEF LineSound
<1>4. \/ \E n \in 0 .. Len(all) : r = [s |-> Flushed(s, n), w |-> SubSeq(all, 1, n)]
      \/ \E n \in fails : r = [s |-> ForceClose(s), w |-> SubSeq(all, 1, n)]
  BY Zenon DEF SendBuffer
<1>5. PICK n \in 0 .. Len(all) : r.w = SubSeq(all, 1, n) /\ (r.s = Flushed(s, n) \/ r.s = ForceClose(s))
  <2>1. ASSUME NEW n \in 0 .. Len(all), r = [s |-> Flushed(s, n), w |-> SubSeq(all, 1, n)]
        PROVE  r.w = SubSeq(all, 1, n) /\ r.s = Flushed(s, n)
    BY <2>1
  <2>2. ASSUME NEW n \in 0 .. Len(all), r = [s |-> ForceClose(s), w |-> SubSeq(all, 1, n)]
        PROVE  r.w = SubSeq(all, 1, n) /\ r.s = ForceClose(s)
    BY <2>2
  <2>3. \A n \in fails : n \in 0 .. Len(all) OBVIOUS
  <2> HIDE DEF fails, all
  <2>4. QED BY <1>4, <2>1, <2>2, <2>3
<1> HIDE DEF all, fails
<1>6. PICK v \in Seq(Nat \X Nat) : v = r.w BY <1>1, <1>5, Cutting
<1>7. PICK q \in Seq(Nat \X Nat) : q = Rest(all, n) BY <1>1, Cutting
<1>8. v \o q = all /\ Len(q) = Len(all) - n BY <1>1, <1>5, <1>6, <1>7, Cutting
<1>9. (w \o v) \o q = w \o all
  <2>1. (w \o v) \o q = w \o (v \o q) BY ZenonT(30), Regroup
  <2>2. QED BY <1>8, <2>1
<1>10. w \o v \in Seq(Nat \X Nat) BY Joining
<1>11. Stream(w \o v, s.id, P) BY <1>2, <1>9, <1>10, StreamBegins
<1>12. PICK t : t = r.s OBVIOUS
<1>13. CASE r.s = ForceClose(s)
  <2>1. t.low = <<>> /\ t.type = "INVALID" BY <1>12, <1>13 DEF ForceClose, SlotType
  <2>2. LowWhole(t) /\ ~InUse(t) BY <2>1 DEF LowWhole, InUse
  <2>3. QED BY <1>6, <1>10, <1>11, <1>12, <2>2
<1>14. CASE r.s = Flushed(s, n)
  <2>0. n \in 0 .. Len(s.high \o s.low) BY <1>5 DEF all
  <2>1. /\ LowWhole(t)
        /\ InUse(t) => /\ t.high \o t.low = q /\ t.wb_size = s.wb_size - n /\ TakenFrom(t.low, s.low)
    BY <1>3, <1>7, <1>12, <1>14, <2>0, FlushedLine DEF all
  <2>2. t \in SlotType /\ t.id = s.id
    <3>1. t = Flushed(s, n) BY <1>12, <1>14
    <3>2. Flushed(s, n) \in SlotType /\ Flushed(s, n).id = s.id BY <2>0, FlushedSlot
    <3>3. QED BY <3>1, <3>2
  <2>3. ASSUME InUse(t) PROVE Line(t, w \o v) = Line(s, w) /\ LineSound(t, w \o v, P)
    <3>1. t.high \o t.low = q /\ t.wb_size = s.wb_size - n /\ TakenFrom(t.low, s.low) BY <2>1, <2>3
    <3>2. Line(t, w \o v) = w \o all /\ Line(s, w) = w \o all BY <1>9, <3>1 DEF Line, all
    <3>3. Stream(Line(t, w \o v), t.id, P) /\ Ended(Line(t, w \o v)) BY <1>2, <2>2, <3>2
    <3>4. ASSUME NEW i \in DOMAIN t.low PROVE P[t.low[i][1]].op = "P"
      <4>1. PICK j \in DOMAIN s.low : t.low[i] = s.low[j] BY <3>1 DEF TakenFrom
      <4>2. P[s.low[j][1]].op = "P" BY <1>2
      <4>3. QED BY <4>1, <4>2, Zenon
    <3>5. t.wb_size = Len(t.high) + Len(t.low)
      <4>1. t.high \in Seq(Nat \X Nat) /\ t.low \in Seq(Nat \X Nat) BY <2>2 DEF SlotType
      <4>2. Len(q) = Len(t.high) + Len(t.low) BY ZenonT(60), <3>1, <4>1, Joining
      <4>3. QED BY <1>2, <1>8, <3>1, <4>2
    <3>6. QED BY <3>2, <3>3, <3>4, <3>5 DEF LineSound
  <2>4. QED BY <1>6, <1>10, <1>11, <1>12, <2>1, <2>3
<1>15. QED BY <1>5, <1>13, <1>14
-----------------------------------------------------------------------------
(* What the steps do to the lines.                                          *)

(* The packages in the pipe now were there before.                          *)
FewerSends == \A i \in DOMAIN pipe' : IsSend(pipe'[i]) => \E j \in DOMAIN pipe : pipe'[i] = pipe[j]

(* Reading the pipe.                                                        *)
LEMMA PipeShrinks ==
  ASSUME SocketType, WireInv, posted' = posted, alloc_id' = alloc_id, reserved' = reserved,
         pipe' = pipe \/ (pipe # <<>> /\ pipe' = Tail(pipe))
  PROVE  /\ Sends' /\ FewerSends /\ \A i \in DOMAIN pipe' : pipe'[i].id \in Ids
         /\ \A id \in Ids : Fresh(id)' => Fresh(id)
<1>0. pipe \in Seq(Commands) /\ Sends /\ \A i \in DOMAIN pipe : pipe[i].id \in Ids
  BY DEF SocketType, WireInv, WireType
<1>1. CASE pipe' = pipe
  <2>1. Sends' BY <1>0, <1>1 DEF Sends
  <2>2. FewerSends BY <1>1 DEF FewerSends
  <2>3. ASSUME NEW id \in Ids PROVE Fresh(id)' => Fresh(id) BY <1>1 DEF Fresh
  <2>4. QED BY <1>0, <1>1, <2>1, <2>2, <2>3
<1>2. CASE pipe # <<>> /\ pipe' = Tail(pipe)
  <2>1. \A i \in DOMAIN pipe' : i \in Nat \ {0} /\ i + 1 \in DOMAIN pipe /\ pipe'[i] = pipe[i + 1]
    BY <1>0, <1>2, PipeRead
  <2>2. FewerSends BY <2>1 DEF FewerSends
  <2>3. ASSUME NEW i \in DOMAIN pipe', IsSend(pipe'[i])
        PROVE  /\ pipe'[i].n \in DOMAIN posted
               /\ posted[pipe'[i].n].id = pipe'[i].id /\ posted[pipe'[i].n].op = pipe'[i].op
               /\ \A j \in DOMAIN pipe' : i < j /\ IsSend(pipe'[j]) => pipe'[i].n < pipe'[j].n
    <3>1. PICK a \in DOMAIN pipe : a = i + 1 /\ pipe'[i] = pipe[a] BY <2>1
    <3>2. /\ pipe[a].n \in DOMAIN posted
          /\ posted[pipe[a].n].id = pipe[a].id /\ posted[pipe[a].n].op = pipe[a].op
          /\ \A j \in DOMAIN pipe : a < j /\ IsSend(pipe[j]) => pipe[a].n < pipe[j].n
      BY <1>0, <2>3, <3>1 DEF Sends
    <3>3. ASSUME NEW j \in DOMAIN pipe', i < j, IsSend(pipe'[j]) PROVE pipe'[i].n < pipe'[j].n
      <4>1. PICK b \in DOMAIN pipe : b = j + 1 /\ pipe'[j] = pipe[b] BY <2>1
      <4>2. i \in Nat /\ j \in Nat BY <2>1
      <4>3. a < b BY <3>1, <3>3, <4>1, <4>2
      <4>4. pipe[a].n < pipe[b].n BY <3>2, <3>3, <4>1, <4>3
      <4>5. QED BY <3>1, <4>1, <4>4
    <3>4. QED BY <3>1, <3>2, <3>3
  <2>4. Sends' BY <2>3 DEF Sends
  <2>5. ASSUME NEW id \in Ids, Fresh(id)' PROVE Fresh(id)
    <3>1. CASE id > alloc_id \/ id \in reserved BY <3>1 DEF Fresh
    <3>2. ASSUME NEW i \in DOMAIN pipe', Opens(pipe'[i]), pipe'[i].id = id PROVE Fresh(id)
      BY <2>1, <3>2 DEF Fresh
    <3>3. QED BY <2>5, <3>1, <3>2 DEF Fresh
  <2>6. \A i \in DOMAIN pipe' : pipe'[i].id \in Ids BY <1>0, <2>1
  <2>7. QED BY <2>2, <2>4, <2>5, <2>6
<1>3. QED BY <1>1, <1>2

(* A line of the parts that were sent before is older than what is in the     *)
(* pipe now.                                                                *)
LEMMA StaysOlder ==
  ASSUME NEW s, NEW w, Older(s, w, pipe), FewerSends PROVE Older(s, w, pipe')
<1>1. ASSUME NEW i \in DOMAIN Line(s, w), NEW j \in DOMAIN pipe', IsSend(pipe'[j])
      PROVE  Line(s, w)[i][1] < pipe'[j].n
  <2>1. PICK m \in DOMAIN pipe : pipe'[j] = pipe[m] BY <1>1 DEF FewerSends
  <2>2. QED BY <1>1, <2>1 DEF Older
<1>2. QED BY <1>1 DEF Older

(* Nothing is written to the slot: its lists stay, or nobody uses it; a       *)
(* socket in use was in use, or is new.                                     *)
Rests(s, t) ==
  \/ /\ t.high = s.high /\ t.low = s.low
     /\ InUse(t) => InUse(s) /\ t.id = s.id /\ t.wb_size = s.wb_size
  \/ LowWhole(t) /\ ~InUse(t)
  \/ t.high = <<>> /\ t.low = <<>> /\ t.wb_size = 0 /\ t.id \in Ids /\ Fresh(t.id)

(* A line of nothing.                                                       *)
LEMMA NewLine ==
  ASSUME NEW s, s.high = <<>>, s.low = <<>>, s.wb_size = 0, NEW P, NEW p
  PROVE  LineSound(s, <<>>, P) /\ Older(s, <<>>, p) /\ LowWhole(s)
<1>1. Line(s, <<>>) = <<>> BY DEF Line
<1>2. Stream(<<>>, s.id, P) /\ Ended(<<>>) BY DEF Stream, Ended
<1>3. Len(s.high) = 0 /\ Len(s.low) = 0 OBVIOUS
<1>4. LineSound(s, <<>>, P)
  <2>1. DOMAIN s.low = {} OBVIOUS
  <2>2. QED BY <1>1, <1>2, <1>3, <2>1 DEF LineSound
<1>5. Older(s, <<>>, p) BY <1>1 DEF Older
<1>6. QED BY <1>4, <1>5 DEF LowWhole

(* Steps that write nothing.                                                *)
LEMMA WireRests ==
  ASSUME WireInv, wire' = wire, posted' = posted,
         Sends', FewerSends, \A i \in DOMAIN pipe' : pipe'[i].id \in Ids,
         \A id \in Ids : Fresh(id)' => Fresh(id),
         \A k \in SlotsOf : Rests(sock[k], sock'[k])
  PROVE  WireInv'
<1>0. /\ WireType /\ \A id \in Ids : Fresh(id) => wire[id] = <<>>
      /\ \A id \in Ids : Stream(wire[id], id, posted)
  BY DEF WireInv
<1>1. ASSUME NEW k \in SlotsOf
      PROVE  /\ LowWhole(sock'[k])
             /\ InUse(sock'[k]) => /\ sock'[k].id \in Ids
                                   /\ LineSound(sock'[k], wire[sock'[k].id], posted)
                                   /\ Older(sock'[k], wire[sock'[k].id], pipe')
  <2>1. PICK s : s = sock[k] OBVIOUS
  <2>2. PICK t : t = sock'[k] OBVIOUS
  <2>3. Rests(s, t) /\ LowWhole(s) BY <2>1, <2>2 DEF WireInv
  <2>4. CASE /\ t.high = s.high /\ t.low = s.low
             /\ InUse(t) => InUse(s) /\ t.id = s.id /\ t.wb_size = s.wb_size
    <3>1. LowWhole(t) BY <2>3, <2>4 DEF LowWhole
    <3>2. ASSUME InUse(t)
          PROVE  t.id \in Ids /\ LineSound(t, wire[t.id], posted) /\ Older(t, wire[t.id], pipe')
      <4>1. s.id \in Ids /\ LineSound(s, wire[s.id], posted) /\ Older(s, wire[s.id], pipe)
        BY <2>1, <2>4, <3>2 DEF WireInv, WireType
      <4>2. Older(s, wire[s.id], pipe') BY <4>1, StaysOlder
      <4>3. t.id = s.id /\ t.wb_size = s.wb_size BY <2>4, <3>2
      <4>4. Line(t, wire[s.id]) = Line(s, wire[s.id]) BY <2>4 DEF Line
      <4>5. LineSound(t, wire[s.id], posted) BY <2>4, <4>1, <4>3, <4>4 DEF LineSound
      <4>6. Older(t, wire[s.id], pipe') BY <4>2, <4>4 DEF Older
      <4>7. QED BY <4>1, <4>3, <4>5, <4>6
    <3>3. QED BY <2>2, <3>1, <3>2
  <2>5. CASE LowWhole(t) /\ ~InUse(t) BY <2>2, <2>5
  <2>6. CASE t.high = <<>> /\ t.low = <<>> /\ t.wb_size = 0 /\ t.id \in Ids /\ Fresh(t.id)
    <3>1. wire[t.id] = <<>> BY <1>0, <2>6
    <3>2. LineSound(t, <<>>, posted) /\ Older(t, <<>>, pipe') /\ LowWhole(t) BY <2>6, NewLine
    <3>3. QED BY <2>2, <2>6, <3>1, <3>2
  <2>7. QED BY <2>3, <2>4, <2>5, <2>6 DEF Rests
<1>2. WireType' BY <1>0, <1>1 DEF WireType
<1>3. \A id \in Ids : Fresh(id)' => wire'[id] = <<>> BY <1>0
<1>4. \A id \in Ids : Stream(wire'[id], id, posted') BY <1>0
<1>5. /\ \A k \in SlotsOf : LowWhole(sock'[k])
      /\ \A k \in SlotsOf : InUse(sock'[k]) =>
           /\ LineSound(sock'[k], wire'[sock'[k].id], posted')
           /\ Older(sock'[k], wire'[sock'[k].id], pipe')
  BY <1>1
<1>6. QED BY <1>2, <1>3, <1>4, <1>5 DEF WireInv

(* The socket of a slot is written to.                                      *)
LEMMA WireWritten ==
  ASSUME SocketInv, WireInv, NEW k \in SlotsOf, NEW t \in SlotType, sock' = [sock EXCEPT ![k] = t],
         InUse(sock[k]), NEW w \in Seq(Nat \X Nat), wire' = [wire EXCEPT ![sock[k].id] = w],
         Stream(w, sock[k].id, posted), LowWhole(t),
         InUse(t) => t.id = sock[k].id /\ LineSound(t, w, posted) /\ Older(t, w, pipe'),
         posted' = posted, alloc_id' = alloc_id, reserved' = reserved,
         pipe' = pipe \/ (pipe # <<>> /\ pipe' = Tail(pipe))
  PROVE  WireInv'
<1>0. /\ SocketType /\ Placed /\ Commanded
      /\ WireType /\ \A id \in Ids : Fresh(id) => wire[id] = <<>>
      /\ \A id \in Ids : Stream(wire[id], id, posted)
  BY DEF SocketInv, WireInv
<1>1. PICK h \in Ids : h = sock[k].id BY <1>0 DEF WireType
<1>2. wire \in [Ids -> Seq(Nat \X Nat)] /\ wire' = [wire EXCEPT ![h] = w] BY <1>0, <1>1 DEF WireType
<1>3. wire' \in [Ids -> Seq(Nat \X Nat)] /\ wire'[h] = w /\ \A id \in Ids : id # h => wire'[id] = wire[id]
  BY <1>2
<1>4. sock'[k] = t /\ \A j \in SlotsOf : j # k => sock'[j] = sock[j]
  BY <1>0, SlotSet DEF SocketType
<1>5. /\ Sends' /\ FewerSends /\ \A i \in DOMAIN pipe' : pipe'[i].id \in Ids
      /\ \A id \in Ids : Fresh(id)' => Fresh(id)
  BY <1>0, PipeShrinks
<1>6. ~Fresh(h)
  <2>0. h \in Nat /\ alloc_id \in Nat
    <3>1. MaxId \in Nat BY SocketAssumption DEF SocketAssumption
    <3>2. QED BY <1>0, <3>1 DEF Ids, SocketType
  <2>1. h <= alloc_id /\ h \notin reserved /\ Hash(h) = k BY <1>0, <1>1 DEF Placed
  <2>2. ~(h > alloc_id) BY <2>0, <2>1
  <2>3. \A i \in DOMAIN pipe : Opens(pipe[i]) => pipe[i].id # h
    BY <1>0, <2>1 DEF Commanded, InUse
  <2>4. QED BY <2>1, <2>2, <2>3 DEF Fresh
<1>7. \A id \in Ids : Fresh(id)' => wire'[id] = <<>> BY <1>0, <1>3, <1>5, <1>6
<1>8. \A id \in Ids : Stream(wire'[id], id, posted)
  <2>1. Stream(w, h, posted) BY <1>1
  <2>2. QED BY <1>0, <1>3, <2>1
<1>9. ASSUME NEW j \in SlotsOf
      PROVE  /\ LowWhole(sock'[j])
             /\ InUse(sock'[j]) => /\ sock'[j].id \in Ids
                                   /\ LineSound(sock'[j], wire'[sock'[j].id], posted)
                                   /\ Older(sock'[j], wire'[sock'[j].id], pipe')
  <2>1. CASE j = k BY <1>1, <1>3, <1>4, <2>1
  <2>2. CASE j # k
    <3>1. PICK s : s = sock[j] OBVIOUS
    <3>2. sock'[j] = s /\ LowWhole(s) BY <1>4, <2>2, <3>1 DEF WireInv
    <3>3. ASSUME InUse(s)
          PROVE  s.id \in Ids /\ LineSound(s, wire'[s.id], posted) /\ Older(s, wire'[s.id], pipe')
      <4>1. s.id \in Ids /\ LineSound(s, wire[s.id], posted) /\ Older(s, wire[s.id], pipe)
        BY <3>1, <3>3 DEF WireInv, WireType
      <4>2. s.id # h BY <1>0, <1>1, <2>2, <3>1, <3>3 DEF Placed
      <4>3. wire'[s.id] = wire[s.id] BY <1>3, <4>1, <4>2
      <4>4. Older(s, wire[s.id], pipe') BY <1>5, <4>1, StaysOlder
      <4>5. QED BY <4>1, <4>3, <4>4
    <3>4. QED BY <3>2, <3>3
  <2>3. QED BY <2>1, <2>2
<1>10. WireType' BY <1>3, <1>5, <1>9 DEF WireType
<1>11. QED BY <1>5, <1>7, <1>8, <1>9, <1>10 DEF WireInv

(* One slot changes, and nothing is written.                                *)
LEMMA SlotRests ==
  ASSUME SocketInv, WireInv, NEW k \in SlotsOf, NEW t \in SlotType, sock' = [sock EXCEPT ![k] = t],
         Rests(sock[k], t), wire' = wire, posted' = posted, alloc_id' = alloc_id, reserved' = reserved,
         pipe' = pipe \/ (pipe # <<>> /\ pipe' = Tail(pipe))
  PROVE  WireInv'
<1>0. SocketType BY DEF SocketInv
<1>1. sock'[k] = t /\ \A j \in SlotsOf : j # k => sock'[j] = sock[j] BY <1>0, SlotSet DEF SocketType
<1>2. \A j \in SlotsOf : Rests(sock[j], sock[j]) BY DEF Rests
<1>3. \A j \in SlotsOf : Rests(sock[j], sock'[j]) BY <1>1, <1>2
<1>4. QED BY <1>0, <1>3, PipeShrinks, WireRests

(* No slot changes.                                                         *)
LEMMA TableRests ==
  ASSUME SocketInv, WireInv, sock' = sock, wire' = wire, posted' = posted, alloc_id' = alloc_id,
         reserved' = reserved, pipe' = pipe \/ (pipe # <<>> /\ pipe' = Tail(pipe))
  PROVE  WireInv'
<1>0. SocketType BY DEF SocketInv
<1>1. \A j \in SlotsOf : Rests(sock[j], sock'[j]) BY DEF Rests
<1>2. QED BY <1>0, <1>1, PipeShrinks, WireRests

(* force_close empties the lists.                                           *)
LEMMA ClosedRests ==
  ASSUME NEW s \in SlotType PROVE ForceClose(s) \in SlotType /\ Rests(s, ForceClose(s))
<1>1. PICK t : t = ForceClose(s) OBVIOUS
<1>2. t.low = <<>> /\ t.type = "INVALID" BY <1>1 DEF ForceClose, SlotType
<1>3. ~InUse(t) /\ LowWhole(t) BY <1>2 DEF InUse, LowWhole
<1>4. QED BY <1>1, <1>3, ForceCloseSlot DEF Rests

(* new_fd leaves nothing of the socket that had the slot.                   *)
LEMMA FdIsNew ==
  ASSUME NEW id \in Nat
  PROVE  LET t == NewFd(id) IN
         /\ t \in SlotType /\ t.id = id /\ t.high = <<>> /\ t.low = <<>> /\ t.wb_size = 0
<1>0. FreeSlot \in SlotType /\ FreeSlot.high = <<>> /\ FreeSlot.low = <<>> /\ FreeSlot.wb_size = 0
  <2>1. <<>> \in Seq(Nat \X Nat) OBVIOUS
  <2>2. QED BY <2>1 DEF FreeSlot, SlotType
<1>1. ASSUME NEW x \in SlotType, x.high = <<>>, x.low = <<>>, x.wb_size = 0
      PROVE  LET t == [x EXCEPT !.id = id, !.fd = "tcp"] IN
             t \in SlotType /\ t.id = id /\ t.high = <<>> /\ t.low = <<>> /\ t.wb_size = 0
  BY <1>1 DEF SlotType
<1>2. QED BY <1>0, <1>1, Zenon DEF NewFd

(* The slots that open_socket, listen_socket, bind_socket and report_accept  *)
(* make.                                                                    *)
LEMMA NewRests ==
  ASSUME NEW id \in Nat, id \in Ids, Fresh(id), NEW s, NEW t,
         \/ \E ty \in {"CONNECTED", "PLISTEN", "PACCEPT"} : t = [NewFd(id) EXCEPT !.type = ty]
         \/ t = [NewFd(id) EXCEPT !.type = "CONNECTING", !.armed = TRUE]
         \/ t = [NewFd(id) EXCEPT !.type = "BIND", !.fd = "file"]
  PROVE  t \in SlotType /\ Rests(s, t)
<1>1. PICK x \in SlotType : x = NewFd(id) BY FdIsNew
<1>2. x.id = id /\ x.high = <<>> /\ x.low = <<>> /\ x.wb_size = 0 BY <1>1, FdIsNew
<1>3. t \in SlotType /\ t.id = id /\ t.high = <<>> /\ t.low = <<>> /\ t.wb_size = 0
  <2>1. ASSUME NEW ty \in {"CONNECTED", "PLISTEN", "PACCEPT"}, t = [x EXCEPT !.type = ty]
        PROVE  t \in SlotType /\ t.id = id /\ t.high = <<>> /\ t.low = <<>> /\ t.wb_size = 0
    BY <1>2, <2>1 DEF SlotType
  <2>2. CASE t = [x EXCEPT !.type = "CONNECTING", !.armed = TRUE] BY <1>2, <2>2 DEF SlotType
  <2>3. CASE t = [x EXCEPT !.type = "BIND", !.fd = "file"] BY <1>2, <2>3 DEF SlotType
  <2>4. QED BY <1>1, <2>1, <2>2, <2>3
<1>4. QED BY <1>3 DEF Rests

(* open_socket, listen_socket, bind_socket.                                 *)
LEMMA OpenWire ==
  ASSUME SocketInv, WireInv, OpenSocket \/ ListenSocket \/ BindSocket
  PROVE  WireInv'
<1>0. SocketType BY DEF SocketInv
<1>1. pipe # <<>> /\ Opens(Head(pipe)) /\ wire' = wire
  BY DEF OpenSocket, ListenSocket, BindSocket, Command, Opens
<1>2. PICK h \in Nat : h = Head(pipe).id BY <1>0, <1>1, PipeRead DEF SocketType, Commands
<1>3. PICK k \in SlotsOf : k = Hash(h) BY HashIn
<1>4. sock[k] \in SlotType BY <1>0 DEF SocketType
<1>5. h \in Ids /\ Fresh(h)
  <2>1. 1 \in DOMAIN pipe /\ Head(pipe) = pipe[1] BY <1>0, <1>1, PipeRead DEF SocketType
  <2>2. QED BY <1>1, <1>2, <2>1 DEF WireInv, WireType, Fresh
<1>6. /\ \E m : CtrlEnd(m, h)
      /\ \E t : /\ sock' = [sock EXCEPT ![k] = t]
                /\ \/ t = [sock[k] EXCEPT !.type = "INVALID"]
                   \/ \E ty \in {"CONNECTED", "PLISTEN", "PACCEPT"} : t = [NewFd(h) EXCEPT !.type = ty]
                   \/ t = [NewFd(h) EXCEPT !.type = "CONNECTING", !.armed = TRUE]
                   \/ t = [NewFd(h) EXCEPT !.type = "BIND", !.fd = "file"]
  <2>1. CASE OpenSocket BY <1>2, <1>3, <2>1 DEF OpenSocket
  <2>2. CASE ListenSocket BY <1>2, <1>3, <2>2 DEF ListenSocket
  <2>3. CASE BindSocket BY <1>2, <1>3, <2>3 DEF BindSocket
  <2>4. QED BY <2>1, <2>2, <2>3
<1>7. PICK t : /\ sock' = [sock EXCEPT ![k] = t]
               /\ \/ t = [sock[k] EXCEPT !.type = "INVALID"]
                  \/ \E ty \in {"CONNECTED", "PLISTEN", "PACCEPT"} : t = [NewFd(h) EXCEPT !.type = ty]
                  \/ t = [NewFd(h) EXCEPT !.type = "CONNECTING", !.armed = TRUE]
                  \/ t = [NewFd(h) EXCEPT !.type = "BIND", !.fd = "file"]
  BY <1>6
<1>8. pipe' = Tail(pipe) /\ UNCHANGED <<alloc_id, reserved, posted>> BY <1>6, CtrlEffect
<1>9. t \in SlotType /\ Rests(sock[k], t)
  <2>1. CASE t = [sock[k] EXCEPT !.type = "INVALID"]
    <3>1. t \in SlotType /\ t.high = sock[k].high /\ t.low = sock[k].low /\ t.type = "INVALID"
      BY <1>4, <2>1 DEF SlotType
    <3>2. QED BY <3>1 DEF Rests, InUse
  <2>2. CASE t # [sock[k] EXCEPT !.type = "INVALID"] BY <1>5, <1>7, <2>2, NewRests
  <2>3. QED BY <2>1, <2>2
<1>10. QED BY <1>1, <1>7, <1>8, <1>9, SlotRests

(* start_socket                                                             *)
LEMMA StartWire ==
  ASSUME SocketInv, WireInv, StartSocket
  PROVE  WireInv'
<1>0. SocketType BY DEF SocketInv
<1>1. pipe # <<>> /\ wire' = wire BY DEF StartSocket, Command
<1>2. PICK h \in Nat : h = Head(pipe).id BY <1>0, <1>1, PipeRead DEF SocketType, Commands
<1>3. PICK k \in SlotsOf : k = Hash(h) BY HashIn
<1>4. PICK s \in SlotType : s = sock[k] BY <1>0 DEF SocketType
<1>5. PICK m : CtrlEnd(m, h) BY <1>2 DEF StartSocket
<1>6. pipe' = Tail(pipe) /\ UNCHANGED <<alloc_id, reserved, posted>> BY <1>5, CtrlEffect
<1>7. \/ sock' = sock
      \/ /\ s.type \in {"PACCEPT", "PLISTEN"}
         /\ \/ \E ty \in {"CONNECTED", "LISTEN"} : sock' = [sock EXCEPT ![k] = [s EXCEPT !.type = ty]]
            \/ sock' = [sock EXCEPT ![k] = ForceClose(s)]
  <2>1. ASSUME sock' = [sock EXCEPT ![k].type = IF @ = "PACCEPT" THEN "CONNECTED" ELSE "LISTEN"]
        PROVE  \E ty \in {"CONNECTED", "LISTEN"} : sock' = [sock EXCEPT ![k] = [s EXCEPT !.type = ty]]
    <3> DEFINE ty == IF sock[k].type = "PACCEPT" THEN "CONNECTED" ELSE "LISTEN"
    <3>1. sock' = [sock EXCEPT ![k] = [s EXCEPT !.type = ty]] BY <1>4, <2>1
    <3>2. ty \in {"CONNECTED", "LISTEN"} OBVIOUS
    <3> HIDE DEF ty
    <3>3. QED BY <3>1, <3>2
  <2>2. QED BY <1>2, <1>3, <1>4, <2>1 DEF StartSocket
<1>8. CASE sock' = sock BY <1>1, <1>6, <1>8, TableRests
<1>9. ASSUME s.type \in {"PACCEPT", "PLISTEN"}, NEW ty \in {"CONNECTED", "LISTEN"},
             sock' = [sock EXCEPT ![k] = [s EXCEPT !.type = ty]]
      PROVE  WireInv'
  <2>1. PICK t : t = [s EXCEPT !.type = ty] OBVIOUS
  <2>2. t \in SlotType /\ t.high = s.high /\ t.low = s.low /\ t.id = s.id /\ t.wb_size = s.wb_size
    BY <2>1 DEF SlotType
  <2>3. Rests(sock[k], t) BY <1>4, <1>9, <2>2 DEF Rests, InUse
  <2>4. sock' = [sock EXCEPT ![k] = t] BY <1>9, <2>1
  <2>5. QED BY <1>1, <1>6, <2>2, <2>3, <2>4, SlotRests
<1>10. CASE sock' = [sock EXCEPT ![k] = ForceClose(s)]
  <2>1. PICK t \in SlotType : t = ForceClose(s) /\ Rests(sock[k], t) BY <1>4, ClosedRests
  <2>2. QED BY <1>1, <1>6, <1>10, <2>1, SlotRests
<1>11. QED BY <1>7, <1>8, <1>9, <1>10

(* close_socket: the buffers are tried, and the rest of the line stays.       *)
LEMMA CloseWire ==
  ASSUME SocketInv, WireInv, CloseSocket, ~Abort
  PROVE  WireInv'
<1>0. SocketType /\ WireType BY DEF SocketInv, WireInv
<1>1. pipe # <<>> BY DEF CloseSocket, Command
<1>2. PICK h \in Nat : h = Head(pipe).id BY <1>0, <1>1, PipeRead DEF SocketType, Commands
<1>3. PICK k \in SlotsOf : k = Hash(h) BY HashIn
<1>4. PICK s \in SlotType : s = sock[k] BY <1>0 DEF SocketType
<1>5. Live(h) <=> s.type # "INVALID" /\ s.id = h BY <1>3, <1>4 DEF Live
<1>6. CASE ~Live(h)
  <2>1. CtrlEnd("close", h) /\ sock' = sock /\ wire' = wire BY <1>2, <1>6 DEF CloseSocket
  <2>2. pipe' = Tail(pipe) /\ UNCHANGED <<alloc_id, reserved, posted>> BY <2>1, CtrlEffect
  <2>3. QED BY <1>1, <2>1, <2>2, TableRests
<1>7. CASE Live(h)
  <2> DEFINE outs == IF Empty(s) THEN {[s |-> s, w |-> <<>>]} ELSE SendBuffer(s)
             over(r) == r.s.type = "INVALID" \/ Head(pipe).op = "H" \/ Empty(r.s)
             last(r) == IF over(r) THEN ForceClose(r.s) ELSE [r.s EXCEPT !.type = "HALFCLOSE"]
  <2>1. ~SendAborts(s) /\ \E r \in outs :
           /\ sock' = [sock EXCEPT ![k] = last(r)]
           /\ CtrlEnd(IF over(r) THEN "close" ELSE "nothing", h)
           /\ wire' = [wire EXCEPT ![h] = wire[h] \o r.w]
    BY <1>2, <1>3, <1>4, <1>7 DEF CloseSocket
  <2>2. PICK r \in outs : /\ sock' = [sock EXCEPT ![k] = last(r)]
                          /\ CtrlEnd(IF over(r) THEN "close" ELSE "nothing", h)
                          /\ wire' = [wire EXCEPT ![h] = wire[h] \o r.w]
    BY <2>1
  <2>3. InUse(s) /\ s.id = h BY <1>5, <1>7, <2>1 DEF InUse, SendAborts
  <2>4. h \in Ids /\ LowWhole(s) /\ LineSound(s, wire[h], posted) /\ Older(s, wire[h], pipe)
    BY <1>4, <2>3 DEF WireInv, WireType
  <2>5. PICK w \in Seq(Nat \X Nat) : w = wire[h] BY <1>0, <2>4 DEF WireType
  <2>6. pipe' = Tail(pipe) /\ UNCHANGED <<alloc_id, reserved, posted>> BY <2>2, CtrlEffect
  <2>7. PICK u \in SlotType : u = r.s
    <3>1. CASE Empty(s)
      <4>1. r = [s |-> s, w |-> <<>>] BY <3>1
      <4>2. QED BY <4>1
    <3>2. CASE ~Empty(s) BY <3>2, BufferSent
    <3>3. QED BY <3>1, <3>2
  <2>8. PICK v \in Seq(Nat \X Nat) :
          /\ v = w \o r.w /\ LowWhole(u) /\ Stream(v, h, posted) /\ u.id = h
          /\ InUse(u) => Line(u, v) = Line(s, w) /\ LineSound(u, v, posted)
    <3>1. CASE Empty(s)
      <4>1. r = [s |-> s, w |-> <<>>] BY <3>1
      <4>2. r.s = s /\ r.w = <<>> BY <4>1
      <4>3. w \o <<>> = w OBVIOUS
      <4>4. Stream(w, h, posted) BY <2>4, <2>5 DEF WireInv
      <4>5. QED BY <2>3, <2>4, <2>5, <2>7, <4>2, <4>3, <4>4
    <3>2. CASE ~Empty(s)
      <4>1. r \in SendBuffer(s) BY <3>2
      <4>2. LineSound(s, w, posted) BY <2>4, <2>5
      <4>3. /\ w \o r.w \in Seq(Nat \X Nat) /\ LowWhole(r.s)
            /\ Stream(w \o r.w, s.id, posted)
            /\ InUse(r.s) => /\ Line(r.s, w \o r.w) = Line(s, w)
                             /\ LineSound(r.s, w \o r.w, posted)
        BY <2>3, <2>4, <4>1, <4>2, SentLine
      <4>4. r.s.id = s.id BY <4>1, BufferSent
      <4>5. QED BY <2>3, <2>7, <4>3, <4>4
    <3>3. QED BY <3>1, <3>2
  <2>9. wire' = [wire EXCEPT ![h] = v] BY <2>2, <2>5, <2>8
  <2>10. PICK t : t = last(r) OBVIOUS
  <2>11. sock' = [sock EXCEPT ![k] = t] BY <2>2, <2>10
  <2>12. /\ t \in SlotType /\ LowWhole(t)
         /\ InUse(t) => t.id = h /\ LineSound(t, v, posted) /\ Older(t, v, pipe')
    <3>1. CASE over(r)
      <4>1. t = ForceClose(u) BY <2>7, <2>10, <3>1
      <4>2. t.low = <<>> /\ t.type = "INVALID" BY <4>1 DEF ForceClose, SlotType
      <4>3. t \in SlotType BY <4>1, ForceCloseSlot
      <4>4. LowWhole(t) /\ ~InUse(t) BY <4>2 DEF LowWhole, InUse
      <4>5. QED BY <4>3, <4>4
    <3>2. CASE ~over(r)
      <4>1. t = [u EXCEPT !.type = "HALFCLOSE"] BY <2>7, <2>10, <3>2
      <4>2. /\ t \in SlotType /\ t.id = u.id /\ t.high = u.high /\ t.low = u.low
            /\ t.wb_size = u.wb_size
        BY <4>1 DEF SlotType
      <4>3. InUse(u)
        <5>1. r.s.type = s.type \/ r.s.type = "INVALID"
          <6>1. CASE Empty(s)
            <7>1. r = [s |-> s, w |-> <<>>] BY <6>1
            <7>2. QED BY <7>1
          <6>2. CASE ~Empty(s) BY <6>2, BufferSent
          <6>3. QED BY <6>1, <6>2
        <5>2. QED BY <2>3, <2>7, <3>2, <5>1 DEF InUse
      <4>4. Line(t, v) = Line(u, v) BY <4>2 DEF Line
      <4>5. LineSound(t, v, posted) /\ LowWhole(t) /\ t.id = h
        BY <2>8, <4>2, <4>3, <4>4 DEF LineSound, LowWhole
      <4>6. Older(s, w, pipe')
        <5>1. FewerSends BY <1>0, <1>1, <2>6, PipeShrinks
        <5>2. QED BY <2>4, <2>5, <5>1, StaysOlder
      <4>7. Older(t, v, pipe') BY <2>8, <4>3, <4>4, <4>6 DEF Older
      <4>8. QED BY <4>2, <4>5, <4>7
    <3>3. QED BY <3>1, <3>2
  <2>13. InUse(sock[k]) /\ sock[k].id = h BY <1>4, <2>3
  <2>14. QED BY <1>1, <2>6, <2>8, <2>9, <2>11, <2>12, <2>13, WireWritten
<1>8. QED BY <1>6, <1>7
-----------------------------------------------------------------------------
(* A package is sent.                                                       *)

(* Lists one after another, as operators of their own for the steps that     *)
(* only regroup them.                                                       *)
Cat(a, b) == a \o b
Between(a, q, b) == (a \o q) \o b

(* Three lists again.                                                       *)
LEMMA Grouping ==
  ASSUME NEW a \in Seq(Nat \X Nat), NEW b \in Seq(Nat \X Nat), NEW c \in Seq(Nat \X Nat)
  PROVE  Cat(Cat(a, b), c) = Cat(a, Cat(b, c))
  BY ZenonT(30), Regroup DEF Cat

(* Every element of c is one of q or one of e.                              *)
FromEither(c, q, e) ==
  \A i \in DOMAIN c : (\E j \in DOMAIN q : c[i] = q[j]) \/ \E j \in DOMAIN e : c[i] = e[j]

(* A place behind x others.                                                 *)
LEMMA Offset ==
  ASSUME NEW x \in Nat, NEW z \in Nat, NEW i \in Nat, x < i, i <= x + z
  PROVE  \E p \in 1 .. z : i = x + p
<1>1. i - x \in 1 .. z /\ i = x + (i - x) OBVIOUS
<1>2. QED BY <1>1

(* A list put between two others.                                           *)
LEMMA PutBetween ==
  ASSUME NEW a \in Seq(Nat \X Nat), NEW q \in Seq(Nat \X Nat), NEW b \in Seq(Nat \X Nat)
  PROVE  FromEither(Between(a, q, b), q, Cat(a, b))
<1>1. PICK x \in Nat : x = Len(a) OBVIOUS
<1>2. PICK y \in Nat : y = Len(b) OBVIOUS
<1>3. PICK z \in Nat : z = Len(q) OBVIOUS
<1>4. PICK d \in Seq(Nat \X Nat) : d = a \o q BY Joining
<1>5. PICK c \in Seq(Nat \X Nat) : c = d \o b BY Joining
<1>6. PICK e \in Seq(Nat \X Nat) : e = a \o b BY Joining
<1>7. /\ Len(d) = x + z /\ DOMAIN q = 1 .. z
      /\ (\A i \in 1 .. x : d[i] = a[i]) /\ \A i \in 1 .. z : d[x + i] = q[i]
  BY <1>1, <1>3, <1>4, Joining
<1>8. /\ DOMAIN c = 1 .. (x + z) + y
      /\ (\A i \in 1 .. x + z : c[i] = d[i]) /\ \A i \in 1 .. y : c[(x + z) + i] = b[i]
  <2>1. /\ DOMAIN (d \o b) = 1 .. Len(d) + Len(b)
        /\ \A i \in 1 .. Len(d) : (d \o b)[i] = d[i]
        /\ \A i \in 1 .. Len(b) : (d \o b)[Len(d) + i] = b[i]
    BY ONLY d \in Seq(Nat \X Nat), b \in Seq(Nat \X Nat), Joining
  <2>2. QED BY <1>2, <1>5, <1>7, <2>1
<1>9. /\ DOMAIN e = 1 .. x + y
      /\ (\A i \in 1 .. x : e[i] = a[i]) /\ \A i \in 1 .. y : e[x + i] = b[i]
  BY <1>1, <1>2, <1>6, Joining
<1>10. ASSUME NEW i \in DOMAIN c
       PROVE  (\E j \in DOMAIN q : c[i] = q[j]) \/ \E j \in DOMAIN e : c[i] = e[j]
  <2>0. i \in Nat /\ i >= 1 /\ i <= (x + z) + y BY <1>8
  <2>1. CASE i <= x
    <3>1. i \in 1 .. x /\ i \in 1 .. x + z /\ i \in 1 .. x + y BY SMTT(30), <2>0, <2>1
    <3>2. QED BY <1>7, <1>8, <1>9, <3>1
  <2>2. CASE i > x /\ i <= x + z
    <3>1. PICK p \in 1 .. z : i = x + p BY <2>0, <2>2, Offset
    <3>2. i \in 1 .. x + z BY <2>0, <2>2
    <3>3. QED BY <1>7, <1>8, <3>1, <3>2
  <2>3. CASE i > x + z
    <3>0. PICK xz \in Nat : xz = x + z OBVIOUS
    <3>1. PICK p \in 1 .. y : i = (x + z) + p
      <4>1. PICK p \in 1 .. y : i = xz + p BY ZenonT(30), <2>0, <2>3, <3>0, Offset
      <4>2. QED BY <3>0, <4>1
    <3>2. x + p \in 1 .. x + y OBVIOUS
    <3>3. QED BY ZenonT(30), <1>8, <1>9, <3>1, <3>2
  <2>4. QED BY SMTT(30), <2>0, <2>1, <2>2, <2>3
<1>11. FromEither(c, q, e) BY <1>10 DEF FromEither
<1>12. QED BY <1>4, <1>5, <1>6, <1>11 DEF Between, Cat

(* A package may follow in a socket's line: all of the line is older.        *)
MayFollow(s, w, n, P) ==
  /\ n \in DOMAIN P /\ P[n].id = s.id /\ DOMAIN P \subseteq Nat
  /\ \A i \in DOMAIN Line(s, w) : Line(s, w)[i][1] < n

(* The lists of a slot with a package more, in the low list, in the high one,  *)
(* or in the empty high one from part m + 1 on.                             *)
InLow(t, s, n) ==
  t.high = s.high /\ t.low = s.low \o Parts(n) /\ t.id = s.id /\ t.wb_size = s.wb_size + Size
InHigh(t, s, n) ==
  t.high = s.high \o Parts(n) /\ t.low = s.low /\ t.id = s.id /\ t.wb_size = s.wb_size + Size
FromPart(t, s, n, m) ==
  t.high = Rest(Parts(n), m) /\ t.low = <<>> /\ t.id = s.id /\ t.wb_size = Size - m
IsLow(n, P) == P[n].op = "P"

(* The line is longer by a package.                                         *)
Longer(t, v, s, w, n) ==
  \A i \in DOMAIN Line(t, v) :
    Line(t, v)[i][1] = n \/ \E j \in DOMAIN Line(s, w) : Line(t, v)[i] = Line(s, w)[j]

(* A list with a package in it.                                             *)
LEMMA PackageBetween ==
  ASSUME NEW a \in Seq(Nat \X Nat), NEW b \in Seq(Nat \X Nat), NEW n \in Nat,
         NEW i \in DOMAIN Between(a, Parts(n), b)
  PROVE  \/ Between(a, Parts(n), b)[i][1] = n
         \/ \E j \in DOMAIN Cat(a, b) : Between(a, Parts(n), b)[i] = Cat(a, b)[j]
<1>1. PICK q \in Seq(Nat \X Nat) : q = Parts(n) BY PartsOf
<1>2. \A j \in DOMAIN q : q[j][1] = n
  <2>1. DOMAIN q = 1 .. Size BY <1>1 DEF Parts
  <2>2. \A j \in 1 .. Size : q[j] = <<n, j>> BY <1>1, PartsOf
  <2>3. QED BY <2>1, <2>2
<1>3. FromEither(Between(a, q, b), q, Cat(a, b)) BY PutBetween
<1>4. QED BY <1>1, <1>2, <1>3 DEF FromEither

(* append_sendbuffer_low: the package is the last of the line.              *)
LEMMA LowQueued ==
  ASSUME NEW s \in SlotType, NEW w \in Seq(Nat \X Nat), NEW P, NEW n \in Nat,
         LineSound(s, w, P), MayFollow(s, w, n, P), IsLow(n, P),
         NEW t \in SlotType, InLow(t, s, n)
  PROVE  LineSound(t, w, P) /\ Longer(t, w, s, w, n)
<1>0. s.high \in Seq(Nat \X Nat) /\ s.low \in Seq(Nat \X Nat) BY DEF SlotType
<1>1. PICK q \in Seq(Nat \X Nat) : q = Parts(n) BY PartsOf
<1>2. PICK h \in Seq(Nat \X Nat) : h = s.high BY <1>0
<1>3. PICK m \in Seq(Nat \X Nat) : m = s.low BY <1>0
<1>4. PICK a \in Seq(Nat \X Nat) : a = Line(s, w) /\ a = w \o (h \o m)
  <2>1. w \o (h \o m) \in Seq(Nat \X Nat) BY Joining
  <2>2. QED BY <1>2, <1>3, <2>1 DEF Line
<1>5. Line(t, w) = (a \o q) \o <<>>
  <2>1. Cat(h, Cat(m, q)) = Cat(Cat(h, m), q) BY Grouping
  <2>2. PICK hm \in Seq(Nat \X Nat) : hm = h \o m BY Joining
  <2>3. Cat(w, Cat(hm, q)) = Cat(Cat(w, hm), q) BY Grouping
  <2>4. Line(t, w) = w \o (h \o (m \o q)) BY <1>1, <1>2, <1>3 DEF Line, InLow
  <2>5. Line(t, w) = a \o q BY <1>4, <2>1, <2>2, <2>3, <2>4 DEF Cat
  <2>6. a \o q \in Seq(Nat \X Nat) BY Joining
  <2>7. (a \o q) \o <<>> = a \o q BY <2>6, ConcatEmptySeq
  <2>8. QED BY <2>5, <2>7
<1>6. PICK e \in Seq(Nat \X Nat) : e = <<>>
  <2>1. <<>> \in Seq(Nat \X Nat) OBVIOUS
  <2>2. QED BY <2>1
<1>7. a \o e = a BY <1>6, ConcatEmptySeq
<1>8. Stream(a, s.id, P) /\ Ended(a) /\ \A i \in DOMAIN a : a[i][1] < n
  BY <1>4 DEF LineSound, MayFollow
<1>9. DOMAIN e = {} BY <1>6
<1>10. n \in DOMAIN P /\ P[n].id = s.id /\ DOMAIN P \subseteq Nat BY DEF MayFollow
<1>11. Stream((a \o Parts(n)) \o e, s.id, P) /\ Ended((a \o Parts(n)) \o e)
  <2>1. Stream(a \o e, s.id, P) /\ Ended(a \o e) BY <1>7, <1>8
  <2>2. QED BY <1>6, <1>8, <1>9, <1>10, <2>1, StreamGrows
<1>12. Stream(Line(t, w), t.id, P) /\ Ended(Line(t, w)) BY <1>1, <1>5, <1>6, <1>11 DEF InLow
<1>13. \A i \in DOMAIN t.low : P[t.low[i][1]].op = "P"
  <2>1. DOMAIN q = 1 .. Size BY <1>1 DEF Parts
  <2>2. \A i \in DOMAIN q : q[i][1] = n
    <3>1. \A j \in 1 .. Size : q[j] = <<n, j>> BY <1>1, PartsOf
    <3>2. QED BY <2>1, <3>1
  <2>3. \A i \in DOMAIN m : P[m[i][1]].op = "P" BY <1>3 DEF LineSound
  <2>4. \A i \in DOMAIN (m \o q) :
          (\E j \in DOMAIN m : (m \o q)[i] = m[j]) \/ \E j \in DOMAIN q : (m \o q)[i] = q[j]
    <3>1. PICK mq \in Seq(Nat \X Nat) : mq = m \o q BY Joining
    <3>2. PICK x \in Nat : x = Len(m) OBVIOUS
    <3>3. PICK z \in Nat : z = Len(q) OBVIOUS
    <3>4. /\ DOMAIN mq = 1 .. x + z /\ DOMAIN m = 1 .. x /\ DOMAIN q = 1 .. z
          /\ (\A i \in 1 .. x : mq[i] = m[i]) /\ \A i \in 1 .. z : mq[x + i] = q[i]
      BY <3>1, <3>2, <3>3, Joining
    <3>5. \A i \in 1 .. x + z : i \in 1 .. x \/ (i - x \in 1 .. z /\ i = x + (i - x)) OBVIOUS
    <3>6. \A i \in 1 .. x + z : (\E j \in 1 .. x : mq[i] = m[j]) \/ \E j \in 1 .. z : mq[i] = q[j]
      BY <3>4, <3>5
    <3>7. QED BY <3>1, <3>4, <3>6
  <2>5. t.low = m \o q BY <1>1, <1>3 DEF InLow
  <2>6. ASSUME NEW i \in DOMAIN t.low PROVE P[t.low[i][1]].op = "P"
    <3>1. PICK l : l = t.low[i] OBVIOUS
    <3>2. (\E j \in DOMAIN m : l = m[j]) \/ \E j \in DOMAIN q : l = q[j] BY <2>4, <2>5, <2>6, <3>1, Zenon
    <3>3. l[1] = n \/ P[l[1]].op = "P" BY <2>2, <2>3, <3>2
    <3>4. QED BY <3>1, <3>3 DEF IsLow
  <2>7. QED BY <2>6
<1>14. t.wb_size = Len(t.high) + Len(t.low)
  <2>1. Len(m \o q) = Len(m) + Len(q) /\ Len(q) = Size BY <1>1, Joining, PartsOf
  <2>2. PICK x \in Nat : x = Len(h) OBVIOUS
  <2>3. PICK y \in Nat : y = Len(m) OBVIOUS
  <2>4. PICK z \in Nat : z = Size BY SocketAssumption DEF SocketAssumption
  <2>5. t.wb_size = (x + y) + z BY <1>2, <1>3, <2>2, <2>3, <2>4 DEF LineSound, InLow
  <2>6. Len(t.high) = x /\ Len(t.low) = y + z BY <1>1, <1>2, <1>3, <2>1, <2>2, <2>3, <2>4 DEF InLow
  <2>7. QED BY <2>5, <2>6
<1>15. LineSound(t, w, P) BY <1>12, <1>13, <1>14 DEF LineSound
<1>16. Longer(t, w, s, w, n)
  <2>1. Line(t, w) = Between(a, Parts(n), e) BY <1>1, <1>5, <1>6 DEF Between
  <2>2. Line(s, w) = Cat(a, e) BY <1>4, <1>7 DEF Cat
  <2>3. QED BY <2>1, <2>2, PackageBetween DEF Longer
<1>17. QED BY <1>15, <1>16

(* append_sendbuffer: the package is the last of those of high priority.     *)
LEMMA HighQueued ==
  ASSUME NEW s \in SlotType, NEW w \in Seq(Nat \X Nat), NEW P, NEW n \in Nat,
         LineSound(s, w, P), LowWhole(s), MayFollow(s, w, n, P), ~IsLow(n, P),
         NEW t \in SlotType, InHigh(t, s, n)
  PROVE  LineSound(t, w, P) /\ Longer(t, w, s, w, n)
<1>0. s.high \in Seq(Nat \X Nat) /\ s.low \in Seq(Nat \X Nat) BY DEF SlotType
<1>1. PICK q \in Seq(Nat \X Nat) : q = Parts(n) BY PartsOf
<1>2. PICK h \in Seq(Nat \X Nat) : h = s.high BY <1>0
<1>3. PICK m \in Seq(Nat \X Nat) : m = s.low BY <1>0
<1>4. PICK a \in Seq(Nat \X Nat) : a = w \o h BY Joining
<1>5. Line(s, w) = a \o m BY <1>2, <1>3, <1>4, LineSplits
<1>6. Line(t, w) = (a \o q) \o m
  <2>0. Cat(w, Cat(h, q)) = Cat(Cat(w, h), q) BY Grouping
  <2>1. w \o (h \o q) = (w \o h) \o q BY <2>0 DEF Cat
  <2>2. Line(t, w) = (w \o t.high) \o t.low BY LineSplits
  <2>3. QED BY <1>1, <1>2, <1>3, <1>4, <2>1, <2>2 DEF InHigh
<1>7. Stream(a \o m, s.id, P) /\ Ended(a \o m) BY <1>5 DEF LineSound
<1>8. \A i \in DOMAIN a : a[i][1] < n
  <2>1. \A i \in DOMAIN a : i \in DOMAIN (a \o m) /\ (a \o m)[i] = a[i] BY SMTT(30), Joining
  <2>2. QED BY <1>5, <2>1 DEF MayFollow
<1>9. (m # <<>> => m[1][2] = 1) /\ \A i \in DOMAIN m : P[m[i][1]].op # P[n].op
  BY <1>3 DEF LowWhole, LineSound, IsLow
<1>10. n \in DOMAIN P /\ P[n].id = s.id /\ DOMAIN P \subseteq Nat BY DEF MayFollow
<1>11. Stream((a \o Parts(n)) \o m, s.id, P) /\ Ended((a \o Parts(n)) \o m)
  BY <1>7, <1>8, <1>9, <1>10, StreamGrows
<1>12. Stream(Line(t, w), t.id, P) /\ Ended(Line(t, w)) BY <1>1, <1>6, <1>11 DEF InHigh
<1>13. t.wb_size = Len(t.high) + Len(t.low)
  <2>1. Len(h \o q) = Len(h) + Len(q) /\ Len(q) = Size BY <1>1, Joining, PartsOf
  <2>2. PICK x \in Nat : x = Len(h) OBVIOUS
  <2>3. PICK y \in Nat : y = Len(m) OBVIOUS
  <2>4. PICK z \in Nat : z = Size BY SocketAssumption DEF SocketAssumption
  <2>5. t.wb_size = (x + y) + z BY <1>2, <1>3, <2>2, <2>3, <2>4 DEF LineSound, InHigh
  <2>6. Len(t.low) = y /\ Len(t.high) = x + z BY <1>1, <1>2, <1>3, <2>1, <2>2, <2>3, <2>4 DEF InHigh
  <2>7. QED BY <2>5, <2>6
<1>14. LineSound(t, w, P) BY <1>12, <1>13 DEF LineSound, InHigh
<1>15. Longer(t, w, s, w, n)
  <2>1. Line(t, w) = Between(a, Parts(n), m) /\ Line(s, w) = Cat(a, m) BY <1>1, <1>5, <1>6 DEF Between, Cat
  <2>2. QED BY <2>1, PackageBetween DEF Longer
<1>16. QED BY <1>14, <1>15

(* A package written at once as far as it goes, the rest in the high list.   *)
LEMMA AtOnceLine ==
  ASSUME NEW s \in SlotType, Empty(s), NEW w \in Seq(Nat \X Nat), NEW P, NEW n \in Nat,
         LineSound(s, w, P), MayFollow(s, w, n, P), NEW m \in 0 .. Size,
         NEW t \in SlotType, FromPart(t, s, n, m)
  PROVE  LET v == w \o SubSeq(Parts(n), 1, m) IN
         /\ v \in Seq(Nat \X Nat) /\ Stream(v, s.id, P)
         /\ LineSound(t, v, P) /\ Longer(t, v, s, w, n)
<1> DEFINE v == w \o SubSeq(Parts(n), 1, m)
<1>0. PICK q \in Seq(Nat \X Nat) : q = Parts(n) /\ Len(q) = Size BY PartsOf
<1>1. PICK o \in Seq(Nat \X Nat) : o = SubSeq(q, 1, m) BY <1>0, Cutting
<1>2. PICK h \in Seq(Nat \X Nat) : h = Rest(q, m) BY <1>0, Cutting
<1>3. o \o h = q /\ Len(h) = Size - m BY <1>0, <1>1, <1>2, Cutting
<1>4. PICK e \in Seq(Nat \X Nat) : e = <<>>
  <2>1. <<>> \in Seq(Nat \X Nat) OBVIOUS
  <2>2. QED BY <2>1
<1>5. Line(s, w) = w /\ w \o e = w
  <2>1. e \o e = e /\ w \o e = w BY <1>4, ConcatEmptySeq
  <2>2. s.high = e /\ s.low = e BY <1>4 DEF Empty
  <2>3. QED BY <2>1, <2>2 DEF Line
<1>6. v \in Seq(Nat \X Nat) /\ v = w \o o BY <1>0, <1>1, Joining
<1> HIDE DEF v
<1>7. Line(t, v) = w \o q
  <2>1. h \o e = h BY <1>4, ConcatEmptySeq
  <2>2. Line(t, v) = v \o h BY <1>0, <1>2, <1>4, <2>1 DEF Line, FromPart
  <2>0. Cat(Cat(w, o), h) = Cat(w, Cat(o, h)) BY Grouping
  <2>3. (w \o o) \o h = w \o (o \o h) BY <2>0 DEF Cat
  <2>4. QED BY <1>3, <1>6, <2>2, <2>3
<1>8. (w \o q) \o e = w \o q
  <2>1. w \o q \in Seq(Nat \X Nat) BY Joining
  <2>2. QED BY <1>4, <2>1, ConcatEmptySeq
<1>9. /\ Stream(w \o e, s.id, P) /\ Ended(w \o e) /\ DOMAIN e = {}
      /\ n \in DOMAIN P /\ P[n].id = s.id /\ DOMAIN P \subseteq Nat /\ \A i \in DOMAIN w : w[i][1] < n
  BY <1>4, <1>5 DEF LineSound, MayFollow
<1>10. Stream((w \o Parts(n)) \o e, s.id, P) /\ Ended((w \o Parts(n)) \o e)
  BY <1>4, <1>9, StreamGrows
<1>11. Stream(Line(t, v), t.id, P) /\ Ended(Line(t, v)) BY <1>0, <1>7, <1>8, <1>10 DEF FromPart
<1>12. Stream(v, s.id, P)
  <2>1. Stream(v \o h, s.id, P)
    <3>0. Cat(Cat(w, o), h) = Cat(w, Cat(o, h)) BY Grouping
    <3>1. v \o h = w \o q BY <1>3, <1>6, <3>0 DEF Cat
    <3>2. QED BY <1>7, <1>11, <3>1 DEF FromPart
  <2>2. QED BY <1>6, <2>1, StreamBegins
<1>13. DOMAIN t.low = {} /\ Len(t.low) = 0 /\ Len(t.high) = Size - m BY <1>0, <1>2, <1>3 DEF FromPart
<1>14. t.wb_size = Len(t.high) + Len(t.low)
  <2>1. Size - m \in Int BY SocketAssumption DEF SocketAssumption
  <2>2. QED BY <1>13, <2>1 DEF FromPart
<1>15. LineSound(t, v, P) BY <1>11, <1>13, <1>14 DEF LineSound
<1>16. Longer(t, v, s, w, n)
  <2>1. Line(t, v) = Between(w, Parts(n), e) /\ Line(s, w) = Cat(w, e)
    BY <1>0, <1>5, <1>7, <1>8 DEF Between, Cat
  <2>2. QED BY <2>1, PackageBetween DEF Longer
<1>17. QED BY <1>6, <1>12, <1>15, <1>16 DEF v

(* What follows a line that has grown by the package read from the pipe.     *)
LEMMA GrownOlder ==
  ASSUME SocketType, Sends, pipe # <<>>, pipe' = Tail(pipe), IsSend(Head(pipe)),
         NEW s, NEW w, NEW t, NEW v, Older(s, w, pipe), Longer(t, v, s, w, Head(pipe).n)
  PROVE  Older(t, v, pipe')
<1>0. /\ 1 \in DOMAIN pipe /\ Head(pipe) = pipe[1]
      /\ \A j \in DOMAIN pipe' : j \in Nat \ {0} /\ j + 1 \in DOMAIN pipe /\ pipe'[j] = pipe[j + 1]
  BY PipeRead DEF SocketType
<1>1. ASSUME NEW i \in DOMAIN Line(t, v), NEW j \in DOMAIN pipe', IsSend(pipe'[j])
      PROVE  Line(t, v)[i][1] < pipe'[j].n
  <2>1. PICK l \in DOMAIN pipe : l = j + 1 /\ pipe'[j] = pipe[l] /\ 1 < l BY <1>0
  <2>2. Head(pipe).n < pipe[l].n BY <1>0, <1>1, <2>1 DEF Sends
  <2>3. CASE Line(t, v)[i][1] = Head(pipe).n BY <2>1, <2>2, <2>3
  <2>4. ASSUME NEW a \in DOMAIN Line(s, w), Line(t, v)[i] = Line(s, w)[a]
        PROVE  Line(t, v)[i][1] < pipe'[j].n
    BY <1>1, <2>1, <2>4 DEF Older
  <2>5. QED BY <1>1, <2>3, <2>4 DEF Longer
<1>2. QED BY <1>1 DEF Older

(* append_sendbuffer and append_sendbuffer_low.                             *)
LEMMA AppendedLists ==
  ASSUME NEW s \in SlotType, NEW n \in Nat
  PROVE  /\ AppendLow(s, Parts(n)) \in SlotType /\ InLow(AppendLow(s, Parts(n)), s, n)
         /\ AppendHigh(s, Parts(n)) \in SlotType /\ InHigh(AppendHigh(s, Parts(n)), s, n)
<1>1. PICK q \in Seq(Nat \X Nat) : q = Parts(n) /\ Len(q) = Size BY PartsOf
<1>2. PICK l : l = AppendLow(s, q) OBVIOUS
<1>3. PICK h : h = AppendHigh(s, q) OBVIOUS
<1>4. s.high \o q \in Seq(Nat \X Nat) /\ s.low \o q \in Seq(Nat \X Nat) /\ s.wb_size + Len(q) \in Int
  BY DEF SlotType
<1>5. /\ l \in SlotType /\ l.high = s.high /\ l.low = s.low \o q /\ l.id = s.id
      /\ l.wb_size = s.wb_size + Len(q)
  BY <1>2, <1>4 DEF AppendLow, SlotType
<1>6. /\ h \in SlotType /\ h.high = s.high \o q /\ h.low = s.low /\ h.id = s.id
      /\ h.wb_size = s.wb_size + Len(q)
  BY <1>3, <1>4 DEF AppendHigh, SlotType
<1>7. QED BY <1>1, <1>2, <1>3, <1>5, <1>6 DEF InLow, InHigh

(* A package that is queued is whole.                                       *)
LEMMA QueuedWhole ==
  ASSUME NEW s \in SlotType, NEW n \in Nat, LowWhole(s), NEW t, InLow(t, s, n) \/ InHigh(t, s, n)
  PROVE  LowWhole(t)
<1>1. CASE InHigh(t, s, n) BY <1>1 DEF InHigh, LowWhole
<1>2. CASE InLow(t, s, n)
  <2>1. PICK q \in Seq(Nat \X Nat) : q = Parts(n) /\ Len(q) = Size BY PartsOf
  <2>2. PICK m \in Seq(Nat \X Nat) : m = s.low BY DEF SlotType
  <2>3. Size \in Nat \ {0} BY SocketAssumption DEF SocketAssumption
  <2>4. q[1] = <<n, 1>>
    <3>1. \A i \in 1 .. Size : Parts(n)[i] = <<n, i>> BY PartsOf
    <3>2. 1 \in 1 .. Size BY <2>3
    <3>3. QED BY <2>1, <3>1, <3>2
  <2>5. t.low = m \o q BY <1>2, <2>1, <2>2 DEF InLow
  <2>6. CASE m = <<>>
    <3>1. m \o q = q BY <2>6
    <3>2. q[1][2] = 1 BY <2>4
    <3>3. QED BY <2>5, <3>1, <3>2 DEF LowWhole
  <2>7. CASE m # <<>>
    <3>1. (m \o q)[1] = m[1] BY <2>7
    <3>2. m[1][2] = 1 BY <2>2, <2>7 DEF LowWhole
    <3>3. QED BY <2>5, <3>1, <3>2 DEF LowWhole
  <2>8. QED BY <2>6, <2>7
<1>3. QED BY <1>1, <1>2

(* send_socket                                                              *)
LEMMA SendWire ==
  ASSUME SocketInv, WireInv, SendSocket
  PROVE  WireInv'
<1>0. SocketType /\ WireType /\ Sends BY DEF SocketInv, WireInv
<1>1. pipe # <<>> /\ IsSend(Head(pipe)) BY DEF SendSocket, Command, IsSend
<1>2. PICK h \in Nat : h = Head(pipe).id BY <1>0, <1>1, PipeRead DEF SocketType, Commands
<1>3. PICK k \in SlotsOf : k = Hash(h) BY HashIn
<1>4. PICK s \in SlotType : s = sock[k] BY <1>0 DEF SocketType
<1>5. Live(h) <=> s.type # "INVALID" /\ s.id = h BY <1>3, <1>4 DEF Live
<1>6. PICK n \in Nat : n = Head(pipe).n BY <1>0, <1>1, PipeRead DEF SocketType, Commands
<1>7. 1 \in DOMAIN pipe /\ Head(pipe) = pipe[1] BY <1>0, <1>1, PipeRead DEF SocketType
<1>8. n \in DOMAIN posted /\ posted[n].id = h /\ posted[n].op = Head(pipe).op
  BY <1>0, <1>1, <1>2, <1>6, <1>7 DEF Sends
<1>9. LowWhole(s) BY <1>4 DEF WireInv
<1>10. pipe' = Tail(pipe) /\ UNCHANGED <<alloc_id, reserved, posted>>
  <2>1. \E m : CtrlEnd(m, h) BY <1>2 DEF SendSocket
  <2>2. QED BY <2>1, CtrlEffect
<1>11. ASSUME InUse(s), s.id = h
       PROVE  /\ h \in Ids /\ wire[h] \in Seq(Nat \X Nat)
              /\ LineSound(s, wire[h], posted) /\ Older(s, wire[h], pipe)
              /\ MayFollow(s, wire[h], n, posted)
  <2>1. h \in Ids /\ LineSound(s, wire[h], posted) /\ Older(s, wire[h], pipe)
    BY <1>4, <1>11 DEF WireInv, WireType
  <2>2. wire[h] \in Seq(Nat \X Nat) BY <1>0, <2>1 DEF WireType
  <2>3. \A i \in DOMAIN Line(s, wire[h]) : Line(s, wire[h])[i][1] < n
    BY <1>1, <1>6, <1>7, <2>1 DEF Older
  <2>4. DOMAIN posted \subseteq Nat BY <1>0 DEF SocketType
  <2>5. QED BY <1>8, <1>11, <2>1, <2>2, <2>3, <2>4 DEF MayFollow
<1>12. ASSUME InUse(s), s.id = h, NEW t \in SlotType, sock' = [sock EXCEPT ![k] = t], t.id = h,
              NEW v \in Seq(Nat \X Nat), wire' = [wire EXCEPT ![h] = v], Stream(v, h, posted),
              LowWhole(t), LineSound(t, v, posted), Longer(t, v, s, wire[h], n)
       PROVE  WireInv'
  <2>1. Older(s, wire[h], pipe) BY <1>11, <1>12
  <2>2. Longer(t, v, s, wire[h], Head(pipe).n) BY <1>6, <1>12
  <2>3. Older(t, v, pipe') BY <1>0, <1>1, <1>10, <2>1, <2>2, GrownOlder
  <2>4. InUse(sock[k]) /\ sock[k].id = h BY <1>4, <1>12
  <2>5. QED BY <1>1, <1>10, <1>12, <2>3, <2>4, WireWritten
<1>13. CASE ~Live(h) \/ s.type \in {"HALFCLOSE", "PACCEPT", "PLISTEN", "LISTEN"}
  <2>1. sock' = sock /\ wire' = wire BY <1>2, <1>3, <1>4, <1>13 DEF SendSocket, WritesAtOnce
  <2>2. QED BY <1>1, <1>10, <2>1, TableRests
<1>14. CASE Live(h) /\ WritesAtOnce(s)
  <2>1. InUse(s) /\ s.id = h /\ Empty(s) BY <1>5, <1>14 DEF WritesAtOnce, InUse
  <2>2. \/ \E m \in 0 .. Size :
             /\ sock' = IF m = Size THEN sock
                        ELSE [sock EXCEPT ![k] = RestHigh(s, Rest(Parts(n), m))]
             /\ wire' = [wire EXCEPT ![h] = wire[h] \o SubSeq(Parts(n), 1, m)]
        \/ sock' = [sock EXCEPT ![k] = ForceClose(s)] /\ wire' = wire
    BY <1>2, <1>3, <1>4, <1>6, <1>14 DEF SendSocket, WritesAtOnce
  <2>3. CASE sock' = [sock EXCEPT ![k] = ForceClose(s)] /\ wire' = wire
    <3>1. PICK t \in SlotType : t = ForceClose(s) /\ Rests(sock[k], t) BY <1>4, ClosedRests
    <3>2. QED BY <1>1, <1>10, <2>3, <3>1, SlotRests
  <2>4. ASSUME NEW m \in 0 .. Size,
               sock' = IF m = Size THEN sock
                       ELSE [sock EXCEPT ![k] = RestHigh(s, Rest(Parts(n), m))],
               wire' = [wire EXCEPT ![h] = wire[h] \o SubSeq(Parts(n), 1, m)]
        PROVE  WireInv'
    <3>1. PICK t \in SlotType : sock' = [sock EXCEPT ![k] = t] /\ FromPart(t, s, n, m)
      <4>0. Size \in Nat /\ m \in Nat /\ m <= Size BY SocketAssumption DEF SocketAssumption
      <4>1. PICK q \in Seq(Nat \X Nat) : q = Parts(n) /\ Len(q) = Size BY PartsOf
      <4>2. PICK p \in Seq(Nat \X Nat) : p = Rest(q, m) /\ Len(p) = Size - m
        <5>1. m \in 0 .. Len(q) BY <4>1
        <5>2. QED BY <4>1, <5>1, Cutting
      <4>3. s.high = <<>> /\ s.low = <<>> /\ s.wb_size = 0
        <5>1. LineSound(s, wire[h], posted) BY <1>11, <2>1
        <5>2. s.high = <<>> /\ s.low = <<>> BY <2>1 DEF Empty
        <5>3. Len(s.high) = 0 /\ Len(s.low) = 0 BY <5>2
        <5>4. QED BY <5>1, <5>2, <5>3 DEF LineSound
      <4>4. CASE m = Size
        <5>1. sock' = [sock EXCEPT ![k] = s] BY <1>0, <1>4, <2>4, <4>4 DEF SocketType
        <5>2. p = <<>> /\ Size - m = 0 BY <4>0, <4>2, <4>4
        <5>3. FromPart(s, s, n, m) BY <4>1, <4>2, <4>3, <5>2 DEF FromPart
        <5>4. QED BY <5>1, <5>3
      <4>5. CASE m # Size
        <5>1. PICK u : u = AppendHigh(s, p) OBVIOUS
        <5>2. s.high \o p \in Seq(Nat \X Nat) /\ s.wb_size + Len(p) \in Int BY DEF SlotType
        <5>3. /\ u \in SlotType /\ u.high = s.high \o p /\ u.low = s.low /\ u.id = s.id
              /\ u.wb_size = s.wb_size + Len(p)
          BY <5>1, <5>2 DEF AppendHigh, SlotType
        <5>4. PICK t : t = [u EXCEPT !.armed = TRUE] OBVIOUS
        <5>5. /\ t \in SlotType /\ t.high = u.high /\ t.low = u.low /\ t.id = u.id
              /\ t.wb_size = u.wb_size
          BY <5>3, <5>4 DEF SlotType
        <5>6. sock' = [sock EXCEPT ![k] = t]
          <6>1. sock' = [sock EXCEPT ![k] = RestHigh(s, Rest(Parts(n), m))] BY <2>4, <4>5
          <6>2. QED BY <4>1, <4>2, <5>1, <5>4, <6>1 DEF RestHigh
        <5>7. s.high \o p = p BY <4>3
        <5>8. 0 + (Size - m) = Size - m BY <4>0
        <5>9. FromPart(t, s, n, m) BY <4>1, <4>2, <4>3, <5>3, <5>5, <5>7, <5>8 DEF FromPart
        <5>10. QED BY <5>5, <5>6, <5>9
      <4>6. QED BY <4>4, <4>5
    <3>2. /\ h \in Ids /\ wire[h] \in Seq(Nat \X Nat)
          /\ LineSound(s, wire[h], posted) /\ MayFollow(s, wire[h], n, posted)
      BY <1>11, <2>1
    <3>3. PICK w \in Seq(Nat \X Nat) : w = wire[h] BY <3>2
    <3>4. PICK v : v = w \o SubSeq(Parts(n), 1, m) OBVIOUS
    <3>5. /\ v \in Seq(Nat \X Nat) /\ Stream(v, s.id, posted)
          /\ LineSound(t, v, posted) /\ Longer(t, v, s, w, n)
      BY <2>1, <3>1, <3>2, <3>3, <3>4, AtOnceLine
    <3>6. t.id = h /\ LowWhole(t) BY <2>1, <3>1 DEF FromPart, LowWhole
    <3>7. wire' = [wire EXCEPT ![h] = v] BY <2>4, <3>3, <3>4
    <3>8. QED BY <1>12, <2>1, <3>1, <3>3, <3>5, <3>6, <3>7
  <2>5. QED BY <2>2, <2>3, <2>4
<1>15. CASE /\ Live(h) /\ s.type \notin {"HALFCLOSE", "PACCEPT", "PLISTEN", "LISTEN"}
            /\ ~WritesAtOnce(s)
  <2>1. /\ sock' = [sock EXCEPT ![k] = IF Head(pipe).op = "P" THEN AppendLow(s, Parts(n))
                                       ELSE AppendHigh(s, Parts(n))]
        /\ wire' = wire
    BY <1>2, <1>3, <1>4, <1>6, <1>15 DEF SendSocket
  <2>2. PICK t \in SlotType :
          /\ sock' = [sock EXCEPT ![k] = t]
          /\ Head(pipe).op = "P" => InLow(t, s, n)
          /\ Head(pipe).op # "P" => InHigh(t, s, n)
    <3>1. CASE Head(pipe).op = "P" BY <2>1, <3>1, AppendedLists
    <3>2. CASE Head(pipe).op # "P" BY <2>1, <3>2, AppendedLists
    <3>3. QED BY <3>1, <3>2
  <2>3. LowWhole(t) BY <1>9, <2>2, QueuedWhole
  <2>4. t.id = h /\ s.id = h /\ s.type # "INVALID" BY <1>5, <1>15, <2>2 DEF InLow, InHigh
  <2>5. t.type = s.type
    <3>1. Parts(n) \in Seq(Nat \X Nat) BY PartsOf
    <3>2. t \in {AppendHigh(s, Parts(n)), AppendLow(s, Parts(n))}
      <4>1. sock'[k] = t BY <1>0, <2>2, SlotSet DEF SocketType
      <4>2. sock'[k] = IF Head(pipe).op = "P" THEN AppendLow(s, Parts(n)) ELSE AppendHigh(s, Parts(n))
        BY <1>0, <2>1 DEF SocketType
      <4>3. QED BY <4>1, <4>2
    <3>3. QED BY <3>1, <3>2, AppendedSlot
  <2>6. CASE s.type = "RESERVE"
    <3>1. Rests(sock[k], t) BY <2>3, <2>5, <2>6 DEF Rests, InUse
    <3>2. QED BY <1>1, <1>10, <2>1, <2>2, <3>1, SlotRests
  <2>7. CASE s.type # "RESERVE"
    <3>0. InUse(s) BY <2>4, <2>7 DEF InUse
    <3>1. /\ h \in Ids /\ wire[h] \in Seq(Nat \X Nat)
          /\ LineSound(s, wire[h], posted) /\ MayFollow(s, wire[h], n, posted)
      BY <1>11, <2>4, <3>0
    <3>2. PICK w \in Seq(Nat \X Nat) : w = wire[h] BY <3>1
    <3>3. LineSound(t, w, posted) /\ Longer(t, w, s, w, n)
      <4>1. CASE Head(pipe).op = "P"
        <5>1. IsLow(n, posted) BY <1>8, <4>1 DEF IsLow
        <5>2. QED BY <2>2, <3>1, <3>2, <4>1, <5>1, LowQueued
      <4>2. CASE Head(pipe).op # "P"
        <5>1. ~IsLow(n, posted) BY <1>8, <4>2 DEF IsLow
        <5>2. QED BY <1>9, <2>2, <3>1, <3>2, <4>2, <5>1, HighQueued
      <4>3. QED BY <4>1, <4>2
    <3>4. wire' = [wire EXCEPT ![h] = w] BY <1>0, <2>1, <3>1, <3>2 DEF WireType
    <3>5. Stream(w, h, posted) BY <3>1, <3>2 DEF WireInv
    <3>6. QED BY <1>12, <2>2, <2>3, <2>4, <3>0, <3>2, <3>3, <3>4, <3>5
  <2>8. QED BY <2>6, <2>7
<1>16. QED BY <1>13, <1>14, <1>15

(* report_connect                                                           *)
LEMMA ConnectWire ==
  ASSUME SocketInv, WireInv, ReportConnect
  PROVE  WireInv'
<1>0. SocketType /\ EventOf({"CONNECTING"}) BY DEF SocketInv, ReportConnect
<1>1. PICK k \in SlotsOf : k = Head(ev).s BY <1>0, EventSlot
<1>2. PICK s \in SlotType : s = sock[k] /\ s.type = "CONNECTING"
  <2>1. sock[k] \in SlotType /\ sock[k].type \in {"CONNECTING"} BY <1>0, <1>1, EventSlot
  <2>2. QED BY <2>1
<1>3. UNCHANGED <<alloc_id, reserved, pipe, posted, wire>> BY DEF ReportConnect, EventEnd
<1>4. CASE sock' = [sock EXCEPT ![k].type = "CONNECTED", ![k].armed = ~Empty(sock[k])]
  <2>0. PICK b \in BOOLEAN : b = ~Empty(s) OBVIOUS
  <2>1. PICK t : t = [s EXCEPT !.type = "CONNECTED", !.armed = b] OBVIOUS
  <2>2. t \in SlotType /\ t.high = s.high /\ t.low = s.low /\ t.id = s.id /\ t.wb_size = s.wb_size
    BY <2>1 DEF SlotType
  <2>3. Rests(sock[k], t) BY <1>2, <2>2 DEF Rests, InUse
  <2>4. sock' = [sock EXCEPT ![k] = t]
    <3>1. sock \in [SlotsOf -> SlotType] BY <1>0 DEF SocketType
    <3>2. sock' = [sock EXCEPT ![k] = [s EXCEPT !.type = "CONNECTED", !.armed = ~Empty(s)]]
      BY <1>2, <1>4, <3>1
    <3>3. QED BY <2>0, <2>1, <3>2
  <2>5. QED BY <1>3, <2>2, <2>3, <2>4, SlotRests
<1>5. CASE sock' = [sock EXCEPT ![k] = ForceClose(sock[k])]
  <2>1. PICK t \in SlotType : t = ForceClose(s) /\ Rests(sock[k], t) BY <1>2, ClosedRests
  <2>2. QED BY <1>2, <1>3, <1>5, <2>1, SlotRests
<1>6. QED BY <1>1, <1>4, <1>5 DEF ReportConnect

(* forward_message_tcp                                                      *)
LEMMA ReadWire ==
  ASSUME SocketInv, WireInv, ReadEvent
  PROVE  WireInv'
<1>0. EventOf(Others) BY DEF ReadEvent
<1>1. PICK k \in SlotsOf : k = Head(ev).s BY <1>0, EventSlot
<1>2. sock[k] \in SlotType BY <1>0, <1>1, EventSlot
<1>3. UNCHANGED <<alloc_id, reserved, pipe, posted, wire>> BY DEF ReadEvent, EventEnd, Abort
<1>4. sock' = sock \/ sock' = [sock EXCEPT ![k] = ForceClose(sock[k])] BY <1>1 DEF ReadEvent, Abort
<1>5. CASE sock' = sock BY <1>3, <1>5, TableRests
<1>6. CASE sock' = [sock EXCEPT ![k] = ForceClose(sock[k])]
  <2>1. PICK t \in SlotType : t = ForceClose(sock[k]) /\ Rests(sock[k], t) BY <1>2, ClosedRests
  <2>2. QED BY <1>3, <1>6, <2>1, SlotRests
<1>7. QED BY <1>4, <1>5, <1>6

(* send_buffer on a slot with nothing buffered writes nothing.              *)
LEMMA NothingSent ==
  ASSUME NEW s \in SlotType, Empty(s), NEW r \in SendBuffer(s)
  PROVE  r.w = <<>> /\ r.s.low = <<>> /\ (r.s.type = s.type \/ ~InUse(r.s))
<1>1. s.high \o s.low = <<>> /\ Len(s.high \o s.low) = 0 BY DEF Empty
<1>2. Empty(r.s) /\ (r.s.type = s.type \/ r.s.type = "INVALID") BY BufferSent
<1>3. r.w = <<>>
  <2>1. PICK n \in 0 .. 0 : r.w = SubSeq(s.high \o s.low, 1, n) BY <1>1 DEF SendBuffer
  <2>2. n = 0 OBVIOUS
  <2>3. SubSeq(<<>>, 1, 0) = <<>> OBVIOUS
  <2>4. QED BY <1>1, <2>1, <2>2, <2>3
<1>4. QED BY <1>2, <1>3 DEF Empty, InUse

(* The write event.                                                         *)
LEMMA WriteWire ==
  ASSUME SocketInv, WireInv, WriteEvent
  PROVE  WireInv'
<1>0. EventOf(Others) /\ WireType BY DEF WriteEvent, WireInv
<1>1. PICK k \in SlotsOf : k = Head(ev).s BY <1>0, EventSlot
<1>2. PICK s \in SlotType : s = sock[k] /\ s.type \in Others
  <2>1. sock[k] \in SlotType /\ sock[k].type \in Others BY <1>0, <1>1, EventSlot
  <2>2. QED BY <2>1
<1>3. UNCHANGED <<alloc_id, reserved, pipe, posted>> BY DEF WriteEvent, EventEnd, Abort
<1>4. CASE Abort
  <2>1. sock' = sock /\ wire' = wire BY <1>4 DEF Abort
  <2>2. QED BY <1>3, <2>1, TableRests
<1>5. ASSUME NEW r \in SendBuffer(s), ~SendAborts(s) \/ Empty(s), sock' = [sock EXCEPT ![k] = r.s],
             wire' = [wire EXCEPT ![s.id] = wire[s.id] \o r.w]
      PROVE  WireInv'
  <2>1. PICK t \in SlotType : t = r.s BY BufferSent
  <2>2. sock' = [sock EXCEPT ![k] = t] BY <1>5, <2>1
  <2>3. CASE InUse(s)
    <3>1. /\ s.id \in Ids /\ LowWhole(s) /\ LineSound(s, wire[s.id], posted)
          /\ Older(s, wire[s.id], pipe)
      BY <1>2, <2>3 DEF WireInv, WireType
    <3>2. PICK w \in Seq(Nat \X Nat) : w = wire[s.id] BY <1>0, <3>1 DEF WireType
    <3>3. PICK v : v = w \o r.w OBVIOUS
    <3>4. LineSound(s, w, posted) /\ Older(s, w, pipe) BY <3>1, <3>2
    <3>5. /\ v \in Seq(Nat \X Nat) /\ LowWhole(t) /\ Stream(v, s.id, posted)
          /\ InUse(t) => Line(t, v) = Line(s, w) /\ LineSound(t, v, posted)
      BY <1>5, <2>1, <2>3, <3>1, <3>3, <3>4, SentLine
    <3>6. t.id = s.id BY <1>5, <2>1, BufferSent
    <3>7. InUse(t) => Older(t, v, pipe') BY <1>3, <3>4, <3>5 DEF Older
    <3>8. wire' = [wire EXCEPT ![s.id] = v] BY <1>5, <3>2, <3>3
    <3>9. QED BY <1>2, <1>3, <2>2, <2>3, <3>5, <3>6, <3>7, <3>8, WireWritten
  <2>4. CASE ~InUse(s)
    <3>1. s.type = "RESERVE" /\ Empty(s) BY <1>2, <1>5, <2>4 DEF InUse, Others, SendAborts
    <3>2. r.w = <<>> /\ t.low = <<>> /\ ~InUse(t) BY <1>5, <2>1, <2>4, <3>1, NothingSent DEF InUse
    <3>3. wire' = wire
      <4>0. wire \in [Ids -> Seq(Nat \X Nat)] BY <1>0 DEF WireType
      <4>1. CASE s.id \in Ids
        <5>1. PICK w \in Seq(Nat \X Nat) : w = wire[s.id] BY <4>0, <4>1
        <5>2. w \o <<>> = w OBVIOUS
        <5>3. wire' = [wire EXCEPT ![s.id] = w] BY <1>5, <3>2, <5>1, <5>2
        <5>4. QED BY <4>0, <4>1, <5>1, <5>3
      <4>2. CASE s.id \notin Ids
        <5>1. PICK x : x = wire[s.id] \o r.w OBVIOUS
        <5>2. wire' = [wire EXCEPT ![s.id] = x] BY <1>5, <5>1
        <5>3. QED BY <4>0, <4>2, <5>2
      <4>3. QED BY <4>1, <4>2
    <3>4. Rests(sock[k], t) BY <3>2 DEF Rests, LowWhole
    <3>5. QED BY <1>3, <2>2, <3>3, <3>4, SlotRests
  <2>5. QED BY <2>3, <2>4
<1>6. Abort \/ \E r \in SendBuffer(s) :
        /\ ~SendAborts(s) \/ Empty(s)
        /\ sock' = [sock EXCEPT ![k] = r.s]
        /\ wire' = [wire EXCEPT ![s.id] = wire[s.id] \o r.w]
  BY <1>1, <1>2 DEF WriteEvent
<1>7. QED BY <1>4, <1>5, <1>6

(* Steps that neither write nor change the table.                           *)
LEMMA QuietWire ==
  ASSUME SocketInv, WireInv, Abort \/ SkipEvent \/ ClearClosedEvent \/ NoCommand \/ Wait
  PROVE  WireInv'
<1>1. sock' = sock /\ wire' = wire /\ UNCHANGED <<alloc_id, reserved, pipe, posted>>
  BY DEF Abort, SkipEvent, ClearClosedEvent, NoCommand, Wait, EventEnd
<1>2. QED BY <1>1, TableRests
-----------------------------------------------------------------------------
(* The ids and the commands of the services.                                *)

(* Ids are given out, to slots of which nothing is written.                 *)
LEMMA AllocRests ==
  ASSUME SocketInv, WireInv, alloc_id' \in Nat, alloc_id <= alloc_id',
         \A r \in reserved' : r \in reserved \/ r > alloc_id,
         UNCHANGED <<pipe, posted, wire>>, \A k \in SlotsOf : Rests(sock[k], sock'[k])
  PROVE  WireInv'
<1>0. WireType /\ Sends /\ alloc_id \in Nat /\ MaxId \in Nat
  BY SocketAssumption DEF SocketInv, SocketType, WireInv, SocketAssumption
<1>1. Sends' BY <1>0 DEF Sends
<1>2. FewerSends BY DEF FewerSends
<1>3. \A i \in DOMAIN pipe' : pipe'[i].id \in Ids BY <1>0 DEF WireType
<1>4. ASSUME NEW id \in Ids, Fresh(id)' PROVE Fresh(id)
  <2>1. id \in Nat BY <1>0 DEF Ids
  <2>2. CASE id > alloc_id'
    <3>1. id > alloc_id BY <1>0, <2>1, <2>2
    <3>2. QED BY <3>1 DEF Fresh
  <2>3. CASE id \in reserved' BY <2>3 DEF Fresh
  <2>4. CASE \E i \in DOMAIN pipe' : Opens(pipe'[i]) /\ pipe'[i].id = id BY <2>4 DEF Fresh
  <2>5. QED BY <1>4, <2>2, <2>3, <2>4 DEF Fresh
<1>5. QED BY <1>1, <1>2, <1>3, <1>4, WireRests

(* report_accept                                                            *)
LEMMA AcceptWire ==
  ASSUME SocketInv, WireInv, ReportAccept
  PROVE  WireInv'
<1>0. SocketType /\ MaxSocket \in Nat BY SocketAssumption DEF SocketInv, SocketAssumption
<1>1. UNCHANGED <<reserved, pipe, posted, wire>> BY DEF ReportAccept, EventEnd
<1>2. CASE UNCHANGED <<sock, alloc_id>> BY <1>1, <1>2, TableRests
<1>3. ASSUME NEW d \in 1 .. MaxSocket, alloc_id + d <= MaxId, alloc_id' = alloc_id + d,
             \/ sock' = [sock EXCEPT ![Hash(alloc_id + d)] = [NewFd(alloc_id + d) EXCEPT !.type = "PACCEPT"]]
             \/ sock' = sock
      PROVE  WireInv'
  <2>1. PICK id \in Nat : id = alloc_id + d BY <1>0 DEF SocketType
  <2>2. alloc_id \in Nat /\ alloc_id < id /\ alloc_id' = id BY <1>0, <1>3, <2>1 DEF SocketType
  <2>3. id \in Ids /\ Fresh(id) BY <1>3, <2>1, <2>2 DEF Ids, Fresh
  <2>4. PICK k \in SlotsOf : k = Hash(id) BY HashIn
  <2>5. PICK t : t = [NewFd(id) EXCEPT !.type = "PACCEPT"] OBVIOUS
  <2>6. t \in SlotType /\ Rests(sock[k], t) BY <2>3, <2>5, NewRests
  <2>7. \A j \in SlotsOf : Rests(sock[j], sock[j]) BY DEF Rests
  <2>8. \A j \in SlotsOf : Rests(sock[j], sock'[j])
    <3>1. CASE sock' = sock BY <2>7, <3>1
    <3>2. CASE sock' = [sock EXCEPT ![k] = t] BY <1>0, <2>6, <2>7, <3>2 DEF SocketType
    <3>3. QED BY <1>3, <2>1, <2>4, <2>5, <3>1, <3>2
  <2>9. QED BY <1>1, <2>2, <2>8, AllocRests
<1>4. QED BY <1>2, <1>3 DEF ReportAccept

(* reserve_id                                                               *)
LEMMA ReserveWire ==
  ASSUME SocketInv, WireInv, Reserve
  PROVE  WireInv'
<1>0. SocketType /\ MaxSocket \in Nat BY SocketAssumption DEF SocketInv, SocketAssumption
<1>1. PICK d \in 1 .. MaxSocket :
        /\ alloc_id' = alloc_id + d /\ reserved' = reserved \cup {alloc_id + d}
        /\ sock' = [sock EXCEPT ![Hash(alloc_id + d)].type = "RESERVE"]
  BY DEF Reserve
<1>2. PICK id \in Nat : id = alloc_id + d BY <1>0 DEF SocketType
<1>3. alloc_id \in Nat /\ alloc_id < id /\ id > alloc_id BY <1>0, <1>2 DEF SocketType
<1>4. PICK k \in SlotsOf : k = Hash(id) BY HashIn
<1>5. sock[k] \in SlotType BY <1>0 DEF SocketType
<1>6. PICK t : t = [sock[k] EXCEPT !.type = "RESERVE"] OBVIOUS
<1>7. t \in SlotType /\ t.type = "RESERVE" /\ t.high = sock[k].high /\ t.low = sock[k].low
  BY <1>5, <1>6 DEF SlotType
<1>8. Rests(sock[k], t) BY <1>7 DEF Rests, InUse
<1>9. sock' = [sock EXCEPT ![k] = t] BY <1>1, <1>2, <1>4, <1>6
<1>10. \A j \in SlotsOf : Rests(sock[j], sock[j]) BY DEF Rests
<1>11. \A j \in SlotsOf : Rests(sock[j], sock'[j]) BY <1>0, <1>8, <1>9, <1>10 DEF SocketType
<1>12. UNCHANGED <<pipe, posted, wire>> BY DEF Reserve
<1>13. alloc_id' = id /\ alloc_id <= id /\ reserved' = reserved \cup {id} BY <1>1, <1>2, <1>3
<1>14. QED BY <1>3, <1>11, <1>12, <1>13, AllocRests

(* A command that sends nothing is written into the pipe.                   *)
LEMMA OtherWritten ==
  ASSUME SocketInv, WireInv, NEW c \in Commands, pipe' = Append(pipe, c), ~IsSend(c), c.id \in Ids,
         Opens(c) => c.id \in reserved, reserved' \subseteq reserved,
         UNCHANGED <<posted, wire, alloc_id>>, \A k \in SlotsOf : Rests(sock[k], sock'[k])
  PROVE  WireInv'
<1>0. WireType /\ Sends BY DEF WireInv
<1>1. /\ DOMAIN pipe = 1 .. Len(pipe) /\ DOMAIN pipe' = 1 .. Len(pipe) + 1
      /\ Len(pipe) \in Nat /\ pipe'[Len(pipe) + 1] = c
      /\ \A i \in 1 .. Len(pipe) : pipe'[i] = pipe[i]
  BY PipeWritten DEF SocketInv, SocketType
<1>2. \A i \in DOMAIN pipe' : pipe'[i] = c \/ (i \in DOMAIN pipe /\ pipe'[i] = pipe[i]) BY <1>1
<1>3. FewerSends BY <1>2 DEF FewerSends
<1>4. \A i \in DOMAIN pipe' : pipe'[i].id \in Ids BY <1>0, <1>2 DEF WireType
<1>5. Sends' BY <1>0, <1>2 DEF Sends
<1>6. ASSUME NEW id \in Ids, Fresh(id)' PROVE Fresh(id)
  <2>1. CASE id > alloc_id' BY <2>1 DEF Fresh
  <2>2. CASE id \in reserved' BY <2>2 DEF Fresh
  <2>3. ASSUME NEW i \in DOMAIN pipe', Opens(pipe'[i]), pipe'[i].id = id PROVE Fresh(id)
    BY <1>2, <2>3 DEF Fresh
  <2>4. QED BY <1>6, <2>1, <2>2, <2>3 DEF Fresh
<1>7. QED BY <1>3, <1>4, <1>5, <1>6, WireRests

(* socket_server_connect, socket_server_listen, socket_server_bind           *)
LEMMA OpenRequestWire ==
  ASSUME SocketInv, WireInv, NEW id \in Ids, NEW op \in {"O", "L", "B"}, OpenRequest(id, op)
  PROVE  WireInv'
<1>0. SocketType /\ Held /\ id \in Nat BY SocketAssumption DEF SocketInv, SocketAssumption, Ids
<1>1. /\ id \in reserved /\ reserved' \subseteq reserved /\ sock' = [sock EXCEPT ![Hash(id)].id = id]
      /\ pipe' = Append(pipe, [op |-> op, id |-> id, n |-> 0])
      /\ UNCHANGED <<alloc_id, posted, wire>>
  BY DEF OpenRequest
<1>2. PICK k \in SlotsOf : k = Hash(id) BY <1>0, HashIn
<1>3. sock[k] \in SlotType /\ sock[k].type = "RESERVE" BY <1>0, <1>1, <1>2 DEF SocketType, Held
<1>4. PICK t : t = [sock[k] EXCEPT !.id = id] OBVIOUS
<1>5. t \in SlotType /\ t.type = "RESERVE" /\ t.high = sock[k].high /\ t.low = sock[k].low
  BY <1>0, <1>3, <1>4 DEF SlotType
<1>6. Rests(sock[k], t) BY <1>5 DEF Rests, InUse
<1>7. sock' = [sock EXCEPT ![k] = t] BY <1>1, <1>2, <1>4
<1>8. \A j \in SlotsOf : Rests(sock[j], sock[j]) BY DEF Rests
<1>9. \A j \in SlotsOf : Rests(sock[j], sock'[j]) BY <1>0, <1>6, <1>7, <1>8 DEF SocketType
<1>10. PICK c \in Commands : c = [op |-> op, id |-> id, n |-> 0] BY <1>0 DEF Commands
<1>11. c.id = id /\ ~IsSend(c) BY <1>10 DEF IsSend
<1>12. QED BY <1>1, <1>9, <1>10, <1>11, OtherWritten

(* socket_server_start, socket_server_close, socket_server_shutdown          *)
LEMMA AskWire ==
  ASSUME SocketInv, WireInv, NEW id \in Ids, Start(id) \/ Close(id, "K") \/ Close(id, "H")
  PROVE  WireInv'
<1>0. id \in Nat BY SocketAssumption DEF SocketAssumption, Ids
<1>1. PICK op \in {"S", "K", "H"} : pipe' = Append(pipe, [op |-> op, id |-> id, n |-> 0])
  BY DEF Start, Close, Ask
<1>2. UNCHANGED <<sock, alloc_id, reserved, posted, wire>> BY DEF Start, Close, Ask
<1>3. PICK c \in Commands : c = [op |-> op, id |-> id, n |-> 0] BY <1>0 DEF Commands
<1>4. c.id = id /\ ~IsSend(c) /\ ~Opens(c) BY <1>3 DEF IsSend, Opens
<1>5. \A j \in SlotsOf : Rests(sock[j], sock'[j]) BY <1>2 DEF Rests
<1>6. QED BY <1>1, <1>2, <1>3, <1>4, <1>5, OtherWritten

(* More is posted.                                                          *)
Extends(Q, P) == DOMAIN P \subseteq DOMAIN Q /\ \A n \in DOMAIN P : Q[n] = P[n]

(* What was sent stays sent.                                                *)
LEMMA StreamStays ==
  ASSUME NEW L, NEW id, NEW P, NEW Q, Stream(L, id, P), Extends(Q, P)
  PROVE  Stream(L, id, Q)
<1>1. \A i \in DOMAIN L : L[i][1] \in DOMAIN P /\ Q[L[i][1]] = P[L[i][1]] BY DEF Stream, Extends
<1>2. QED BY <1>1 DEF Stream, Extends

(* And so the lines stay sound.                                             *)
LEMMA LineStays ==
  ASSUME NEW s \in SlotType, NEW w \in Seq(Nat \X Nat), NEW P, NEW Q, LineSound(s, w, P), Extends(Q, P)
  PROVE  LineSound(s, w, Q)
<1>1. Stream(Line(s, w), s.id, Q) BY StreamStays DEF LineSound
<1>2. \A i \in DOMAIN s.low : s.low[i][1] \in DOMAIN P
  <2>1. PICK m \in Seq(Nat \X Nat) : m = s.low BY DEF SlotType
  <2>2. PICK h \in Seq(Nat \X Nat) : h = s.high BY DEF SlotType
  <2>3. PICK a \in Seq(Nat \X Nat) : a = w \o h BY Joining
  <2>4. Line(s, w) = a \o m BY <2>1, <2>2, <2>3, LineSplits
  <2>5. \A i \in DOMAIN m : Len(a) + i \in DOMAIN (a \o m) /\ (a \o m)[Len(a) + i] = m[i] BY SMTT(30), Joining
  <2>6. \A i \in DOMAIN Line(s, w) : Line(s, w)[i][1] \in DOMAIN P BY DEF LineSound, Stream
  <2>7. QED BY ZenonT(30), <2>1, <2>4, <2>5, <2>6
<1>3. \A i \in DOMAIN s.low : Q[s.low[i][1]].op = "P" BY <1>2 DEF LineSound, Extends
<1>4. QED BY <1>1, <1>3 DEF LineSound

(* socket_server_send and socket_server_send_lowpriority: the package is      *)
(* newer than all that are in a line.                                       *)
LEMMA SendRequestWire ==
  ASSUME SocketInv, WireInv, NEW id \in Ids, NEW op \in {"D", "P"}, SendRequest(id, op)
  PROVE  WireInv'
<1>0. SocketType /\ WireType /\ Sends /\ id \in Nat
  BY SocketAssumption DEF SocketInv, SocketAssumption, Ids, WireInv
<1>1. PICK l \in Nat : l = Len(posted) BY <1>0 DEF SocketType
<1>2. UNCHANGED <<sock, alloc_id, reserved, wire>> BY DEF SendRequest, Ask
<1>3. /\ pipe' = Append(pipe, [op |-> op, id |-> id, n |-> l + 1])
      /\ posted' = Append(posted, [id |-> id, op |-> op])
  BY <1>1 DEF SendRequest, Ask
<1>4. PICK c \in Commands : c = [op |-> op, id |-> id, n |-> l + 1]
  <2>1. PICK m \in Nat : m = l + 1 OBVIOUS
  <2>2. [op |-> op, id |-> id, n |-> m] \in Commands BY <1>0 DEF Commands
  <2>3. QED BY <2>1, <2>2
<1>5. c.id = id /\ c.op = op /\ c.n = l + 1 /\ IsSend(c) /\ ~Opens(c) BY <1>4 DEF IsSend, Opens
<1>6. /\ DOMAIN pipe = 1 .. Len(pipe) /\ DOMAIN pipe' = 1 .. Len(pipe) + 1
      /\ Len(pipe) \in Nat /\ pipe'[Len(pipe) + 1] = c
      /\ \A i \in 1 .. Len(pipe) : pipe'[i] = pipe[i]
  BY <1>0, <1>3, <1>4, PipeWritten DEF SocketType
<1>7. /\ DOMAIN posted = 1 .. l /\ DOMAIN posted' = 1 .. l + 1
      /\ posted'[l + 1] = [id |-> id, op |-> op]
      /\ \A i \in 1 .. l : posted'[i] = posted[i]
  BY <1>0, <1>1, <1>3 DEF SocketType
<1>8. Extends(posted', posted) BY <1>7 DEF Extends
<1>9. \A i \in DOMAIN pipe' : (i \in DOMAIN pipe /\ pipe'[i] = pipe[i]) \/ (i = Len(pipe) + 1 /\ pipe'[i] = c)
  BY <1>6
<1>10. \A i \in DOMAIN pipe' : pipe'[i].id \in Ids BY <1>0, <1>5, <1>9 DEF WireType
<1>11. Sends'
  <2>1. ASSUME NEW i \in DOMAIN pipe', IsSend(pipe'[i])
        PROVE  /\ pipe'[i].n \in DOMAIN posted'
               /\ posted'[pipe'[i].n].id = pipe'[i].id /\ posted'[pipe'[i].n].op = pipe'[i].op
               /\ \A j \in DOMAIN pipe' : i < j /\ IsSend(pipe'[j]) => pipe'[i].n < pipe'[j].n
    <3>1. CASE i = Len(pipe) + 1
      <4>1. pipe'[i] = c BY <1>6, <3>1
      <4>2. \A j \in DOMAIN pipe' : ~(i < j) BY <1>6, <3>1
      <4>3. l + 1 \in DOMAIN posted' BY <1>7
      <4>4. QED BY <1>5, <1>7, <4>1, <4>2, <4>3
    <3>2. CASE i \in DOMAIN pipe /\ pipe'[i] = pipe[i]
      <4>1. /\ pipe[i].n \in DOMAIN posted
            /\ posted[pipe[i].n].id = pipe[i].id /\ posted[pipe[i].n].op = pipe[i].op
            /\ \A j \in DOMAIN pipe : i < j /\ IsSend(pipe[j]) => pipe[i].n < pipe[j].n
        BY <1>0, <2>1, <3>2 DEF Sends
      <4>2. pipe[i].n \in DOMAIN posted' /\ posted'[pipe[i].n] = posted[pipe[i].n]
        BY <1>8, <4>1 DEF Extends
      <4>3. pipe[i].n < l + 1 BY <1>7, <4>1
      <4>4. \A j \in DOMAIN pipe' : i < j /\ IsSend(pipe'[j]) => pipe[i].n < pipe'[j].n
        BY <1>5, <1>9, <4>1, <4>3
      <4>5. QED BY <3>2, <4>1, <4>2, <4>4
    <3>3. QED BY <1>9, <3>1, <3>2
  <2>2. QED BY <2>1 DEF Sends
<1>12. ASSUME NEW f \in Ids, Fresh(f)' PROVE Fresh(f)
  <2>1. CASE f > alloc_id' BY <1>2, <2>1 DEF Fresh
  <2>2. CASE f \in reserved' BY <1>2, <2>2 DEF Fresh
  <2>3. ASSUME NEW i \in DOMAIN pipe', Opens(pipe'[i]), pipe'[i].id = f PROVE Fresh(f)
    BY <1>5, <1>9, <2>3 DEF Fresh
  <2>4. QED BY <1>12, <2>1, <2>2, <2>3 DEF Fresh
<1>13. \A f \in Ids : Fresh(f)' => wire'[f] = <<>> BY <1>2, <1>12 DEF WireInv
<1>14. \A f \in Ids : Stream(wire'[f], f, posted')
  <2>1. \A f \in Ids : Stream(wire[f], f, posted) BY DEF WireInv
  <2>2. QED BY <1>2, <1>8, <2>1, StreamStays
<1>15. ASSUME NEW k \in SlotsOf, InUse(sock[k])
       PROVE  LineSound(sock[k], wire[sock[k].id], posted') /\ Older(sock[k], wire[sock[k].id], pipe')
  <2>1. PICK s \in SlotType : s = sock[k] BY <1>0 DEF SocketType
  <2>2. s.id \in Ids BY <1>0, <1>15, <2>1 DEF WireType
  <2>3. PICK w \in Seq(Nat \X Nat) : w = wire[s.id] BY <1>0, <2>2 DEF WireType
  <2>4. LineSound(s, w, posted) /\ Older(s, w, pipe) BY <1>15, <2>1, <2>3 DEF WireInv
  <2>5. LineSound(s, w, posted') BY <1>8, <2>4, LineStays
  <2>6. ASSUME NEW i \in DOMAIN Line(s, w), NEW j \in DOMAIN pipe', IsSend(pipe'[j])
        PROVE  Line(s, w)[i][1] < pipe'[j].n
    <3>1. CASE pipe'[j] = c
      <4>1. Line(s, w)[i][1] \in DOMAIN posted BY <2>4 DEF LineSound, Stream
      <4>2. Line(s, w)[i][1] < l + 1 BY <1>7, <4>1
      <4>3. QED BY <1>5, <3>1, <4>2
    <3>2. CASE j \in DOMAIN pipe /\ pipe'[j] = pipe[j] BY <2>4, <2>6, <3>2 DEF Older
    <3>3. QED BY <1>9, <3>1, <3>2
  <2>7. Older(s, w, pipe') BY <2>6 DEF Older
  <2>8. QED BY <2>1, <2>3, <2>5, <2>7
<1>16. WireType' BY <1>0, <1>2, <1>10 DEF WireType
<1>17. \A k \in SlotsOf : LowWhole(sock'[k]) BY <1>2 DEF WireInv
<1>18. \A k \in SlotsOf : InUse(sock'[k]) =>
         /\ LineSound(sock'[k], wire'[sock'[k].id], posted')
         /\ Older(sock'[k], wire'[sock'[k].id], pipe')
  BY <1>2, <1>15
<1>19. QED BY <1>11, <1>13, <1>14, <1>16, <1>17, <1>18 DEF WireInv
-----------------------------------------------------------------------------
(* Nothing is written at first.                                             *)
LEMMA WireInitInv == SocketInit => WireInv
<1> SUFFICES ASSUME SocketInit PROVE WireInv OBVIOUS
<1>1. /\ sock = [k \in SlotsOf |-> FreeSlot] /\ pipe = <<>> /\ wire = [id \in Ids |-> <<>>]
  BY DEF SocketInit
<1>2. <<>> \in Seq(Nat \X Nat) OBVIOUS
<1>3. DOMAIN pipe = {} BY <1>1
<1>4. \A k \in SlotsOf : ~InUse(sock[k]) /\ LowWhole(sock[k]) BY <1>1 DEF FreeSlot, InUse, LowWhole
<1>5. WireType BY <1>1, <1>2, <1>3, <1>4 DEF WireType
<1>6. Sends BY <1>3 DEF Sends
<1>7. \A id \in Ids : wire[id] = <<>> BY <1>1
<1>8. \A id \in Ids : Stream(<<>>, id, posted) BY DEF Stream
<1>9. QED BY <1>4, <1>5, <1>6, <1>7, <1>8 DEF WireInv

(* Every step keeps the lines.                                              *)
LEMMA WireNextInv ==
  ASSUME SocketInv, WireInv, [SocketNext]_sockVars
  PROVE  WireInv'
<1>1. CASE Poll
  <2>1. CASE NewFdAborts BY <2>1, QuietWire DEF NewFdAborts
  <2>2. CASE OpenSocket \/ ListenSocket \/ BindSocket BY <2>2, OpenWire
  <2>3. CASE StartSocket BY <2>3, StartWire
  <2>4. CASE CloseSocket BY <2>4, CloseWire, QuietWire
  <2>5. CASE SendSocket BY <2>5, SendWire
  <2>6. CASE ClearClosedEvent \/ NoCommand \/ Wait \/ SkipEvent BY <2>6, QuietWire
  <2>7. CASE ReportConnect BY <2>7, ConnectWire
  <2>8. CASE ReportAccept BY <2>8, AcceptWire
  <2>9. CASE ReadEvent BY <2>9, ReadWire
  <2>10. CASE WriteEvent BY <2>10, WriteWire
  <2>11. QED BY <1>1, <2>1, <2>2, <2>3, <2>4, <2>5, <2>6, <2>7, <2>8, <2>9, <2>10 DEF Poll
<1>2. CASE Reserve BY <1>2, ReserveWire
<1>3. ASSUME NEW id \in Ids, NEW op \in {"O", "L", "B"}, OpenRequest(id, op) PROVE WireInv'
  BY <1>3, OpenRequestWire
<1>4. ASSUME NEW id \in Ids, Start(id) \/ Close(id, "K") \/ Close(id, "H") PROVE WireInv'
  BY <1>4, AskWire
<1>5. ASSUME NEW id \in Ids, NEW op \in {"D", "P"}, SendRequest(id, op) PROVE WireInv'
  BY <1>5, SendRequestWire
<1>6. CASE UNCHANGED sockVars
  <2>1. UNCHANGED <<sock, wire, posted, alloc_id, reserved, pipe>> BY <1>6 DEF sockVars
  <2>2. QED BY <2>1, TableRests
<1>7. QED BY <1>1, <1>2, <1>3, <1>4, <1>5, <1>6 DEF SocketNext

(* The lines say what is on the wire.                                       *)
LEMMA WireInvOrder == ASSUME SocketType, WireInv PROVE WireInOrder
<1>0. Size \in Nat \ {0} BY SocketAssumption DEF SocketAssumption
<1>1. BuffersSound
  <2>1. ASSUME NEW k \in SlotsOf
        PROVE  /\ ~ListUncomplete(sock[k].low)
               /\ sock[k].type \notin {"INVALID", "RESERVE"}
                    => sock[k].wb_size = Len(sock[k].high) + Len(sock[k].low)
    <3>1. sock[k] \in SlotType /\ LowWhole(sock[k]) BY DEF SocketType, WireInv
    <3>2. PICK m \in Seq(Nat \X Nat) : m = sock[k].low BY <3>1 DEF SlotType
    <3>3. m # <<>> => Head(m) = m[1] /\ m[1][2] = 1 BY <3>1, <3>2 DEF LowWhole
    <3>4. ~ListUncomplete(m) BY <3>3 DEF ListUncomplete
    <3>5. InUse(sock[k]) => sock[k].wb_size = Len(sock[k].high) + Len(sock[k].low)
      BY DEF WireInv, LineSound
    <3>6. QED BY <3>2, <3>4, <3>5 DEF InUse
  <2>2. QED BY <2>1 DEF BuffersSound
<1>2. ASSUME NEW id \in Ids, NEW i \in DOMAIN wire[id]
      PROVE  LET w == wire[id] IN
             /\ w[i][2] > 1 => i > 1 /\ w[i - 1] = <<w[i][1], w[i][2] - 1>>
             /\ w[i][2] = 1 => i = 1 \/ w[i - 1][2] = Size
             /\ posted[w[i][1]].id = id
             /\ \A j \in 1 .. i : posted[w[j][1]].op = posted[w[i][1]].op => w[j][1] <= w[i][1]
  <2>1. PICK w \in Seq(Nat \X Nat) : w = wire[id] BY DEF WireInv, WireType
  <2>2. Stream(w, id, posted) BY <2>1 DEF WireInv
  <2>3. i \in DOMAIN w /\ i \in Nat \ {0} /\ DOMAIN w = 1 .. Len(w) /\ Len(w) \in Nat BY <1>2, <2>1
  <2>4. i = 1 => w[i][2] = 1 BY <2>2, <2>3 DEF Stream
  <2>5. i > 1 => /\ Joined(w[i - 1], w[i]) /\ i - 1 \in DOMAIN w
                 /\ w[i - 1] \in Nat \X Nat /\ w[i] \in Nat \X Nat
    BY <2>2, <2>3 DEF Stream
  <2>6. w[i][2] \in 1 .. Size /\ posted[w[i][1]].id = id /\ w[i] \in Nat \X Nat
    BY <2>2, <2>3 DEF Stream
  <2>7. w[i][2] > 1 => i > 1 /\ w[i - 1] = <<w[i][1], w[i][2] - 1>>
    <3> SUFFICES ASSUME w[i][2] > 1 PROVE i > 1 /\ w[i - 1] = <<w[i][1], w[i][2] - 1>> OBVIOUS
    <3>1. i > 1 BY <2>3, <2>4, <2>6
    <3>2. w[i][1] = w[i - 1][1] /\ w[i][2] = w[i - 1][2] + 1 BY <2>5, <2>6, <3>1 DEF Joined
    <3>3. PICK a \in Nat : a = w[i - 1][1] BY <2>5, <3>1
    <3>4. PICK b \in Nat : b = w[i - 1][2] BY <2>5, <3>1
    <3>5. w[i - 1] = <<a, b>> BY <2>5, <3>1, <3>3, <3>4
    <3>6. (b + 1) - 1 = b OBVIOUS
    <3>7. QED BY <3>1, <3>2, <3>3, <3>4, <3>5, <3>6
  <2>8. w[i][2] = 1 => i = 1 \/ w[i - 1][2] = Size
    <3> SUFFICES ASSUME w[i][2] = 1, i > 1 PROVE w[i - 1][2] = Size BY <2>3
    <3>1. w[i - 1][2] \in 1 .. Size /\ Joined(w[i - 1], w[i]) BY <2>2, <2>5 DEF Stream
    <3>2. QED BY <1>0, <3>1 DEF Joined
  <2>9. \A j \in 1 .. i : posted[w[j][1]].op = posted[w[i][1]].op => w[j][1] <= w[i][1]
    <3>1. \A j \in 1 .. i : j \in DOMAIN w /\ j <= i BY <2>3
    <3>2. QED BY <2>2, <2>3, <3>1 DEF Stream
  <2>10. QED BY <2>1, <2>6, <2>7, <2>8, <2>9
<1>3. QED BY <1>1, <1>2 DEF WireInOrder

(* Packages are whole on the wire, and those of one priority in the order    *)
(* they were sent in, and no package in the low list is written in part      *)
(* (WireInOrder): send_socket, send_buffer, raise_uncomplete, force_close.   *)
THEOREM WireIsOrdered == SocketSpec => []WireInOrder
<1>1. SocketInit => WireInv BY WireInitInv
<1>2. SocketInv /\ WireInv /\ [SocketNext]_sockVars => WireInv' BY WireNextInv
<1>3. SocketInv /\ WireInv => WireInOrder BY WireInvOrder DEF SocketInv
<1>4. SocketSpec => []SocketInv BY SocketsSound, PTL
<1>5. QED BY <1>1, <1>2, <1>3, <1>4, PTL DEF SocketSpec
=============================================================================
