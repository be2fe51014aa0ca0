---------------------------- MODULE SocketServer ----------------------------
(***************************************************************************)
(* The socket server (socket_server.c): a table of sockets that one thread  *)
(* works on, driven by commands the services write into a pipe and by the   *)
(* events of the poll.  Only reserve_id touches the table from the other    *)
(* threads: it takes a free slot by a compare-and-swap and writes the id    *)
(* into it afterwards.                                                      *)
(*                                                                         *)
(* A package is `Size` parts, a part is what one write may put on the wire, *)
(* and a write buffer is the parts of its package still to be written.      *)
(* TCP only; a workload says how many requests of each kind the services     *)
(* make.                                                                    *)
(***************************************************************************)
EXTENDS Integers, Sequences, FiniteSets, SequencesExt

CONSTANTS MaxSocket,    \* MAX_SOCKET
          MaxId,        \* bound on alloc_id
          Size,         \* parts of a package
          Workloads,    \* bounds on the requests of the services
          NoSocket

ASSUME SocketAssumption ==
  /\ MaxSocket \in Nat \ {0} /\ MaxId \in Nat /\ Size \in Nat \ {0}
  /\ Workloads \subseteq [{"O", "L", "B", "S", "K", "H", "D", "P"} -> Nat]

VARIABLES sock,         \* slot[]: type, id, write buffers, wb_size, write event on, and
                        \* what the fd is, a connection or a bound file
          alloc_id,
          reserved,     \* ids whose slot is taken and does not have the id yet
          pipe,         \* the commands not yet read
          spc,          \* "ctrl", "clear" or "event": where socket_server_poll is
          checkctrl,
          ev,           \* the events of the last sp_wait still to be treated
          result,       \* the last message to a service
          quota,        \* requests still to be made
          posted,       \* history: of every package the id and the priority
          wire,         \* history: the parts written for each id
          gone,         \* history: ids whose end was reported, closed or in error
          limited,      \* history: listeners that reported an error and stay open
          owed,         \* history: ids closed by a service that was not told yet
          failed        \* an assertion has failed: the process is gone

sockVars == <<sock, alloc_id, reserved, pipe, spc, checkctrl, ev, result, quota,
              posted, wire, gone, limited, owed, failed>>

Ids == 1 .. MaxId
SlotsOf == 0 .. MaxSocket - 1
Hash(id) == id % MaxSocket
FreeSlot == [type |-> "INVALID", id |-> 0, high |-> <<>>, low |-> <<>>,
             wb_size |-> 0, armed |-> FALSE, fd |-> "none"]

SocketInit ==
  /\ sock = [k \in SlotsOf |-> FreeSlot] /\ alloc_id = 0 /\ reserved = {}
  /\ pipe = <<>> /\ spc = "ctrl" /\ checkctrl = TRUE /\ ev = <<>>
  /\ result = [type |-> "none", id |-> 0]
  /\ quota \in Workloads /\ posted = <<>> /\ wire = [id \in Ids |-> <<>>]
  /\ gone = {} /\ limited = {} /\ owed = {} /\ failed = FALSE

Parts(p) == [i \in 1 .. Size |-> <<p, i>>]
Empty(s) == s.high = <<>> /\ s.low = <<>>
Live(id) == LET s == sock[Hash(id)] IN s.type # "INVALID" /\ s.id = id
-----------------------------------------------------------------------------
(* What the services ask for, in any thread.                                *)

(* reserve_id up to its compare-and-swap; no free slot, no id.              *)
Reserve ==
  /\ Cardinality(reserved) < quota["O"] + quota["L"] + quota["B"]
  /\ \E d \in 1 .. MaxSocket :
       LET id == alloc_id + d IN
       /\ id <= MaxId /\ sock[Hash(id)].type = "INVALID"
       /\ \A c \in 1 .. d - 1 : sock[Hash(alloc_id + c)].type # "INVALID"
       /\ alloc_id' = id /\ reserved' = reserved \cup {id}
       /\ sock' = [sock EXCEPT ![Hash(id)].type = "RESERVE"]
  /\ UNCHANGED <<pipe, spc, checkctrl, ev, result, quota, posted, wire, gone, limited, owed, failed>>

(* The id is written into the slot and the command into the pipe:           *)
(* socket_server_connect, _listen, _bind.                                   *)
OpenRequest(id, op) ==
  /\ id \in reserved /\ quota[op] > 0
  /\ quota' = [quota EXCEPT ![op] = @ - 1]
  /\ reserved' = reserved \ {id}
  /\ sock' = [sock EXCEPT ![Hash(id)].id = id]
  /\ pipe' = Append(pipe, [op |-> op, id |-> id, n |-> 0])
  /\ UNCHANGED <<alloc_id, spc, checkctrl, ev, result, posted, wire, gone, limited, owed, failed>>

Ask(op, id, n) ==
  /\ quota[op] > 0 /\ id <= alloc_id /\ id \notin reserved
  /\ quota' = [quota EXCEPT ![op] = @ - 1]
  /\ pipe' = Append(pipe, [op |-> op, id |-> id, n |-> n])
  /\ UNCHANGED <<sock, alloc_id, reserved, spc, checkctrl, ev, result, wire, gone, limited, failed>>

Start(id) == Ask("S", id, 0) /\ UNCHANGED <<posted, owed>>

(* socket_server_close and socket_server_shutdown, "H", which differ in a    *)
(* flag of the command K.                                                   *)
Close(id, op) == Ask(op, id, 0) /\ owed' = owed \cup {id} /\ UNCHANGED posted

(* socket_server_send and _send_lowpriority look at the slot first.         *)
SendRequest(id, op) ==
  /\ Live(id) /\ Ask(op, id, Len(posted) + 1)
  /\ posted' = Append(posted, [id |-> id, op |-> op]) /\ UNCHANGED owed
-----------------------------------------------------------------------------
(* What the socket thread does to a slot.                                   *)

Abort ==
  /\ failed' = TRUE
  /\ UNCHANGED <<sock, alloc_id, reserved, pipe, spc, checkctrl, ev, result, quota,
                 posted, wire, gone, limited, owed>>

ForceClose(s) == [s EXCEPT !.type = "INVALID", !.high = <<>>, !.low = <<>>, !.armed = FALSE, !.fd = "none"]

Rest(list, n) == SubSeq(list, n + 1, Len(list))
ListUncomplete(list) == list # <<>> /\ Head(list)[2] > 1

(* The last part of the list's first package.                               *)
HeadEnd(list) == Min({i \in DOMAIN list : i = Len(list) \/ list[i + 1][1] # list[i][1]})

(* raise_uncomplete: the head of the low list to the empty high list.       *)
RaiseUncomplete(s) ==
  IF s.high = <<>> /\ ListUncomplete(s.low)
  THEN [s EXCEPT !.high = SubSeq(s.low, 1, HeadEnd(s.low)), !.low = Rest(s.low, HeadEnd(s.low))]
  ELSE s

(* Fault: a socket that waited for its buffers is not closed.               *)
CheckCloseOnly(s) == [s EXCEPT !.armed = FALSE]

(* send_buffer, step 4                                                      *)
CheckClose(s) ==
  IF s.type = "HALFCLOSE" THEN ForceClose(s) ELSE [s EXCEPT !.armed = FALSE]

(* send_buffer when n parts find room: the high list, then the low list.     *)
Flushed(s, n) ==
  LET h == IF n < Len(s.high) THEN n ELSE Len(s.high)
      t == [s EXCEPT !.high = Rest(@, h), !.low = Rest(@, n - h), !.wb_size = @ - n]
  IN IF t.high # <<>> THEN t
     ELSE IF s.low # <<>> THEN RaiseUncomplete(t)
     ELSE CheckClose(t)

(* The outcomes of send_buffer: n parts are taken, or a write fails after    *)
(* some packages are out.                                                   *)
SendBuffer(s) ==
  LET all == s.high \o s.low
      fails == {n \in 0 .. Len(all) : n < Len(all) /\ (n = 0 \/ all[n][1] # all[n + 1][1])}
  IN {[s |-> Flushed(s, n), w |-> SubSeq(all, 1, n)] : n \in 0 .. Len(all)}
       \cup {[s |-> ForceClose(s), w |-> SubSeq(all, 1, n)] : n \in fails}

(* assert(!list_uncomplete(&s->low)); and a slot that is only reserved has   *)
(* no fd: a write fails, and force_close asserts that it is not reserved.   *)
SendAborts(s) == s.type = "RESERVE" \/ ListUncomplete(s.low)
-----------------------------------------------------------------------------
(* A message for a service, or none (-1).                                   *)
LoopTop(check) == IF check THEN "ctrl" ELSE "event"

Tell(type, id) ==
  /\ result' = [type |-> type, id |-> id]
  /\ gone' = IF type \in {"close", "error"} THEN gone \cup {id} ELSE gone
  /\ owed' = IF type \in {"close", "error"} THEN owed \ {id} ELSE owed
  /\ UNCHANGED limited

(* The message that tells of an end, although the listener stays.            *)
TellLimit(id) ==
  /\ result' = [type |-> "error", id |-> id] /\ limited' = limited \cup {id}
  /\ UNCHANGED <<gone, owed>>

TellNobody == UNCHANGED <<result, gone, limited, owed>>

(* ctrl_cmd is done; a closing answer is looked up among the events.         *)
CtrlEnd(type, id) ==
  /\ IF type = "nothing" THEN TellNobody ELSE Tell(type, id)
  /\ spc' = IF type \in {"close", "error"} THEN "clear" ELSE "ctrl"
  /\ pipe' = Tail(pipe)
  /\ UNCHANGED <<alloc_id, reserved, checkctrl, ev, quota, posted>>

Command(op) == spc = "ctrl" /\ pipe # <<>> /\ Head(pipe).op = op

(* new_fd, with its assertions                                              *)
NewFd(id) == [FreeSlot EXCEPT !.id = id, !.fd = "tcp"]
NewFdAsserts(id) == LET s == sock[Hash(id)] IN s.type = "RESERVE" /\ Empty(s)

NewFdAborts ==
  /\ Command("O") \/ Command("L") \/ Command("B")
  /\ ~NewFdAsserts(Head(pipe).id) /\ Abort

(* open_socket: connected at once, connecting, or failed.                   *)
OpenSocket ==
  LET id == Head(pipe).id IN
  /\ Command("O")
  /\ \/ /\ NewFdAsserts(id)
        /\ sock' = [sock EXCEPT ![Hash(id)] = [NewFd(id) EXCEPT !.type = "CONNECTED"]]
        /\ CtrlEnd("open", id) /\ UNCHANGED <<wire, failed>>
     \/ /\ NewFdAsserts(id)
        /\ sock' = [sock EXCEPT ![Hash(id)] = [NewFd(id) EXCEPT !.type = "CONNECTING", !.armed = TRUE]]
        /\ CtrlEnd("nothing", id) /\ UNCHANGED <<wire, failed>>
     \/ /\ sock' = [sock EXCEPT ![Hash(id)].type = "INVALID"]
        /\ CtrlEnd("error", id) /\ UNCHANGED <<wire, failed>>

(* listen_socket: not in the poll yet.                                      *)
ListenSocket ==
  LET id == Head(pipe).id IN
  /\ Command("L")
  /\ NewFdAsserts(id)
  /\ sock' = [sock EXCEPT ![Hash(id)] = [NewFd(id) EXCEPT !.type = "PLISTEN"]]
  /\ CtrlEnd("nothing", id) /\ UNCHANGED <<wire, failed>>

BindSocket ==
  LET id == Head(pipe).id IN
  /\ Command("B")
  /\ \/ /\ NewFdAsserts(id)
        /\ sock' = [sock EXCEPT ![Hash(id)] = [NewFd(id) EXCEPT !.type = "BIND", !.fd = "file"]]
        /\ CtrlEnd("open", id) /\ UNCHANGED <<wire, failed>>
     \/ /\ sock' = [sock EXCEPT ![Hash(id)].type = "INVALID"]
        /\ CtrlEnd("error", id) /\ UNCHANGED <<wire, failed>>

(* Fault: the id of the slot is not compared.                               *)
StartSocketAny ==
  LET id == Head(pipe).id
      s == sock[Hash(id)] IN
  /\ Command("S")
  /\ \/ /\ s.type = "INVALID"
        /\ CtrlEnd("error", id) /\ UNCHANGED <<sock, wire, failed>>
     \/ /\ s.type \in {"PACCEPT", "PLISTEN"}
        /\ sock' = [sock EXCEPT ![Hash(id)].type = IF @ = "PACCEPT" THEN "CONNECTED" ELSE "LISTEN"]
        /\ CtrlEnd("open", id) /\ UNCHANGED <<wire, failed>>
     \/ /\ s.type = "CONNECTED"
        /\ CtrlEnd("open", id) /\ UNCHANGED <<sock, wire, failed>>
     \/ /\ s.type \notin {"INVALID", "PACCEPT", "PLISTEN", "CONNECTED"}
        /\ CtrlEnd("nothing", id) /\ UNCHANGED <<sock, wire, failed>>

(* start_socket: into the poll, or to another service.                      *)
StartSocket ==
  LET id == Head(pipe).id
      s == sock[Hash(id)] IN
  /\ Command("S")
  /\ \/ /\ ~Live(id)
        /\ CtrlEnd("error", id) /\ UNCHANGED <<sock, wire, failed>>
     \/ /\ Live(id) /\ s.type \in {"PACCEPT", "PLISTEN"}
        /\ sock' = [sock EXCEPT ![Hash(id)].type = IF @ = "PACCEPT" THEN "CONNECTED" ELSE "LISTEN"]
        /\ CtrlEnd("open", id) /\ UNCHANGED <<wire, failed>>
     \/ /\ Live(id) /\ s.type \in {"PACCEPT", "PLISTEN"}
        /\ sock' = [sock EXCEPT ![Hash(id)] = ForceClose(s)]
        /\ CtrlEnd("error", id) /\ UNCHANGED <<wire, failed>>
     \/ /\ Live(id) /\ s.type = "CONNECTED"
        /\ CtrlEnd("open", id) /\ UNCHANGED <<sock, wire, failed>>
     \/ /\ Live(id) /\ s.type \notin {"PACCEPT", "PLISTEN", "CONNECTED"}
        /\ CtrlEnd("nothing", id) /\ UNCHANGED <<sock, wire, failed>>

(* close_socket: what is buffered is tried first; with something left the    *)
(* socket is closed later, unless it is a shutdown.                         *)
CloseSocket ==
  LET id == Head(pipe).id
      k == Hash(id)
      s == sock[k] IN
  /\ Command("K") \/ Command("H")
  /\ \/ /\ ~Live(id)
        /\ CtrlEnd("close", id) /\ UNCHANGED <<sock, wire, failed>>
     \/ /\ Live(id) /\ SendAborts(s) /\ Abort
     \/ /\ Live(id) /\ ~SendAborts(s)
        /\ \E r \in IF Empty(s) THEN {[s |-> s, w |-> <<>>]} ELSE SendBuffer(s) :
             LET over == r.s.type = "INVALID" \/ Head(pipe).op = "H" \/ Empty(r.s) IN
             /\ sock' = [sock EXCEPT ![k] = IF over THEN ForceClose(r.s)
                                            ELSE [r.s EXCEPT !.type = "HALFCLOSE"]]
             /\ CtrlEnd(IF over THEN "close" ELSE "nothing", id)
             /\ wire' = [wire EXCEPT ![id] = @ \o r.w]
        /\ UNCHANGED failed

(* append_sendbuffer, _low                                                  *)
AppendHigh(s, parts) == [s EXCEPT !.high = @ \o parts, !.wb_size = @ + Len(parts)]
AppendLow(s, parts) == [s EXCEPT !.low = @ \o parts, !.wb_size = @ + Len(parts)]

(* Fault: the write event is not asked for.                                 *)
RestUnarmed(s, parts) == AppendHigh(s, parts)

(* The rest of a package written in part goes to the high list.             *)
RestHigh(s, parts) == [AppendHigh(s, parts) EXCEPT !.armed = TRUE]

(* Fault: written at once although packages wait.                           *)
WritesAtOnceAlways(s) == s.type = "CONNECTED"

WritesAtOnce(s) == s.type = "CONNECTED" /\ Empty(s)

(* send_socket: written at once when nothing waits, else queued.            *)
SendSocket ==
  LET c == Head(pipe)
      k == Hash(c.id)
      s == sock[k] IN
  /\ Command("D") \/ Command("P")
  /\ \/ /\ ~Live(c.id) \/ s.type \in {"HALFCLOSE", "PACCEPT", "PLISTEN", "LISTEN"}
        /\ CtrlEnd("nothing", c.id) /\ UNCHANGED <<sock, wire>>
     \/ /\ Live(c.id) /\ WritesAtOnce(s)
        /\ \/ \E n \in 0 .. Size :
                /\ sock' = IF n = Size THEN sock
                           ELSE [sock EXCEPT ![k] = RestHigh(s, Rest(Parts(c.n), n))]
                /\ wire' = [wire EXCEPT ![c.id] = @ \o SubSeq(Parts(c.n), 1, n)]
                /\ CtrlEnd("nothing", c.id)
           \/ /\ sock' = [sock EXCEPT ![k] = ForceClose(s)]
              /\ CtrlEnd("close", c.id) /\ UNCHANGED wire
     \/ /\ Live(c.id) /\ s.type \notin {"HALFCLOSE", "PACCEPT", "PLISTEN", "LISTEN"}
        /\ ~WritesAtOnce(s)
        /\ sock' = [sock EXCEPT ![k] = IF c.op = "P" THEN AppendLow(s, Parts(c.n))
                                       ELSE AppendHigh(s, Parts(c.n))]
        /\ CtrlEnd("nothing", c.id) /\ UNCHANGED wire
  /\ UNCHANGED failed

(* clear_closed_event: the events of a closed socket are forgotten.         *)
ClearClosedEvent ==
  /\ spc = "clear" /\ spc' = "ctrl"
  /\ ev' = [i \in DOMAIN ev |->
              IF ev[i].s # NoSocket /\ sock[ev[i].s].type = "INVALID" /\ sock[ev[i].s].id = result.id
              THEN [ev[i] EXCEPT !.s = NoSocket] ELSE ev[i]]
  /\ UNCHANGED <<sock, alloc_id, reserved, pipe, checkctrl, result, quota, posted, wire, gone, limited, owed, failed>>

NoCommand ==
  /\ spc = "ctrl" /\ pipe = <<>>
  /\ spc' = "event" /\ checkctrl' = FALSE
  /\ UNCHANGED <<sock, alloc_id, reserved, pipe, ev, result, quota, posted, wire, gone, limited, owed, failed>>
-----------------------------------------------------------------------------
(* The events.                                                              *)
InPoll(k) == sock[k].type \in {"CONNECTING", "CONNECTED", "HALFCLOSE", "LISTEN", "BIND"}

(* sp_wait: sockets that are ready, in any order; the pipe's event is NoSocket.  *)
Ready(k) ==
  {e \in [s : {k}, read : BOOLEAN, write : BOOLEAN] :
     (e.read \/ e.write) /\ (e.write => sock[k].armed)}
PipeEvent == [s |-> NoSocket, read |-> TRUE, write |-> FALSE]

Wait ==
  /\ spc = "event" /\ ev = <<>>
  /\ checkctrl' = TRUE
  /\ \E K \in SUBSET {k \in SlotsOf : InPoll(k)} :
     \E f \in [K -> UNION {Ready(k) : k \in K}] :
       /\ \A k \in K : f[k] \in Ready(k)
       /\ LET got == {f[k] : k \in K} \cup (IF pipe = <<>> THEN {} ELSE {PipeEvent})
          IN got # {} /\ ev' \in SetToSeqs(got)
  /\ UNCHANGED <<sock, alloc_id, reserved, pipe, spc, result, quota, posted, wire, gone, limited, owed, failed>>

EventOf(types) == spc = "event" /\ ev # <<>> /\ Head(ev).s # NoSocket /\ sock[Head(ev).s].type \in types

(* The event is treated, and the loop or the next call begins at its top.   *)
EventEnd ==
  /\ ev' = Tail(ev) /\ spc' = LoopTop(checkctrl)
  /\ UNCHANGED <<reserved, pipe, checkctrl, quota, posted>>

SkipEvent ==
  /\ \/ spc = "event" /\ ev # <<>> /\ Head(ev).s = NoSocket
     \/ EventOf({"INVALID"})
  /\ EventEnd /\ TellNobody
  /\ UNCHANGED <<sock, alloc_id, wire, failed>>

ReportConnect ==
  LET k == Head(ev).s
      s == sock[k] IN
  /\ EventOf({"CONNECTING"})
  /\ \/ /\ sock' = [sock EXCEPT ![k].type = "CONNECTED", ![k].armed = ~Empty(s)]
        /\ Tell("open", s.id)
     \/ sock' = [sock EXCEPT ![k] = ForceClose(s)] /\ Tell("error", s.id)
  /\ EventEnd /\ UNCHANGED <<alloc_id, wire, failed>>

(* report_accept: a new socket in a free slot, told under the id of the      *)
(* listener; or accept fails, which is told when no file is left.            *)
ReportAccept ==
  LET s == sock[Head(ev).s] IN
  /\ EventOf({"LISTEN"})
  /\ \/ \E d \in 1 .. MaxSocket :
          LET id == alloc_id + d IN
          /\ id <= MaxId /\ sock[Hash(id)].type = "INVALID"
          /\ \A c \in 1 .. d - 1 : sock[Hash(alloc_id + c)].type # "INVALID"
          /\ alloc_id' = id
          /\ IF Empty(sock[Hash(id)])
             THEN /\ sock' = [sock EXCEPT ![Hash(id)] = [NewFd(id) EXCEPT !.type = "PACCEPT"]]
                  /\ Tell("accept", s.id) /\ UNCHANGED failed
             ELSE failed' = TRUE /\ TellNobody /\ UNCHANGED sock
     \/ (TellNobody \/ TellLimit(s.id)) /\ UNCHANGED <<sock, alloc_id, failed>>
  /\ EventEnd /\ UNCHANGED wire

Others == {"RESERVE", "PLISTEN", "PACCEPT", "CONNECTED", "HALFCLOSE", "BIND"}

(* forward_message_tcp: data, nothing, the peer's close or an error.  After  *)
(* data the write part of the event is still to come.                       *)
ReadEvent ==
  LET k == Head(ev).s
      s == sock[k] IN
  /\ EventOf(Others) /\ Head(ev).read
  /\ \/ /\ s.type = "RESERVE" /\ Abort
     \/ /\ s.type \notin {"RESERVE", "PLISTEN"}
        /\ \/ TellNobody
           \/ s.type # "HALFCLOSE" /\ Tell("data", s.id)
        /\ IF Head(ev).write
           THEN /\ ev' = [ev EXCEPT ![1].read = FALSE] /\ spc' = LoopTop(checkctrl)
                /\ UNCHANGED <<reserved, pipe, checkctrl, quota, posted>>
           ELSE EventEnd
        /\ UNCHANGED <<sock, alloc_id, wire, failed>>
     \/ /\ s.type # "RESERVE"
        /\ sock' = [sock EXCEPT ![k] = ForceClose(s)]
        /\ \E type \in {"close", "error"} : Tell(type, s.id)
        /\ EventEnd /\ UNCHANGED <<alloc_id, wire, failed>>

WriteEvent ==
  LET k == Head(ev).s
      s == sock[k] IN
  /\ EventOf(Others) /\ ~Head(ev).read /\ Head(ev).write
  /\ \/ SendAborts(s) /\ ~Empty(s) /\ Abort
     \/ \E r \in SendBuffer(s) :
          /\ ~SendAborts(s) \/ Empty(s)
          /\ sock' = [sock EXCEPT ![k] = r.s]
          /\ wire' = [wire EXCEPT ![s.id] = @ \o r.w]
          /\ IF r.s.type = "INVALID" THEN Tell("close", s.id) ELSE TellNobody
          /\ EventEnd /\ UNCHANGED <<alloc_id, failed>>

(* The socket thread.                                                       *)
Poll ==
  \/ NewFdAborts \/ OpenSocket \/ ListenSocket \/ BindSocket \/ StartSocket \/ CloseSocket \/ SendSocket
  \/ ClearClosedEvent \/ NoCommand
  \/ Wait \/ SkipEvent \/ ReportConnect \/ ReportAccept \/ ReadEvent \/ WriteEvent

SocketNext ==
  /\ ~failed
  /\ \/ Poll
     \/ Reserve
     \/ \E id \in Ids :
          \/ \E op \in {"O", "L", "B"} : OpenRequest(id, op)
          \/ Start(id) \/ Close(id, "K") \/ Close(id, "H")
          \/ \E op \in {"D", "P"} : SendRequest(id, op)

SocketSpec == SocketInit /\ [][SocketNext]_sockVars
-----------------------------------------------------------------------------
(* No package in the low list is written in part, which send_buffer asserts  *)
(* (socket_server.c:611), and wb_size, which socket_server_send returns to   *)
(* the services, is what the buffers hold: through partial writes, raised    *)
(* packages and reused slots.                                               *)
BuffersSound ==
  \A k \in SlotsOf : LET s == sock[k] IN
    /\ ~ListUncomplete(s.low)
    /\ s.type \notin {"INVALID", "RESERVE"} => s.wb_size = Len(s.high) + Len(s.low)

(* On the wire packages are whole, and those of one priority are in the      *)
(* order they were sent in: a package of which a part is out is never        *)
(* overtaken, by a later one of high priority either (socket_server.c:599), *)
(* and the buffers hold the rest (BuffersSound).                            *)
WireInOrder ==
  /\ BuffersSound
  /\ \A id \in Ids : \A i \in DOMAIN wire[id] :
       LET w == wire[id] IN
       /\ w[i][2] > 1 => i > 1 /\ w[i - 1] = <<w[i][1], w[i][2] - 1>>
       /\ w[i][2] = 1 => i = 1 \/ w[i - 1][2] = Size
       /\ posted[w[i][1]].id = id
       /\ \A j \in 1 .. i : posted[w[j][1]].op = posted[w[i][1]].op => w[j][1] <= w[i][1]

(* What waits in the buffers of a connection is waited for: the write event  *)
(* is on, whatever was queued, written in part, connected or half closed.   *)
WriteArmed ==
  \A k \in SlotsOf : sock[k].fd = "tcp" /\ ~Empty(sock[k]) => sock[k].armed

(* A service that was told its socket is closed, or in error, hears nothing   *)
(* more of it: no data, no connection, no start, although the slot is used   *)
(* again.  The exception is a listener whose accept finds no file left: it    *)
(* reports an error, stays open, and reports connections later, but nothing  *)
(* else (socket_server.c:1143-1149, 1242-1243).                             *)
NothingAfterClose ==
  [][result' # result /\ result'.type \in {"data", "open", "accept"}
       => /\ result'.id \notin gone
          /\ result'.id \in limited => result'.type = "accept"]_sockVars

(* A service that closes a socket will be told: while it was not, its        *)
(* command is still to be read, or the socket is half closed and waits for    *)
(* the write event that will close it.  A bound file is not waited for: only  *)
(* a connection turns its write event on (socket_server.c:610-638, 785-809). *)
CloseUnderWay ==
  failed \/ \A id \in owed :
    \/ \E i \in DOMAIN pipe : pipe[i].id = id /\ pipe[i].op \in {"K", "H"}
    \/ LET s == sock[Hash(id)] IN
       Live(id) /\ s.type = "HALFCLOSE" /\ (s.armed \/ s.fd = "file")
=============================================================================
