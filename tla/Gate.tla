-------------------------------- MODULE Gate --------------------------------
(***************************************************************************)
(* The gate: lua-netpack.c cuts the bytes of the connections into packages, *)
(* gateserver.lua keeps the table of connections and hands the packages     *)
(* over.  A package is a size of two bytes and that many bytes; TCP brings  *)
(* the bytes in pieces of any length, those of several connections mixed.   *)
(*                                                                         *)
(* A byte of a size is a digit to the base `Base` (256 in the code), a byte *)
(* of contents tells its connection and its package.                       *)
(***************************************************************************)
EXTENDS Integers, Sequences, SequencesExt, FiniteSets

CONSTANTS Base,
          Plans,        \* what the peers may send: for each fd the package sizes
          HashSize,     \* HASHSIZE
          NetQueueSize, \* QUEUESIZE
          MaxClient

ASSUME GateAssumption ==
  /\ Base \in Nat \ {0, 1} /\ HashSize \in Nat \ {0} /\ NetQueueSize \in Nat \ {0}
  /\ MaxClient \in Nat
  /\ \A p \in Plans : p \in Seq(Seq(0 .. Base * Base - 1))

VARIABLES plan,         \* the plan the peers follow
          link,         \* of each fd: "none", "accepted", "started" or "closed"
          coming,       \* the bytes still to come
          hash,         \* uncomplete packages, a list for each hash value
          netq,         \* the queue of complete packages: a ring
          connection,   \* gateserver's table: nil, true or false
          client_number,
          got           \* the packages handed over

gateVars == <<plan, link, coming, hash, netq, connection, client_number, got>>

Fds == DOMAIN plan
Contents(fd, i) == [k \in 1 .. plan[fd][i] |-> 100 * fd + i]
Sent(fd) == [i \in DOMAIN plan[fd] |-> Contents(fd, i)]

(* lpack: the size in two digits, the high one first.                       *)
Packed(c) == <<Len(c) \div Base, Len(c) % Base>> \o c

(* What the peer of fd sends, all in all.                                   *)
Stream(fd) == FlattenSeq([i \in DOMAIN plan[fd] |-> Packed(Contents(fd, i))])

EmptyRing(n) == [cap |-> n, head |-> 0, tail |-> 0, q |-> [i \in 0 .. n - 1 |-> <<>>]]

GateInit ==
  /\ plan \in Plans
  /\ link = [fd \in Fds |-> "none"]
  /\ coming = [fd \in Fds |-> Stream(fd)]
  /\ hash = [h \in 0 .. HashSize - 1 |-> <<>>]
  /\ netq = EmptyRing(NetQueueSize)
  /\ connection = [fd \in Fds |-> "nil"] /\ client_number = 0
  /\ got = [fd \in Fds |-> <<>>]
-----------------------------------------------------------------------------
(* The ring.                                                                *)
HashFd(fd) == fd % HashSize

(* expand_queue                                                             *)
ExpandRing(r) ==
  [cap |-> r.cap + NetQueueSize, head |-> 0, tail |-> r.cap,
   q |-> [i \in 0 .. r.cap + NetQueueSize - 1 |->
            IF i < r.cap THEN r.q[(r.head + i) % r.cap] ELSE <<>>]]

(* push_data                                                                *)
PushData(r, pack) ==
  LET t == IF r.tail + 1 >= r.cap THEN r.tail + 1 - r.cap ELSE r.tail + 1
      s == [r EXCEPT !.q[r.tail] = pack, !.tail = t]
  IN IF s.head = s.tail THEN ExpandRing(s) ELSE s

(* The packages, pushed one after the other.                                *)
PushAll(r, packs) ==
  LET pushed[k \in 0 .. Len(packs)] == IF k = 0 THEN r ELSE PushData(pushed[k - 1], packs[k])
  IN pushed[Len(packs)]

(* lpop until it returns nothing: dispatch_queue, whose handler never waits. *)
Popped(r) ==
  [i \in 1 .. (IF r.head <= r.tail THEN r.tail - r.head ELSE r.tail + r.cap - r.head) |->
     r.q[(r.head + i - 1) % r.cap]]
-----------------------------------------------------------------------------
(* The uncomplete packages.  `read` is -1 while one byte of the size is here. *)
Uncomplete(fd, read, header, size, data) ==
  [id |-> fd, read |-> read, header |-> header, size |-> size, data |-> data]

(* Fault: the head of the list is taken without looking at its id.           *)
FindAny(list, fd) == IF list = <<>> THEN 0 ELSE 1

(* find_uncomplete: the place of the first one of fd, 0 if there is none.    *)
FindUncomplete(list, fd) ==
  LET here == {i \in DOMAIN list : list[i].id = fd}
  IN IF here = {} THEN 0 ELSE CHOOSE i \in here : \A j \in here : i <= j

(* The size at the place i of the bytes b, and whether all that it tells is  *)
(* there.                                                                   *)
SizeAt(b, i) == b[i + 1] * Base + b[i + 2]
CompleteAt(b, i) == i + 2 <= Len(b) /\ i + 2 + SizeAt(b, i) <= Len(b)

(* Bytes that are no complete package, kept: a sequence of one or none.      *)
Leftover(fd, b) ==
  IF b = <<>> THEN <<>>
  ELSE IF Len(b) = 1 THEN <<Uncomplete(fd, -1, b[1], 0, <<>>)>>
  ELSE <<Uncomplete(fd, Len(b) - 2, 0, SizeAt(b, 0), SubSeq(b, 3, Len(b)))>>

(* push_more: what the bytes b of fd give, from each place on.               *)
PushMore(fd, b) ==
  LET from[i \in 0 .. Len(b)] ==
        LET next == i + 2 + SizeAt(b, i) IN
        IF CompleteAt(b, i)
        THEN [packs |-> <<SubSeq(b, i + 3, next)>> \o from[next].packs,
              rest |-> from[next].rest]
        ELSE [packs |-> <<>>, rest |-> Leftover(fd, SubSeq(b, i + 1, Len(b)))]
  IN from[0]

(* The size of a package whose first byte came alone.                       *)
LateSize(uc, b) == uc.header * Base + b[1]

(* filter_data_ with an uncomplete package.                                 *)
Continue(uc, b) ==
  LET late == uc.read < 0
      size == IF late THEN LateSize(uc, b) ELSE uc.size
      c == IF late THEN Tail(b) ELSE b
      need == size - Len(uc.data)
  IN IF Len(c) < need
     THEN [packs |-> <<>>,
           rest |-> <<Uncomplete(uc.id, Len(uc.data) + Len(c), 0, size, uc.data \o c)>>]
     ELSE LET more == PushMore(uc.id, SubSeq(c, need + 1, Len(c)))
          IN [more EXCEPT !.packs = <<uc.data \o SubSeq(c, 1, need)>> \o @]

Filtered(fd, b) ==
  LET at == FindUncomplete(hash[HashFd(fd)], fd)
  IN IF at = 0 THEN PushMore(fd, b) ELSE Continue(hash[HashFd(fd)][at], b)

(* find_uncomplete has taken it out of its list.                            *)
Taken(fd) ==
  LET at == FindUncomplete(hash[HashFd(fd)], fd)
  IN IF at = 0 THEN hash ELSE [hash EXCEPT ![HashFd(fd)] = RemoveAt(@, at)]
-----------------------------------------------------------------------------
(* The socket messages, and the calls of the watchdog.                      *)

(* MSG.open: with too many clients the connection is closed at once.        *)
Accepted(fd) ==
  /\ link[fd] = "none" /\ link' = [link EXCEPT ![fd] = "accepted"]
  /\ IF client_number >= MaxClient THEN UNCHANGED <<connection, client_number>>
     ELSE /\ connection' = [connection EXCEPT ![fd] = "true"]
          /\ client_number' = client_number + 1
  /\ UNCHANGED <<plan, coming, hash, netq, got>>

(* gateserver.openclient                                                    *)
OpenClient(fd) ==
  /\ link[fd] = "accepted" /\ connection[fd] = "true"
  /\ link' = [link EXCEPT ![fd] = "started"]
  /\ UNCHANGED <<plan, coming, hash, netq, connection, client_number, got>>

(* gateserver.closeclient: the close itself comes as a message.             *)
CloseClient(fd) ==
  /\ connection[fd] = "true" /\ connection' = [connection EXCEPT ![fd] = "false"]
  /\ UNCHANGED <<plan, link, coming, hash, netq, client_number, got>>

(* A piece of data: one package alone is handed over directly, several pass  *)
(* through the queue.                                                       *)
Data(fd, n) ==
  LET b == SubSeq(coming[fd], 1, n)
      f == Filtered(fd, b)
      alone == Len(f.packs) = 1 /\ f.rest = <<>>
      r == PushAll(netq, f.packs)
  IN
  /\ link[fd] = "started"
  /\ coming' = [coming EXCEPT ![fd] = SubSeq(@, n + 1, Len(@))]
  /\ hash' = [Taken(fd) EXCEPT ![HashFd(fd)] = f.rest \o @]
  /\ netq' = IF alone THEN netq ELSE [r EXCEPT !.head = r.tail]
  /\ got' = IF connection[fd] # "true" THEN got
            ELSE [got EXCEPT ![fd] = @ \o (IF alone THEN f.packs ELSE Popped(r))]
  /\ UNCHANGED <<plan, link, connection, client_number>>

(* Fault: what is left over is kept.                                        *)
ClosedKeeping(fd) ==
  /\ link[fd] \in {"accepted", "started"} /\ link' = [link EXCEPT ![fd] = "closed"]
  /\ IF connection[fd] = "nil" THEN UNCHANGED <<connection, client_number>>
     ELSE /\ connection' = [connection EXCEPT ![fd] = "nil"]
          /\ client_number' = client_number - 1
  /\ UNCHANGED <<plan, coming, hash, netq, got>>

(* MSG.close and MSG.error: by the peer, by closeclient, or after a refusal. *)
Closed(fd) ==
  /\ link[fd] \in {"accepted", "started"} /\ link' = [link EXCEPT ![fd] = "closed"]
  /\ hash' = Taken(fd)
  /\ IF connection[fd] = "nil" THEN UNCHANGED <<connection, client_number>>
     ELSE /\ connection' = [connection EXCEPT ![fd] = "nil"]
          /\ client_number' = client_number - 1
  /\ UNCHANGED <<plan, coming, netq, got>>

GateNext ==
  \E fd \in Fds :
    \/ Accepted(fd) \/ OpenClient(fd) \/ CloseClient(fd) \/ Closed(fd)
    \/ \E n \in 1 .. Len(coming[fd]) : Data(fd, n)

GateSpec == GateInit /\ [][GateNext]_gateVars
-----------------------------------------------------------------------------
(* However the bytes are cut and mixed, a connection's packages are handed   *)
(* over whole and in order, and when all bytes are here none is left behind  *)
(* (lua-netpack.c:184-292).                                                 *)
PackagesWhole ==
  \A fd \in Fds :
    /\ IsPrefix(got[fd], Sent(fd))
    /\ connection[fd] = "true" /\ coming[fd] = <<>> => got[fd] = Sent(fd)

(* Each connection has at most one leftover, and a closed one has none.      *)
LeftoversOwned ==
  \A h \in DOMAIN hash : \A i \in DOMAIN hash[h] :
    LET uc == hash[h][i] IN
    /\ link[uc.id] = "started" /\ HashFd(uc.id) = h
    /\ \A j \in DOMAIN hash[h] : hash[h][j].id = uc.id => i = j

(* client_number is the number of connections in the table and never over    *)
(* the limit: refused, kicked and broken connections are counted out once.   *)
ClientsCounted ==
  /\ client_number = Cardinality({fd \in Fds : connection[fd] # "nil"})
  /\ client_number <= MaxClient

(* However a connection is refused, kicked or broken, what the gate and its  *)
(* splitter of packages hold of it is gone with it (gateserver.lua:81-124). *)
ConnectionsSound == LeftoversOwned /\ ClientsCounted
=============================================================================
