---------------------------- MODULE TcpTransport ----------------------------
(***************************************************************************)
(* The MAL/TCP transport of src/mal/transport/tcp/tcp.go: the queue of     *)
(* outgoing messages, the goroutine handleOut that dials connections and   *)
(* writes to them, one goroutine handleIn for each connection, the table   *)
(* of connections they share, and Close.                                   *)
(*                                                                         *)
(* The network is external: a connection carries what is written in order, *)
(* the remote end may go away at any time and what it has not read is then *)
(* lost.  A step ends at each use of the table, each I/O call and each     *)
(* channel operation.                                                      *)
(***************************************************************************)
EXTENDS Integers, Sequences, FiniteSets

CONSTANTS
  Msg,           \* the messages given to Transmit, each once
  Uri,           \* host:port of the destinations
  Dest,          \* Dest[m]: the host:port of m's UriTo, NoUri if it has none
  Resolve,       \* Resolve[u]: RemoteAddr() of a connection dialed to u
  Unencodable,   \* the messages that encode returns an error for
  ChLength,      \* make(chan *Message, 10)
  CtxLength,     \* room in Context.ch, where Receive blocks
  MaxConn,       \* bound on the connections of a behaviour
  MaxAccept,     \* bound on those that are accepted and not dialed
  MaxArrived,    \* bound on the messages that come in
  MaxFaults,     \* bound on the failures of the network or the remote side
  NoMsg, NoUri

ASSUME DestAssumption == Dest \in [Msg -> Uri \cup {NoUri}] /\ NoUri \notin Uri
ASSUME ResolveAssumption ==
  Resolve \in [Uri -> Uri] /\ \A u \in Uri : Resolve[Resolve[u]] = Resolve[u]
ASSUME MsgAssumption == NoMsg \notin Msg /\ Unencodable \subseteq Msg
ASSUME LengthAssumption == /\ ChLength \in Nat \ {0} /\ CtxLength \in Nat \ {0}
                           /\ MaxConn \in Nat /\ MaxAccept \in Nat
                           /\ MaxArrived \in Nat /\ MaxFaults \in Nat

Conn == 1 .. MaxConn

NoConn == 0

VARIABLES
  sent,        \* the messages Transmit accepted, in order
  ch,          \* transport.ch
  closing,     \* "no" while running, "started" and "done" as Close proceeds
  out,         \* handleOut: where it is, msg, nbtry, cnx
  conns,       \* transport.conns: NoConn for no entry; nil once closing is done
  nconn,       \* the connections made so far
  address,     \* RemoteAddr() of each connection
  local,       \* our end of the connection is open
  remote,      \* so is the other end
  wire,        \* what was written and the other end has not read
  reader,      \* where the connection's handleIn is
  arrived,     \* the messages that have come in
  received,    \* those that wait in Context.ch
  delivered,   \* delivered[u]: the messages the other side of u has read
  faults,
  panicked     \* a goroutine has panicked: the process is dead

connVars == <<nconn, address, local, remote, wire, reader>>
inVars == <<arrived, received>>
vars == <<sent, ch, closing, out, conns, connVars, inVars, delivered, faults, panicked>>

Running == closing = "no"

\* The keys of the table: a destination, or the address of the other end of an
\* accepted connection, which no message is sent to.
Accepted(c) == <<"accepted", c>>
Keys == Uri \cup {Accepted(c) : c \in Conn}

ASSUME KeysAssumption == \A c \in Conn : Accepted(c) \notin Uri

\* Every variable has its type, and handleOut knows the message and the
\* connection it works on.
QueueTypeOK ==
  /\ sent \in Seq(Msg)
  /\ ch \in Seq(Msg)
  /\ closing \in {"no", "started", "done"}
  /\ panicked \in BOOLEAN
OutTypeOK ==
  /\ out \in [pc : {"take", "lookup", "dial", "add", "write", "close", "del", "ends"},
              msg : Msg \cup {NoMsg}, nbtry : 0 .. 3, cnx : Conn \cup {NoConn}]
  /\ out.pc \notin {"take", "ends"} => out.msg \in Msg
  /\ out.pc \notin {"take", "ends", "lookup"} => Dest[out.msg] \in Uri
  /\ out.pc \in {"add", "write", "close", "del"} => out.cnx \in Conn
  /\ out.pc \notin {"close", "del"} => out.nbtry < 3
ConnTypeOK ==
  /\ conns \in [Keys -> Conn \cup {NoConn}]
  /\ nconn \in 0 .. MaxConn
  /\ address \in [Conn -> Keys]
  /\ local \in [Conn -> BOOLEAN]
  /\ remote \in [Conn -> BOOLEAN]
  /\ reader \in [Conn -> {"none", "add", "read", "receive", "close", "del", "done"}]
NetTypeOK ==
  /\ wire \in [Conn -> Seq(Msg)]
  /\ arrived \in 0 .. MaxArrived
  /\ received \in 0 .. CtxLength
  /\ delivered \in [Uri -> Seq(Msg)]
  /\ faults \in 0 .. MaxFaults
TypeOK == QueueTypeOK /\ OutTypeOK /\ ConnTypeOK /\ NetTypeOK

Free == [pc |-> "take", msg |-> NoMsg, nbtry |-> 0, cnx |-> NoConn]

\* init and start.
Init ==
  /\ sent = <<>>
  /\ ch = <<>>
  /\ closing = "no"
  /\ out = Free
  /\ conns = [k \in Keys |-> NoConn]
  /\ nconn = 0
  /\ address = [c \in Conn |-> Accepted(c)]
  /\ local = [c \in Conn |-> FALSE]
  /\ remote = [c \in Conn |-> FALSE]
  /\ wire = [c \in Conn |-> <<>>]
  /\ reader = [c \in Conn |-> "none"]
  /\ arrived = 0
  /\ received = 0
  /\ delivered = [u \in Uri |-> <<>>]
  /\ faults = 0
  /\ panicked = FALSE

-----------------------------------------------------------------------------
(* The table of connections.                                               *)

\* addConnection: a write to the map, which is nil once Close is done.
AddConnection(k, c) ==
  IF closing = "done" THEN panicked' = TRUE /\ UNCHANGED conns
  ELSE conns' = [conns EXCEPT ![k] = c] /\ UNCHANGED panicked

KeptConnection(k) == UNCHANGED conns   \* mutant: the entry is not deleted
\* delConnection: whatever connection the entry holds.
DelConnection(k) == conns' = [conns EXCEPT ![k] = NoConn]

AlwaysNew(k) == NoConn   \* mutant: the connections of the table are not reused
LastMade(k) == nconn     \* mutant: the last connection, whatever its key
GetConnection(k) == conns[k]

\* A new connection with the other end at key k.
Connected(k) ==
  /\ nconn < MaxConn
  /\ nconn' = nconn + 1
  /\ address' = [address EXCEPT ![nconn + 1] = k]
  /\ local' = [local EXCEPT ![nconn + 1] = TRUE]
  /\ remote' = [remote EXCEPT ![nconn + 1] = TRUE]

-----------------------------------------------------------------------------
(* Outgoing messages.                                                      *)

\* Transmit: `transport.ch <- msg`, which panics once Close has closed it.
Transmit(m) ==
  /\ \A i \in DOMAIN sent : sent[i] # m
  /\ IF Running
     THEN /\ Len(ch) < ChLength
          /\ ch' = Append(ch, m)
          /\ sent' = Append(sent, m)
          /\ UNCHANGED panicked
     ELSE panicked' = TRUE /\ UNCHANGED <<ch, sent>>
  /\ UNCHANGED <<closing, out, conns, connVars, inVars, delivered, faults>>

\* handleOut takes the next message,
Take ==
  /\ out.pc = "take"
  /\ ch # <<>>
  /\ ch' = Tail(ch)
  /\ out' = [out EXCEPT !.pc = "lookup", !.msg = Head(ch), !.nbtry = 0]
  /\ UNCHANGED <<sent, closing, conns, connVars, inVars, delivered, faults, panicked>>

\* or finds the channel closed, and blocks in `transport.ends <- true`.
TakeClosed ==
  /\ out.pc = "take"
  /\ ch = <<>>
  /\ ~Running
  /\ out' = [out EXCEPT !.pc = "ends"]
  /\ UNCHANGED <<sent, ch, closing, conns, connVars, inVars, delivered, faults, panicked>>

\* The connection for the message's destination.  A URI that does not parse is
\* tried again for ever: the loop changes nothing.
Lookup ==
  /\ out.pc = "lookup"
  /\ Dest[out.msg] # NoUri
  /\ LET cnx == GetConnection(Dest[out.msg]) IN
       out' = [out EXCEPT !.pc = IF cnx = NoConn THEN "dial" ELSE "write", !.cnx = cnx]
  /\ UNCHANGED <<sent, ch, closing, conns, connVars, inVars, delivered, faults, panicked>>

\* net.Dial makes a connection, or fails, and the loop looks the table up again.
Dial ==
  /\ out.pc = "dial"
  /\ Connected(Resolve[Dest[out.msg]])
  /\ out' = [out EXCEPT !.pc = "add", !.cnx = nconn + 1]
  /\ UNCHANGED <<sent, ch, closing, conns, wire, reader, inVars, delivered, faults, panicked>>

DialFails ==
  /\ out.pc = "dial"
  /\ out' = [out EXCEPT !.pc = "lookup"]
  /\ UNCHANGED <<sent, ch, closing, conns, connVars, inVars, delivered, faults, panicked>>

\* The new connection enters the table and gets its handleIn.
AddDialed ==
  /\ out.pc = "add"
  /\ AddConnection(Dest[out.msg], out.cnx)
  /\ reader' = [reader EXCEPT ![out.cnx] = "add"]
  /\ out' = [out EXCEPT !.pc = "write"]
  /\ UNCHANGED <<sent, ch, closing, nconn, address, local, remote, wire, inVars,
                 delivered, faults>>

\* Mutant: handleOut ends after a message.
LastOne == [out EXCEPT !.pc = "ends", !.msg = NoMsg, !.cnx = NoConn]
Finished == [out EXCEPT !.pc = "take", !.msg = NoMsg, !.cnx = NoConn]
KeptMessage == [out EXCEPT !.pc = "lookup"]   \* mutant: `msg = nil` is missing
Written == Finished

\* writeMessage: a write to an open connection may succeed even when the other
\* end has gone, and the message is lost,
Write ==
  /\ out.pc = "write"
  /\ out.msg \notin Unencodable
  /\ local[out.cnx]
  /\ wire' = IF remote[out.cnx]
             THEN [wire EXCEPT ![out.cnx] = Append(@, out.msg)] ELSE wire
  /\ out' = Written
  /\ UNCHANGED <<sent, ch, closing, conns, nconn, address, local, remote, reader,
                 inVars, delivered, faults, panicked>>

NextTry(n) == n + 1

\* and it fails when encode does or either end is closed.
WriteFails ==
  /\ out.pc = "write"
  /\ \/ out.msg \in Unencodable
     \/ ~local[out.cnx]
     \/ ~remote[out.cnx]
  /\ out' = [out EXCEPT !.pc = "close", !.nbtry = NextTry(@)]
  /\ UNCHANGED <<sent, ch, closing, conns, connVars, inVars, delivered, faults, panicked>>

\* cnx.Close(): our end; what is on its way may still be read.
CloseOut ==
  /\ out.pc = "close"
  /\ local' = [local EXCEPT ![out.cnx] = FALSE]
  /\ out' = [out EXCEPT !.pc = "del"]
  /\ UNCHANGED <<sent, ch, closing, conns, nconn, address, remote, wire, reader,
                 inVars, delivered, faults, panicked>>

FourTries(n) == n <= 3   \* mutant
TryAgain(n) == n < 3

\* delConnection, then three tries in all.
DelOut ==
  /\ out.pc = "del"
  /\ DelConnection(Dest[out.msg])
  /\ out' = IF TryAgain(out.nbtry) THEN [out EXCEPT !.pc = "lookup"]
            ELSE [Finished EXCEPT !.nbtry = 0]
  /\ UNCHANGED <<sent, ch, closing, connVars, inVars, delivered, faults, panicked>>

-----------------------------------------------------------------------------
(* Incoming connections and messages.                                      *)

\* handleConn: a connection is accepted and gets its handleIn.
Accept ==
  /\ closing # "done"
  /\ Cardinality({c \in 1 .. nconn : address[c] = Accepted(c)}) < MaxAccept
  /\ Connected(Accepted(nconn + 1))
  /\ reader' = [reader EXCEPT ![nconn + 1] = "add"]
  /\ UNCHANGED <<sent, ch, closing, out, conns, wire, inVars, delivered, faults, panicked>>

\* The condition of the loop of handleIn.
Loop == IF Running THEN "read" ELSE "close"

\* handleIn registers its connection again, under the address of the other end.
Register(c) ==
  /\ reader[c] = "add"
  /\ AddConnection(address[c], c)
  /\ reader' = [reader EXCEPT ![c] = Loop]
  /\ UNCHANGED <<sent, ch, closing, out, nconn, address, local, remote, wire,
                 inVars, delivered, faults>>

\* readMessage returns a message, which ctx.Receive passes on: it blocks while
\* the channel of the Context is full.
ReadMessage(c) ==
  /\ reader[c] = "read"
  /\ local[c] /\ remote[c]
  /\ arrived < MaxArrived
  /\ arrived' = arrived + 1
  /\ reader' = [reader EXCEPT ![c] = "receive"]
  /\ UNCHANGED <<sent, ch, closing, out, conns, nconn, address, local, remote, wire,
                 received, delivered, faults, panicked>>

Receive(c) ==
  /\ reader[c] = "receive"
  /\ received < CtxLength
  /\ received' = received + 1
  /\ reader' = [reader EXCEPT ![c] = Loop]
  /\ UNCHANGED <<sent, ch, closing, out, conns, nconn, address, local, remote, wire,
                 arrived, delivered, faults, panicked>>

IgnoreError == "read"   \* mutant: the loop goes on after an error
AfterError == "close"

\* readMessage returns an error: the connection is closed, or what it carries
\* is no MAL message.
ReadFails(c) ==
  /\ reader[c] = "read"
  /\ IF local[c] /\ remote[c] THEN faults < MaxFaults /\ faults' = faults + 1
     ELSE UNCHANGED faults
  /\ reader' = [reader EXCEPT ![c] = AfterError]
  /\ UNCHANGED <<sent, ch, closing, out, conns, nconn, address, local, remote, wire,
                 inVars, delivered, panicked>>

\* handleIn ends: cnx.Close(), then delConnection.
CloseIn(c) ==
  /\ reader[c] = "close"
  /\ local' = [local EXCEPT ![c] = FALSE]
  /\ reader' = [reader EXCEPT ![c] = "del"]
  /\ UNCHANGED <<sent, ch, closing, out, conns, nconn, address, remote, wire,
                 inVars, delivered, faults, panicked>>

DelIn(c) ==
  /\ reader[c] = "del"
  /\ DelConnection(address[c])
  /\ reader' = [reader EXCEPT ![c] = "done"]
  /\ UNCHANGED <<sent, ch, closing, out, nconn, address, local, remote, wire,
                 inVars, delivered, faults, panicked>>

-----------------------------------------------------------------------------
(* Close.                                                                  *)

\* running = false; close(ch).
CloseStarts ==
  /\ Running
  /\ closing' = "started"
  /\ UNCHANGED <<sent, ch, out, conns, connVars, inVars, delivered, faults, panicked>>

\* The listening socket, then under the lock every connection of the table;
\* conns = nil.
CloseEnds ==
  /\ closing = "started"
  /\ closing' = "done"
  /\ local' = [c \in Conn |-> local[c] /\ \A k \in Keys : conns[k] # c]
  /\ conns' = [k \in Keys |-> NoConn]
  /\ UNCHANGED <<sent, ch, out, nconn, address, remote, wire, reader, inVars,
                 delivered, faults, panicked>>

-----------------------------------------------------------------------------
(* External: the other ends of the connections, and the Context.           *)

\* The other end reads the next message of a connection.
PeerReads(c) ==
  /\ remote[c]
  /\ wire[c] # <<>>
  /\ wire' = [wire EXCEPT ![c] = Tail(@)]
  /\ delivered' = [delivered EXCEPT ![address[c]] = Append(@, Head(wire[c]))]
  /\ UNCHANGED <<sent, ch, closing, out, conns, nconn, address, local, remote, reader,
                 inVars, faults, panicked>>

\* The other end goes away; what it has not read is lost.
PeerCloses(c) ==
  /\ remote[c]
  /\ faults < MaxFaults
  /\ faults' = faults + 1
  /\ remote' = [remote EXCEPT ![c] = FALSE]
  /\ wire' = [wire EXCEPT ![c] = <<>>]
  /\ UNCHANGED <<sent, ch, closing, out, conns, nconn, address, local, reader,
                 inVars, delivered, panicked>>

\* Context.handle takes a message from Context.ch.
ContextHandles ==
  /\ received > 0
  /\ received' = received - 1
  /\ UNCHANGED <<sent, ch, closing, out, conns, connVars, arrived, delivered, faults, panicked>>

-----------------------------------------------------------------------------
HandleOut == \/ Take \/ TakeClosed \/ Lookup \/ Dial \/ DialFails \/ AddDialed
             \/ Write \/ WriteFails \/ CloseOut \/ DelOut

HandleIn(c) == \/ Register(c) \/ ReadMessage(c) \/ Receive(c) \/ ReadFails(c)
               \/ CloseIn(c) \/ DelIn(c)

Close == CloseStarts \/ CloseEnds

External == ContextHandles \/ \E c \in Conn : PeerReads(c) \/ PeerCloses(c)

\* While the transport is open.
Working ==
  /\ ~panicked
  /\ \/ \E m \in Msg : Transmit(m)
     \/ HandleOut
     \/ Accept
     \/ \E c \in Conn : HandleIn(c)
     \/ External

Next == Working \/ (~panicked /\ Close)

Spec == Init /\ [][Next]_vars

\* The application never closes the transport.
WorkingSpec == Init /\ [][Working]_vars
-----------------------------------------------------------------------------
(* Safety.                                                                 *)

Contents(s) == {s[i] : i \in DOMAIN s}

\* Where a message is: each in at most one place, and there once.
Places(m) ==
  {<<"ch", i, 0>> : i \in {j \in DOMAIN ch : ch[j] = m}}
  \cup {<<"out", 0, 0>> : x \in {out.msg} \cap {m}}
  \cup (UNION {{<<"wire", i, c>> : i \in {j \in DOMAIN wire[c] : wire[c][j] = m}} : c \in Conn})
  \cup (UNION {{<<"read", i, u>> : i \in {j \in DOMAIN delivered[u] : delivered[u][j] = m}} : u \in Uri})

\* A message is never in two places: whatever fails and is tried again, nobody
\* receives a message twice.
NeverTwice == \A m \in Msg : \A p, q \in Places(m) : p = q

\* A message is only ever written to, and read from, a connection to its own
\* destination, whatever connections replaced each other under its key.
NeverMisrouted ==
  /\ \A c \in Conn : \A i \in DOMAIN wire[c] : address[c] = Resolve[Dest[wire[c][i]]]
  /\ \A u \in Uri : \A i \in DOMAIN delivered[u] : u = Resolve[Dest[delivered[u][i]]]

\* A connection in the table under the address of its other end has a goroutine
\* that will take it out, so no dead connection stays there, whatever handleOut
\* and the handleIn of other connections did to the entry.
Reading(c) == reader[c] \in {"add", "read", "receive", "close", "del"}

EntriesHaveReaders == \A c \in Conn : conns[address[c]] = c => Reading(c)

Before(x, y) == \E p, q \in DOMAIN sent : p < q /\ sent[p] = x /\ sent[q] = y

AllOpen == \A c \in 1 .. nconn : local[c] /\ remote[c]

\* No message was sent to the same address under another name.
SoleName(d) ==
  \A m \in Contents(sent) : Dest[m] \in Uri /\ Resolve[Dest[m]] = Resolve[d] => Dest[m] = d

\* While every connection is open, messages that were read by one destination
\* and sent to one of the names in S were read in the order of Transmit.
ReadInOrder(S) ==
  AllOpen =>
    \A u \in Uri : \A i, j \in DOMAIN delivered[u] :
      LET x == delivered[u][i]
          y == delivered[u][j] IN
      i < j /\ Dest[x] = Dest[y] /\ Dest[x] \in S => Before(x, y)

\* The messages of one destination arrive in the order of Transmit as long as
\* every connection made is still open, and the destination has one name: the
\* handleIn of a connection to a second name puts it under the first one.
InOrder == ReadInOrder({d \in Uri : SoleName(d)})

\* The same, whatever the names: it does not hold.
InOrderByAnyName == ReadInOrder(Uri)

\* "Map containing all TCP connection": a connection somebody reads is in it.
AllConnectionsKnown ==
  \A c \in Conn : closing # "done" /\ reader[c] = "read" /\ local[c] /\ remote[c]
                    => \E k \in Keys : conns[k] = c

\* "Closes all existing connections": a connection that was read from before
\* Close is closed after it.
CloseIsComplete ==
  [][closing = "started" /\ closing' = "done"
       => \A c \in Conn : reader[c] = "read" => ~local'[c]]_vars

\* No send on a closed channel, no write to the nil map.
NoPanic == ~panicked

\* What Delivery sees: the messages accepted, and those that are on their way.
pending ==
  {m \in Msg : \/ m \in Contents(ch)
               \/ out.msg = m
               \/ \E c \in Conn : m \in Contents(wire[c])}

D == INSTANCE Delivery WITH
       Node     <- Uri,
       To       <- [m \in Msg |-> IF Dest[m] \in Uri THEN Resolve[Dest[m]] ELSE NoUri],
       accepted <- Contents(sent),
       received <- delivered

\* The transport delivers each message once, to its destination, or loses it.
DeliverySpec == D!Spec

-----------------------------------------------------------------------------
(* Liveness.  Go runs the goroutines that can run; a destination accepts a  *)
(* connection if it is dialed again and again; the Context takes messages, *)
(* and Go serves the goroutines blocked on its channel in their order.     *)

Fairness ==
  /\ WF_vars(~panicked /\ HandleOut)
  /\ SF_vars(~panicked /\ Dial)
  /\ \A c \in Conn :
       /\ WF_vars(~panicked /\ (Register(c) \/ CloseIn(c) \/ DelIn(c)))
       /\ WF_vars(~panicked /\ ~(local[c] /\ remote[c]) /\ ReadFails(c))
       /\ SF_vars(~panicked /\ Receive(c))
  /\ WF_vars(~panicked /\ ContextHandles)

FairSpec == WorkingSpec /\ Fairness

\* handleOut gets rid of every message if all URIs parse: it is written, or it is
\* given up after three tries, however often connections fail.
QueueMoves ==
  \A m \in Msg :
       (m \in Contents(ch) \cup {out.msg}) ~> (m \notin Contents(ch) \cup {out.msg})

\* The table holds a connection that either end has closed no longer under the
\* address of its other end, and never again: its handleIn deletes the entry,
\* however long the Context kept it busy.  Nothing more is promised: under a name
\* that is not the address, a dialed connection stays until handleOut has failed
\* to write a message for that name to it.
DeadConnectionsLeave ==
  \A c \in Conn :
    (reader[c] # "none" /\ ~(local[c] /\ remote[c])) ~> [](conns[address[c]] # c)
=============================================================================
